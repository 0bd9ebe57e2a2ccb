----------------------------- MODULE LiveStream -----------------------------
(***************************************************************************)
(* The live record stream: GET /api/stream/records (daemon/live.py) and    *)
(* the dashboard that keeps one connection per record prefix and resumes   *)
(* it after a failure (daemon/static/pm/app.jsx).                          *)
(*                                                                         *)
(* The records of a prefix are numbered without gaps, so a directory is    *)
(* the number of its records, and its mtime changes with that number       *)
(* (other writes only cause a listing that finds nothing new).  Channel p  *)
(* is the connection whose `since` names a record of prefix p; each        *)
(* channel reports the records of every prefix, and the page has one       *)
(* watermark a prefix for both.  A connection's since and its first        *)
(* listing are taken at once: what came in between would only make the     *)
(* since older, and more records be sent again.                            *)
(***************************************************************************)
EXTENDS Integers, Sequences, FiniteSets

CONSTANTS
  Prefixes,   \* record prefixes, one directory and one channel each
  MaxRecords, \* bound: records created
  MaxDrops,   \* bound: how often connections fail
  MaxUnread   \* bound: how often a record cannot be read

VARIABLES
  loaded,     \* prefix -> records the page knew when it was loaded
  count,      \* prefix -> records in its directory
  at,         \* channel -> where its generator is
  known,      \* channel -> prefix -> known_seq
  noted,      \* channel -> prefix -> mtime it last saw (Unknown: none)
  dir,        \* channel -> prefix of the directory it is looking at
  found,      \* channel -> highest number in that directory's listing
  wire,       \* channel -> events sent and not received yet
  watermark,  \* prefix -> the dashboard's last record id, 0 before the first
  shown,      \* records the dashboard shows, as <<prefix, number>>
  drops,      \* connections that have failed
  unread,     \* <<channel, record>>: the channel could not read the record
  jumped,     \* history: records that an event of another channel left behind
  missed      \* history: those that were not shown when their channel opened again

stream == <<at, known, noted, dir, found, wire, unread>>
page == <<watermark, shown, jumped, missed>>
vars == <<loaded, count, stream, page, drops>>

Unknown == -1
Records(p, numbers) == {p} \X numbers

Init ==
  /\ loaded \in [Prefixes -> 0..1] /\ count = loaded
  /\ at = [c \in Prefixes |-> "closed"]
  /\ known = [c \in Prefixes |-> [p \in Prefixes |-> 0]]
  /\ noted = [c \in Prefixes |-> [p \in Prefixes |-> Unknown]]
  /\ dir = [c \in Prefixes |-> c]
  /\ found = [c \in Prefixes |-> 0]
  /\ wire = [c \in Prefixes |-> <<>>]
  /\ watermark = loaded
  /\ shown = UNION {Records(p, 1..loaded[p]) : p \in Prefixes}
  /\ drops = 0 /\ unread = {} /\ jumped = {} /\ missed = {}

\* A record file appears; its rename is atomic.
CreateRecord(p) ==
  /\ Cardinality(UNION {Records(o, (loaded[o] + 1)..count[o]) : o \in Prefixes}) < MaxRecords
  /\ count' = [count EXCEPT ![p] = @ + 1]
  /\ UNCHANGED <<loaded, stream, page, drops>>

-----------------------------------------------------------------------------
(* The server: _record_stream_events.                                      *)

\* openChannel with a since: the listing is corrected for the own prefix, and
\* both directories are due for a scan.
OpenSince(c) ==
  /\ at[c] = "closed" /\ watermark[c] > 0
  /\ known' = [known EXCEPT ![c] = [count EXCEPT ![c] = watermark[c]]]
  /\ noted' = [noted EXCEPT ![c] = [p \in Prefixes |-> Unknown]]
  /\ at' = [at EXCEPT ![c] = "stat"]
  /\ missed' = missed \cup ((Records(c, 1..watermark[c]) \cap jumped) \ shown)
  /\ UNCHANGED <<loaded, count, dir, found, wire, unread, watermark, shown, jumped, drops>>

\* openChannel without a since: the directories are listed ...
OpenFresh(c) ==
  /\ at[c] = "closed" /\ watermark[c] = 0
  /\ known' = [known EXCEPT ![c] = count]
  /\ at' = [at EXCEPT ![c] = "opening"]
  /\ UNCHANGED <<loaded, count, noted, dir, found, wire, unread, page, drops>>

\* ... and only then their mtimes are taken.
NoteMtimes(c) ==
  /\ at[c] = "opening"
  /\ noted' = [noted EXCEPT ![c] = count]
  /\ at' = [at EXCEPT ![c] = "stat"]
  /\ UNCHANGED <<loaded, count, known, dir, found, wire, unread, page, drops>>

\* Mutant of Stat: the mtime is noted, but the directory has been listed before.
StatLate(c, p) ==
  /\ at[c] = "stat" /\ count[p] # noted[c][p]
  /\ noted' = [noted EXCEPT ![c][p] = count[p]]
  /\ UNCHANGED <<loaded, count, at, known, dir, found, wire, unread, page, drops>>

\* A poll finds a directory's mtime changed ...  (The code scans the directories
\* one after the other and then sends; here each scan is sent by itself, which
\* changes neither the events nor their order.)
Stat(c, p) ==
  /\ at[c] = "stat" /\ count[p] # noted[c][p]
  /\ noted' = [noted EXCEPT ![c][p] = count[p]]
  /\ dir' = [dir EXCEPT ![c] = p]
  /\ at' = [at EXCEPT ![c] = "list"]
  /\ UNCHANGED <<loaded, count, known, found, wire, unread, page, drops>>

\* ... lists it ...
List(c) ==
  /\ at[c] = "list"
  /\ found' = [found EXCEPT ![c] = count[dir[c]]]
  /\ at' = [at EXCEPT ![c] = IF count[dir[c]] > known[c][dir[c]] THEN "send" ELSE "stat"]
  /\ UNCHANGED <<loaded, count, known, noted, dir, wire, unread, page, drops>>

\* ... and goes through the new records in order: known_seq is raised, and the record is
\* sent if it can be read (_record_summary).
Send(c) ==
  LET p == dir[c]
      n == known[c][p] + 1
  IN /\ at[c] = "send"
     /\ known' = [known EXCEPT ![c][p] = n]
     /\ \/ wire' = [wire EXCEPT ![c] = Append(@, <<p, n>>)] /\ unread' = unread
        \/ /\ Cardinality(unread) < MaxUnread
           /\ unread' = unread \cup {<<c, <<p, n>>>>} /\ wire' = wire
     /\ at' = [at EXCEPT ![c] = IF n = found[c] THEN "stat" ELSE "send"]
     /\ UNCHANGED <<loaded, count, noted, dir, found, page, drops>>

-----------------------------------------------------------------------------
(* The dashboard.                                                          *)

NoteSeenRecordId(p, n) == watermark' = [watermark EXCEPT ![p] = IF n > @ THEN n ELSE @]
ApplyLiveRecord(p, n) == shown' = shown \cup {<<p, n>>}

\* handleRecordEvent
Receive(c) ==
  LET p == Head(wire[c])[1]
      n == Head(wire[c])[2]
  IN /\ wire[c] # <<>>
     /\ wire' = [wire EXCEPT ![c] = Tail(@)]
     /\ NoteSeenRecordId(p, n)
     /\ ApplyLiveRecord(p, n)
     /\ jumped' = IF c = p THEN jumped ELSE jumped \cup Records(p, (watermark[p] + 1)..(n - 1))
     /\ UNCHANGED <<loaded, count, at, known, noted, dir, found, unread, missed, drops>>

\* The connection fails (onerror); what was under way is lost.
Drop(c) ==
  /\ at[c] # "closed" /\ drops < MaxDrops
  /\ drops' = drops + 1
  /\ at' = [at EXCEPT ![c] = "closed"]
  /\ wire' = [wire EXCEPT ![c] = <<>>]
  /\ known' = [known EXCEPT ![c] = [p \in Prefixes |-> 0]]
  /\ noted' = [noted EXCEPT ![c] = [p \in Prefixes |-> Unknown]]
  /\ dir' = [dir EXCEPT ![c] = c]
  /\ found' = [found EXCEPT ![c] = 0]
  /\ UNCHANGED <<loaded, count, unread, page>>

Serve(c) ==
  \/ OpenSince(c) \/ OpenFresh(c) \/ NoteMtimes(c)
  \/ \E p \in Prefixes : Stat(c, p)
  \/ List(c) \/ Send(c)

Next ==
  \/ \E p \in Prefixes : CreateRecord(p)
  \/ \E c \in Prefixes : Serve(c) \/ Receive(c) \/ Drop(c)

-----------------------------------------------------------------------------
(* Properties.                                                             *)

\* Records of the prefixes of which the page knew one.
Expected == UNION {Records(p, 1..count[p]) : p \in {q \in Prefixes : loaded[q] > 0}}

\* Records given up: what its prefix' own channel could not read when it was new
\* (live.py does not try again), and what the other channel's event left behind, by
\* raising the watermark they share, before the own channel was opened again (app.jsx).
GivenUp == missed \cup {r \in Expected : <<r[1], r>> \in unread}

\* The channels are open, have nothing new to list, and all they sent has arrived.
AtRest == \A c \in Prefixes : at[c] = "stat" /\ noted[c] = count /\ wire[c] = <<>>

\* Whatever was created, polled and disconnected when: once the channels have come to
\* rest, every record is shown but those given up.
EveryRecordShown == AtRest => Expected \subseteq shown \cup GivenUp
=============================================================================
