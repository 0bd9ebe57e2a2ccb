-------------------------- MODULE ObservationExport --------------------------
(***************************************************************************)
(* Ingest of claude-mem's observations (graph_ingest.py): the exporter,    *)
(* which writes a file for every observation its ledger does not know, and *)
(* the builder of the unified corpus, a directory of links to the records  *)
(* and the exported files.                                                 *)
(*                                                                         *)
(* Files and the ledger are written in place: opening one empties it.  One *)
(* exporter and one builder run at a time.  Records are there already.     *)
(***************************************************************************)
EXTENDS Naturals, FiniteSets

CONSTANTS
  MaxRows,     \* bound: observations in the database
  MaxExports   \* bound: runs of the exporter

VARIABLES
  rows,       \* the database: id -> what the row's body is: "text", "blank", "broken" JSON
  file,       \* exported files: id -> "torn" or "whole"
  ledger,     \* the ledger's ids
  torn,       \* the ledger was opened for writing and not written
  pc,         \* the exporter: "idle", "row", "write", "save", "ledger"
  pulled,     \* the rows it has still to look at
  ids,        \* DedupLedger._ids
  runs,       \* runs of the exporter so far
  asked,      \* history: the rows the exporter pulled
  served,     \* history: the rows of exports that ended well
  links,      \* links of the corpus: <<source, id>>
  building,   \* sources the builder has still to link, 0 when it does not run
  promised    \* history: the ledger's ids when the builder last began

exporter == <<pc, pulled, ids, runs, asked, served>>
builder == <<links, building, promised>>
vars == <<rows, file, ledger, torn, exporter, builder>>

Init ==
  /\ rows = <<>> /\ file = <<>>
  /\ ledger = {} /\ torn = FALSE
  /\ pc = "idle" /\ pulled = {} /\ ids = {} /\ runs = 0 /\ asked = {} /\ served = {}
  /\ links = {} /\ building = 0 /\ promised = {}

Assign(f, i, value) == [j \in DOMAIN f \cup {i} |-> IF j = i THEN value ELSE f[j]]

\* claude-mem adds an observation.
Observe ==
  /\ Cardinality(DOMAIN rows) < MaxRows
  /\ \E body \in {"text", "blank", "broken"} :
       rows' = Assign(rows, Cardinality(DOMAIN rows) + 1, body)
  /\ UNCHANGED <<file, ledger, torn, exporter, builder>>

-----------------------------------------------------------------------------
(* export_observations.  A torn ledger raises before anything is written.  *)

Begin ==
  /\ pc = "idle" /\ runs < MaxExports /\ ~torn
  /\ pc' = "row" /\ runs' = runs + 1
  /\ \E since \in 1..MaxRows : pulled' = {i \in DOMAIN rows : i >= since}
  /\ asked' = pulled'
  /\ ids' = ledger
  /\ UNCHANGED <<rows, file, ledger, torn, served, builder>>

\* ORDER BY created_at_epoch, id
IsFirst(i) == i \in pulled /\ \A j \in pulled : i <= j

\* Mutant of Skip: what has no body is marked, too.
SkipAndMark ==
  /\ pc = "row"
  /\ \E i \in pulled :
       /\ IsFirst(i) /\ (i \in ids \/ rows[i] = "blank")
       /\ pulled' = pulled \ {i} /\ ids' = ids \cup {i}
  /\ UNCHANGED <<rows, file, ledger, torn, pc, runs, asked, served, builder>>

\* The ledger has it, or there is nothing to export.
Skip ==
  /\ pc = "row"
  /\ \E i \in pulled :
       /\ IsFirst(i) /\ (i \in ids \/ rows[i] = "blank")
       /\ pulled' = pulled \ {i}
  /\ UNCHANGED <<rows, file, ledger, torn, pc, ids, runs, asked, served, builder>>

\* _parse_json_list raises: the export ends, and its ledger is not saved.
Fail ==
  /\ pc = "row"
  /\ \E i \in pulled : IsFirst(i) /\ i \notin ids /\ rows[i] = "broken"
  /\ pc' = "idle"
  /\ UNCHANGED <<rows, file, ledger, torn, pulled, ids, runs, asked, served, builder>>

\* export_observation_to_md opens the file ...
OpenFile ==
  /\ pc = "row"
  /\ \E i \in pulled :
       /\ IsFirst(i) /\ i \notin ids /\ rows[i] = "text"
       /\ file' = Assign(file, i, "torn")
  /\ pc' = "write"
  /\ UNCHANGED <<rows, ledger, torn, pulled, ids, runs, asked, served, builder>>

\* ... writes it, and mark_exported.
WriteFile ==
  /\ pc = "write"
  /\ \E i \in pulled :
       /\ IsFirst(i)
       /\ file' = Assign(file, i, "whole")
       /\ ids' = ids \cup {i} /\ pulled' = pulled \ {i}
  /\ pc' = "row"
  /\ UNCHANGED <<rows, ledger, torn, runs, asked, served, builder>>

\* DedupLedger.save
OpenLedger ==
  /\ pc = "row" /\ pulled = {}
  /\ ledger' = {} /\ torn' = TRUE
  /\ pc' = "ledger"
  /\ UNCHANGED <<rows, file, pulled, ids, runs, asked, served, builder>>

WriteLedger ==
  /\ pc = "ledger"
  /\ ledger' = ids /\ torn' = FALSE
  /\ served' = served \cup asked
  /\ pc' = "idle"
  /\ UNCHANGED <<rows, file, pulled, ids, runs, asked, builder>>

\* The exporter's process dies.
Die ==
  /\ pc # "idle" /\ pc' = "idle"
  /\ UNCHANGED <<rows, file, ledger, torn, pulled, ids, runs, asked, served, builder>>

\* The user removes the ledger that cannot be read.
RemoveLedger ==
  /\ torn /\ pc = "idle"
  /\ torn' = FALSE /\ served' = {}
  /\ UNCHANGED <<rows, file, ledger, pc, pulled, ids, runs, asked, builder>>

-----------------------------------------------------------------------------
(* build_unified_corpus: sources 1 and 2 are the decisions and lessons, 3  *)
(* the observations.                                                       *)

Files(source) == IF source = 3 THEN DOMAIN file ELSE {1}

\* _clear_corpus_links
Clear ==
  /\ building = 0
  /\ links' = {} /\ building' = 1
  /\ promised' = ledger
  /\ UNCHANGED <<rows, file, ledger, torn, exporter>>

LinkSource ==
  /\ building > 0
  /\ links' = links \cup ({building} \X Files(building))
  /\ building' = IF building < 3 THEN building + 1 ELSE 0
  /\ UNCHANGED <<rows, file, ledger, torn, exporter, promised>>

Export == Begin \/ Skip \/ Fail \/ OpenFile \/ WriteFile \/ OpenLedger \/ WriteLedger
Next == Observe \/ Export \/ Die \/ RemoveLedger \/ Clear \/ LinkSource

Spec == Init /\ [][Next]_vars

-----------------------------------------------------------------------------
(* Properties.                                                             *)

\* Whatever dies in between: an observation the ledger knows has a whole file,
\* linked once a build that began later has ended; and an export that ended
\* well left none of its observations out (graph_ingest.py).  The ledger is the
\* only reason not to export a row again, so a wrong entry loses it for good.
LedgerIsInCorpus ==
  /\ \A i \in ledger :
       /\ i \in DOMAIN file /\ file[i] = "whole"
       /\ building = 0 /\ i \in promised => <<3, i>> \in links
  /\ ~torn => \A i \in served : rows[i] = "text" => i \in ledger
=============================================================================
