------------------------------ MODULE AssetEditor ------------------------------
(***************************************************************************)
(* Saving an agent's rule or memory file from the dashboard                *)
(* (daemon/agent_assets.py: write_asset): copy the file to a backup, write *)
(* a temporary file whose name is fixed, replace the file by it, and       *)
(* remove what is left under the temporary name.  Request threads take no  *)
(* lock; the daemon may die at any step.                                   *)
(*                                                                         *)
(* Files are inodes: a thread that has opened one goes on writing into it  *)
(* after it was renamed.  An inode is named by the saver that creates it,  *)
(* which creates at most one.  A text is two halves, each a saver's.       *)
(***************************************************************************)
EXTENDS Naturals

CONSTANTS
  Savers,   \* requests, each with a text of its own
  MaxDeaths \* bound: deaths of the daemon

VARIABLES
  text,     \* inode -> its two halves
  target,   \* the inode of the asset
  temp,     \* the inode under the temporary name, or NoFile
  backups,  \* texts that were copied
  published,\* texts the asset has had
  pc,       \* saver -> where it is
  open,     \* saver -> the inode it writes
  overlapped, \* has a save begun while another was under way? (history)
  deaths

vars == <<text, target, temp, backups, published, pc, open, overlapped, deaths>>

NoFile == "none"
First == "original"
Inodes == Savers \cup {First}
Whole(s) == <<s, s>>
Original == <<"original", "original">>
Empty == <<"nothing", "nothing">>
Init ==
  /\ text = [i \in Inodes |-> IF i = First THEN Original ELSE Empty]
  /\ target = First /\ temp = NoFile
  /\ backups = {} /\ published = {Original}
  /\ pc = [s \in Savers |-> "start"] /\ open = [s \in Savers |-> NoFile]
  /\ overlapped = FALSE /\ deaths = 0

Goes(s, from, to) == pc[s] = from /\ pc' = [pc EXCEPT ![s] = to]

\* What the asset is after a step, for the history.
Publish == published' = published \cup {text'[target']}

\* Mutant of Backup: the copy is left out when there is one already.
BackupOnce(s) ==
  /\ Goes(s, "start", "open")
  /\ backups' = IF backups = {} THEN {text[target]} ELSE backups
  /\ overlapped' = (overlapped \/ \E o \in Savers : pc[o] \notin {"start", "done"})
  /\ UNCHANGED <<text, target, temp, published, open, deaths>>

\* shutil.copy2 into a directory of its own.
Backup(s) ==
  /\ Goes(s, "start", "open")
  /\ backups' = backups \cup {text[target]}
  /\ overlapped' = (overlapped \/ \E o \in Savers : pc[o] \notin {"start", "done"})
  /\ UNCHANGED <<text, target, temp, published, open, deaths>>

\* O_CREAT | O_TRUNC: a file that is there under the name is emptied.
Open(s) ==
  LET inode == IF temp = NoFile THEN s ELSE temp
  IN /\ Goes(s, "open", "first")
     /\ temp' = inode /\ open' = [open EXCEPT ![s] = inode]
     /\ text' = [text EXCEPT ![inode] = Empty]
     /\ UNCHANGED <<target, backups, overlapped, deaths>>
     /\ Publish

\* The handle's buffer goes out in pieces, each at the handle's own offset.
WriteHalf(s, half) ==
  /\ Goes(s, IF half = 1 THEN "first" ELSE "second", IF half = 1 THEN "second" ELSE "replace")
  /\ text' = [text EXCEPT ![open[s]][half] = s]
  /\ UNCHANGED <<target, temp, backups, open, overlapped, deaths>>
  /\ Publish

\* chmod and os.replace; without a file under the name they fail.
Replace(s) ==
  /\ Goes(s, "replace", "unlink")
  /\ target' = IF temp = NoFile THEN target ELSE temp
  /\ temp' = NoFile /\ text' = text
  /\ Publish
  /\ UNCHANGED <<backups, open, overlapped, deaths>>

\* The finally clause: whoever's file is under the name, it goes.
Unlink(s) ==
  /\ Goes(s, "unlink", "done")
  /\ temp' = NoFile /\ open' = [open EXCEPT ![s] = NoFile]
  /\ UNCHANGED <<text, target, backups, published, overlapped, deaths>>

\* The daemon dies; its threads are gone, the temporary file is left.
Die ==
  /\ deaths < MaxDeaths /\ deaths' = deaths + 1
  /\ pc' = [s \in Savers |-> IF pc[s] = "start" THEN "start" ELSE "done"]
  /\ open' = [s \in Savers |-> NoFile]
  /\ UNCHANGED <<text, target, temp, backups, published, overlapped>>

Save(s) == Backup(s) \/ Open(s) \/ WriteHalf(s, 1) \/ WriteHalf(s, 2) \/ Replace(s) \/ Unlink(s)
Next == Die \/ \E s \in Savers : Save(s)

Spec == Init /\ [][Next]_vars

-----------------------------------------------------------------------------
(* Properties.                                                             *)

IsWhole(t) == t[1] = t[2] /\ t # Empty

\* Saves one after the other, with deaths of the daemon at any step and what
\* they leave under the temporary name: the asset is whole at every moment, and
\* every text it has had is still there or in a backup.
NothingLost ==
  ~overlapped =>
    /\ IsWhole(text[target])
    /\ published \subseteq backups \cup {text[target]}
=============================================================================
