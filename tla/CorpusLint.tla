----------------------------- MODULE CorpusLint -----------------------------
(***************************************************************************)
(* `python -m persistent_memory.lint <directory>` (lint.py): a directory,  *)
(* and the exit code the linter ends with.  The checks are in RecordLint.  *)
(***************************************************************************)
EXTENDS RecordLint

CONSTANTS
  Stems,     \* files that may be there (numbers)
  LintedIds, \* ids a record may have or name (numbers)
  Ages,      \* ages in days
  Saliences  \* in hundredths

VARIABLES
  files,     \* the directory: stem -> content
  exit       \* the exit code, NotRun before the linter has run

lintVars == <<files, exit>>

NotRun == 3

AtMostOne == {{}} \cup {{i} : i \in LintedIds}

\* Front matter that holds no record; the other fields are not read.
NoRecord ==
  [front : {"missing", "unclosed", "malformed", "scalar", "invalid"}, unknown : BOOLEAN]

\* A record as far as its relations to others go ...
Related ==
  [front : {"valid"}, unknown : {FALSE}, id : LintedIds, status : {"accepted", "superseded"},
   supersedes : AtMostOne, supersededBy : AtMostOne, links : AtMostOne,
   age : {0}, salience : {100}]

\* ... and as far as it stands for itself.
Alone ==
  [front : {"valid"}, unknown : BOOLEAN, id : LintedIds, status : {"accepted", "superseded"},
   supersedes : {{}}, supersededBy : {{}}, links : {{}},
   age : Ages, salience : Saliences]

\* A directory of related records, or one where a file is a case of its own.
Init ==
  /\ \E present \in SUBSET Stems :
       \/ files \in [present -> Related]
       \/ \E f \in present, content \in NoRecord \cup Alone, other \in Related :
            files = [g \in present |-> IF g = f THEN content ELSE other]
  /\ exit = NotRun

\* main: a YAMLError ends the process with a traceback, which exits with 1.
Main ==
  /\ exit = NotRun
  /\ exit' = IF \E f \in DOMAIN files : Parse(files[f]) = "YAMLError"
             THEN 1 ELSE ExitCode(RunLint(files))
  /\ UNCHANGED files

Next == Main
Spec == Init /\ [][Next]_lintVars

-----------------------------------------------------------------------------
(* Properties.                                                             *)

\* Every file holds a record that is in order by itself.
InOrder(r) ==
  /\ r.front = "valid" /\ ~r.unknown
  /\ r.supersededBy # {} => r.status \in SupersededStatuses
  /\ r.age < StaleAfterDays \/ r.salience >= LowSalience \/ r.status \in SupersededStatuses

\* f's record supersedes g's, as each of the two tells it.
Claims(f, g) == files[g].id \in files[f].supersedes
Admits(f, g) == files[f].id \in files[g].supersededBy

\* The linter passes a corpus exactly if every file is a record in order, no id
\* is there twice, what records name exists, and any two records agree on which
\* supersedes the other (lint.py; orphans alone do not fail).
ExitTellsConsistency ==
  exit # NotRun =>
    (exit = 0 <=>
       /\ \A f \in DOMAIN files : InOrder(files[f])
       /\ \A f, g \in DOMAIN files :
            /\ files[f].id = files[g].id => f = g
            /\ Claims(f, g) <=> Admits(f, g)
       /\ \A f \in DOMAIN files :
            files[f].links \cup files[f].supersedes \cup files[f].supersededBy
              \subseteq {files[g].id : g \in DOMAIN files})
=============================================================================
