----------------------------- MODULE PromptEditor -----------------------------
(***************************************************************************)
(* The shared council prompt (council/prompt.py) and the editors that load *)
(* and save it (council/api.py; views-council-prompt.jsx).  A save carries *)
(* the version the editor holds, the file's mtime, and is refused when the *)
(* file has another one by then.  No step of a request takes a lock.       *)
(*                                                                         *)
(* A text is the number of the save that wrote it, Default before the      *)
(* first; a temporary file's mtime is when it was written, which becomes   *)
(* the prompt's when the file is renamed.                                  *)
(***************************************************************************)
EXTENDS Naturals

CONSTANTS
  Editors,  \* browser tabs
  MaxSaves, \* bound: temporary files written
  MaxResets \* bound: resets to the built-in prompt

VARIABLES
  prompt,  \* the text in the file, NoFile without one
  mtime,   \* text -> mtime of the file it was written to
  clock,   \* files written
  resets,
  pc,      \* editor -> where its request is
  seen,    \* editor -> the text it last loaded or saved
  version, \* editor -> the version it holds
  temp,    \* editor -> the text it is saving
  raced    \* editor -> texts that replaced others during one of its requests

file == <<prompt, mtime, clock, resets>>
vars == <<file, pc, seen, version, temp, raced>>

NoFile == 0
Texts == 1..MaxSaves

Init ==
  /\ prompt = NoFile /\ mtime = [t \in Texts |-> 0] /\ clock = 0 /\ resets = 0
  /\ pc = [e \in Editors |-> "closed"]
  /\ seen = [e \in Editors |-> NoFile] /\ version = [e \in Editors |-> NoFile]
  /\ temp = [e \in Editors |-> NoFile] /\ raced = [e \in Editors |-> {}]

Goes(e, from, to) == pc[e] = from /\ pc' = [pc EXCEPT ![e] = to]

\* _prompt_version: "0" without a file.
PromptVersion == IF prompt = NoFile THEN 0 ELSE mtime[prompt]

\* e makes the prompt t: a history for the other requests under way.
Becomes(t, e) ==
  /\ prompt' = t
  /\ raced' = [o \in Editors |->
                IF o = e THEN {}
                ELSE IF pc[o] \in {"closed", "editing"} THEN raced[o] ELSE raced[o] \cup {t}]

-----------------------------------------------------------------------------
(* GET: the text, then its version.                                        *)

ReadText(e) ==
  /\ pc[e] \in {"closed", "editing"}
  /\ pc' = [pc EXCEPT ![e] = "loading"]
  /\ seen' = [seen EXCEPT ![e] = prompt]
  /\ raced' = [raced EXCEPT ![e] = {}]
  /\ UNCHANGED <<file, version, temp>>

ReadVersion(e) ==
  /\ Goes(e, "loading", "editing")
  /\ version' = [version EXCEPT ![e] = PromptVersion]
  /\ UNCHANGED <<file, seen, temp, raced>>

-----------------------------------------------------------------------------
(* POST.                                                                   *)

\* Mutant of CheckVersion: a save without a version is never refused.
SaveAnyVersion(e) ==
  /\ Goes(e, "editing", "checked")
  /\ UNCHANGED <<file, seen, version, temp, raced>>

CheckVersion(e) ==
  /\ pc[e] = "editing"
  /\ pc' = [pc EXCEPT ![e] = IF version[e] = PromptVersion THEN "checked" ELSE "conflict"]
  /\ UNCHANGED <<file, seen, version, temp, raced>>

\* mkstemp and write.
WriteTemp(e) ==
  /\ clock < MaxSaves /\ Goes(e, "checked", "written")
  /\ clock' = clock + 1
  /\ temp' = [temp EXCEPT ![e] = clock']
  /\ mtime' = [mtime EXCEPT ![clock'] = clock']
  /\ UNCHANGED <<prompt, resets, seen, version, raced>>

Replace(e) ==
  /\ Goes(e, "written", "saved")
  /\ Becomes(temp[e], e)
  /\ UNCHANGED <<mtime, clock, resets, seen, version, temp>>

\* The answer has the version the file has by now; the editor keeps its text.
AnswerSave(e) ==
  /\ Goes(e, "saved", "editing")
  /\ seen' = [seen EXCEPT ![e] = temp[e]]
  /\ version' = [version EXCEPT ![e] = PromptVersion]
  /\ UNCHANGED <<file, temp, raced>>

\* The write fails: the temporary file is removed and the editor told.
FailSave(e) ==
  /\ Goes(e, "written", "editing")
  /\ UNCHANGED <<file, seen, version, temp, raced>>

\* The conflict message offers to load again (onReloadAfterConflict).
Reload(e) ==
  /\ Goes(e, "conflict", "closed")
  /\ UNCHANGED <<file, seen, version, temp, raced>>

\* POST reset: no version is asked for; the page loads again.
Reset(e) ==
  /\ resets < MaxResets /\ pc[e] = "editing"
  /\ resets' = resets + 1
  /\ pc' = [pc EXCEPT ![e] = "closed"]
  /\ Becomes(NoFile, e)
  /\ UNCHANGED <<mtime, clock, seen, version, temp>>

Edit(e) ==
  \/ ReadText(e) \/ ReadVersion(e)
  \/ CheckVersion(e) \/ WriteTemp(e) \/ Replace(e) \/ AnswerSave(e) \/ FailSave(e)
  \/ Reload(e) \/ Reset(e)

Next == \E e \in Editors : Edit(e)
Spec == Init /\ [][Next]_vars

-----------------------------------------------------------------------------
\* A save never destroys a change its author could not know of, but one that was
\* made while a request of that author was under way: the version check closes
\* everything except those gaps.
OnlyRacesAreLost ==
  [][\A e \in Editors : Replace(e) => prompt \in raced[e] \cup {seen[e]}]_vars
=============================================================================
