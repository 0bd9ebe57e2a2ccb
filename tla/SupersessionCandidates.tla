------------------------ MODULE SupersessionCandidates ------------------------
(***************************************************************************)
(* Supersession candidates: the surprising edges of the corpus graph       *)
(* (consolidate.py) that the dashboard lists until somebody dismisses the  *)
(* pair (daemon/services.py).  Dismissals are kept in one JSON file that   *)
(* each request reads, extends and replaces, without a lock; the graph is  *)
(* rebuilt by another program at any time.                                 *)
(*                                                                         *)
(* A node's label is the record it names, or no record's id.               *)
(***************************************************************************)
EXTENDS Naturals, FiniteSets

CONSTANTS
  Nodes,      \* nodes of the graph
  Labels,     \* texts of nodes
  Threshold,  \* SURPRISE_SCORE_THRESHOLD, in the unit of Scores
  Scores,     \* confidence scores of edges
  Requests,   \* dismissals
  MaxBuilds   \* bound: builds of the graph

VARIABLES
  graph,      \* [label, community, edges], edges being [from, to, score]
  builds,
  dismissed,  \* the pairs in the file, as they were sent
  pc,         \* request -> where it is
  pair,       \* request -> the pair to dismiss
  copy,       \* request -> the pairs it read
  promised,   \* pairs whose dismissal was answered
  disturbed   \* has a dismissal read while another was under way, or failed to? (history)

vars == <<graph, builds, dismissed, pc, pair, copy, promised, disturbed>>

NoCommunity == 0
Edges == {e \in [from : Nodes, to : Nodes, score : Scores] : e.from # e.to}
Graphs ==
  [label : [Nodes -> Labels], community : [Nodes -> {NoCommunity, 1, 2}],
   edges : {{e} : e \in Edges} \cup {{}}]

NoGraph == CHOOSE g \in Graphs : g.edges = {}

Init ==
  /\ graph = NoGraph /\ builds = 0 /\ dismissed = {}
  /\ pc = [r \in Requests |-> "idle"]
  /\ pair \in [Requests -> {p \in Labels \X Labels : p[1] # p[2]}]
  /\ copy = [r \in Requests |-> {}]
  /\ promised = {} /\ disturbed = FALSE

-----------------------------------------------------------------------------
\* _surprises_from_graph: edges between nodes of two communities.
Surprises(g) ==
  {e \in g.edges :
     /\ g.community[e.from] # NoCommunity /\ g.community[e.to] # NoCommunity
     /\ g.community[e.from] # g.community[e.to]}

\* map_surprises_to_supersession_candidates
CandidatesOf(g) ==
  {[source |-> g.label[e.from], target |-> g.label[e.to], score |-> e.score] :
     e \in {s \in Surprises(g) : s.score >= Threshold}}

\* Mutant of PairKey: the pair as it was sent.
PairKeyOrdered(source, target) == <<source, target>>

\* _pair_key: a pair has no direction.
PairKey(source, target) == {source, target}

DismissedKeys == {PairKey(p[1], p[2]) : p \in dismissed}

\* list_supersession_candidates
Listed == {c \in CandidatesOf(graph) : PairKey(c.source, c.target) \notin DismissedKeys}

-----------------------------------------------------------------------------
\* The graph is built again: labels, communities and directions may change.
Rebuild ==
  /\ builds < MaxBuilds /\ builds' = builds + 1
  /\ graph' \in Graphs
  /\ UNCHANGED <<dismissed, pc, pair, copy, promised, disturbed>>

UnderWay(r) == \E o \in Requests \ {r} : pc[o] = "read"

\* dismiss_supersession_candidate: _load_dismissed_pairs ...
ReadDismissed(r) ==
  /\ pc[r] = "idle" /\ pc' = [pc EXCEPT ![r] = "read"]
  /\ copy' = [copy EXCEPT ![r] = dismissed]
  /\ disturbed' = (disturbed \/ UnderWay(r))
  /\ UNCHANGED <<graph, builds, dismissed, pair, promised>>

\* ... which takes a file it cannot read for an empty one ...
ReadNothing(r) ==
  /\ pc[r] = "idle" /\ pc' = [pc EXCEPT ![r] = "read"]
  /\ copy' = [copy EXCEPT ![r] = {}]
  /\ disturbed' = TRUE
  /\ UNCHANGED <<graph, builds, dismissed, pair, promised>>

Known(r) == PairKey(pair[r][1], pair[r][2]) \in {PairKey(p[1], p[2]) : p \in copy[r]}

\* ... and the file is replaced, unless the pair is in it; then the answer.
WriteDismissed(r) ==
  /\ pc[r] = "read" /\ pc' = [pc EXCEPT ![r] = "done"]
  /\ dismissed' = IF Known(r) THEN dismissed ELSE copy[r] \cup {pair[r]}
  /\ promised' = promised \cup {pair[r]}
  /\ UNCHANGED <<graph, builds, pair, copy, disturbed>>

Next ==
  \/ Rebuild
  \/ \E r \in Requests : ReadDismissed(r) \/ ReadNothing(r) \/ WriteDismissed(r)

Spec == Init /\ [][Next]_vars

-----------------------------------------------------------------------------
\* A pair that was dismissed is never offered again, whichever way round a later
\* build has it, as long as dismissals came one after the other and the file
\* could be read.
DismissedStaysDismissed ==
  ~disturbed =>
    \A c \in Listed, p \in promised : {c.source, c.target} # {p[1], p[2]}
=============================================================================
