--------------------------------- MODULE Recall ---------------------------------
(***************************************************************************)
(* What a prompt gets to see: the fused ranking of the records             *)
(* (retriever.py: search), the hits of the project and, in the slots it    *)
(* leaves free, of other projects, and the block of lines that are         *)
(* relevant enough and fit the token budget (daemon/services.py:           *)
(* run_prompt_recall).                                                     *)
(*                                                                         *)
(* A corpus is a function from record numbers to what ranking reads.       *)
(* Scores are exact: numerators over one denominator per search, where the *)
(* program has floating point numbers.                                     *)
(***************************************************************************)
EXTENDS Integers, FiniteSets, Sequences, SequencesExt

CONSTANTS
  Projects, \* projects of records
  Asking,   \* the project the prompt is of
  Levels,   \* lexical scores; vector scores, with 0 for a record without vector
  Weights,  \* salience and recency
  Costs,    \* tokens of a line
  Minima,   \* minimum_relevance of a request, in percent
  Budgets,  \* tokens of the block
  MaxIds    \* bound: records of a corpus

VARIABLES
  corpus, \* the records
  query   \* the request: whether its text has words, what it asks for

vars == <<corpus, query>>

Record ==
  [project : Projects, lex : Levels, vec : Levels, salience : Weights, recency : Weights,
   current : BOOLEAN, cost : Costs]

Query == [words : BOOLEAN, minimum : Minima, budget : Budgets]

\* PROMPT_RECALL_TOP_K, CROSS_PROJECT_MAX, CROSS_PROJECT_SCORE_RATIO in percent
TopK == 3
CrossProjectMax == 2
CrossProjectPercent == 55
Header == 1

-----------------------------------------------------------------------------
\* RetrievalCandidate: a record's number and its score.
Candidate(r, score) == [id |-> r, score |-> score]

\* The best first; ties go to the smaller number.
Precedes(a, b) == a.score > b.score \/ (a.score = b.score /\ a.id < b.id)
PlaceIn(candidates, r) ==
  LET own == CHOOSE c \in candidates : c.id = r
  IN Cardinality({c \in candidates : Precedes(c, own)}) + 1

\* bm25_rank: every record has a place, those that do not match too; none has one when
\* the text holds no word.
Lexical(S) == {Candidate(r, corpus[r].lex) : r \in {s \in S : query.words}}

\* vector_rank: only records that have a vector.
Vectors(S) == {Candidate(r, corpus[r].vec) : r \in {s \in S : corpus[s].vec > 0}}

\* 1 / (RRF_K + rank + 1), over a common denominator for up to four places.
Unit == 6 * 7 * 8 * 9
Reciprocal(source, r) ==
  IF \E c \in source : c.id = r THEN Unit \div (5 + PlaceIn(source, r)) ELSE 0

\* Records that have a place in some source.
Found(S) == {r \in S : query.words \/ corpus[r].vec > 0}

\* _rrf_scores
Fused(S) ==
  LET lexical == Lexical(S)
      vectors == Vectors(S)
  IN {Candidate(r, Reciprocal(lexical, r) + Reciprocal(vectors, r)) : r \in Found(S)}

LargestOf(S) == CHOOSE x \in S : \A y \in S : y <= x
SmallestOf(S) == CHOOSE x \in S : \A y \in S : x <= y
Smaller(a, b) == IF a < b THEN a ELSE b

\* SUPERSEDED_DAMP_FACTOR, in tenths.
Damp(r, score) == IF corpus[r].current THEN 10 * score ELSE 3 * score

\* The weighted sum of search: relevance stretched to 0..1 over the candidates.
Lowest(fused) == SmallestOf({c.score : c \in fused})
Highest(fused) == LargestOf({c.score : c \in fused})
Span(fused) ==
  IF Highest(fused) = Lowest(fused) THEN Unit ELSE Highest(fused) - Lowest(fused)
Stretched(fused) ==
  LET lo == Lowest(fused)
      span == Span(fused)
      Score(c) == 90 * (c.score - lo) + span * (7 * corpus[c.id].salience + 3 * corpus[c.id].recency)
  IN {Candidate(c.id, Damp(c.id, Score(c))) : c \in fused}

Weighted(S) == Stretched(Fused(S))

First(n, candidates) == SubSeq(candidates, 1, Smaller(n, Len(candidates)))

\* Candidates in the order of their places.
Ranked(candidates) ==
  [i \in 1..Cardinality(candidates) |-> CHOOSE c \in candidates : PlaceIn(candidates, c.id) = i]

\* search, within the records S.
Search(S, topK) ==
  IF Found(S) = {} THEN <<>>
  ELSE First(topK, Ranked(Weighted(S)))

Numbers(candidates) == [i \in DOMAIN candidates |-> candidates[i].id]

Own == {r \in DOMAIN corpus : corpus[r].project = Asking}

\* _cross_project_hits: the best of other projects that come near the very best.
IsNear(c, best) == 100 * c.score >= CrossProjectPercent * best[1].score
\* Mutant of NearOthers: the project's own are not passed over.
NearAll(best) == First(CrossProjectMax, Ranked({c \in ToSet(best) : IsNear(c, best)}))
NearOthers(best) ==
  First(CrossProjectMax, Ranked({c \in ToSet(best) : c.id \notin Own /\ IsNear(c, best)}))
CrossProjectHits == NearOthers(Search(DOMAIN corpus, TopK))

\* _search_for_prompt_recall
FillUp(primary) ==
  First(TopK, IF Len(primary) >= TopK THEN primary ELSE primary \o CrossProjectHits)
Hits == Numbers(FillUp(Search(Own, TopK)))

Used(lines) == FoldLeft(LAMBDA sum, r : sum + corpus[r].cost, Header, lines)

\* Candidates of a search within S that reach the request's minimum; 1 is 1000 * Span.
Relevant(S) ==
  LET least == 10 * query.minimum * Span(Fused(S))
  IN {c.id : c \in {d \in Weighted(S) : d.score >= least}}

\* A hit has the score of the search that found it.
RelevantHits == Relevant(Own) \cup (Relevant(DOMAIN corpus) \ Own)
KeepRelevant(hits) ==
  LET relevant == RelevantHits
  IN FlattenSeq([i \in DOMAIN hits |-> IF hits[i] \in relevant THEN <<hits[i]>> ELSE <<>>])

\* _format_prompt_recall_block: lines are added until one does not fit.
FirstLines(hits) ==
  LET fitting == {n \in 1..Len(hits) : Used(SubSeq(hits, 1, n)) <= query.budget}
  IN IF fitting = {} THEN <<>> ELSE SubSeq(hits, 1, LargestOf(fitting))
Lines == FirstLines(KeepRelevant(Hits))

-----------------------------------------------------------------------------
(* Every request and every corpus, one record after the other.             *)

Init ==
  /\ corpus = <<>>
  /\ query \in Query

AddRecord(r) ==
  /\ Len(corpus) < MaxIds
  /\ corpus' = Append(corpus, r)
  /\ UNCHANGED query

Next == \E r \in Record : AddRecord(r)
Spec == Init /\ [][Next]_vars

-----------------------------------------------------------------------------
\* Lines that repeat nothing, within the budget, and none of another project as
\* long as one of the own project is missing that reaches the minimum.
IsFair(lines) ==
  LET shown == {lines[i] : i \in DOMAIN lines}
  IN /\ Cardinality(shown) = Len(lines)
     /\ lines # <<>> => Used(lines) <= query.budget
     /\ shown \subseteq Own \/ Relevant(Own) \subseteq shown

\* The block stays within its budget and repeats nothing, and a record of another
\* project takes no room that a record of the project could have had that is relevant
\* enough for the request.
OwnRecordsFirst == IsFair(Lines)
=============================================================================
