------------------------------- MODULE Rerank -------------------------------
(***************************************************************************)
(* What the gateway makes of the scores a rerank backend answers with      *)
(* (llm/gateway/app/backends/tei_rerank.py).  An item is a document's      *)
(* index and its score; scores are integers on a scale that ends at One.   *)
(***************************************************************************)
EXTENDS Integers, Sequences, FiniteSets, FiniteSetsExt

CONSTANTS One,    \* the score 1.0
          NoTopN  \* top_n is not given

ASSUME ScaleAssumption == One \in Nat /\ NoTopN \notin Nat

Clamp(score) == Max({0, Min({One, score})})

\* list.sort by score, descending: items of one score keep their order.
Sorted(items) ==
    LET before(i, j) == \/ items[i].score > items[j].score
                        \/ items[i].score = items[j].score /\ i < j
        place(j) == 1 + Cardinality({i \in DOMAIN items : before(i, j)})
    IN  [n \in DOMAIN items |-> items[CHOOSE j \in DOMAIN items : place(j) = n]]

\* TeiRerankAdapter.rerank: the items clamped, sorted and cut to top_n.
Reranked(items, topN) ==
    LET clamped == [n \in DOMAIN items |-> [items[n] EXCEPT !.score = Clamp(@)]]
        results == Sorted(clamped)
    IN  IF topN = NoTopN THEN results
        ELSE SubSeq(results, 1, Min({topN, Len(results)}))

-----------------------------------------------------------------------------
Indices(s) == {s[n].index : n \in DOMAIN s}
Descending(s) == \A m, n \in DOMAIN s : m < n => s[m].score >= s[n].score

\* The results come best first, each document at most once, and no document
\* that is left out scores higher than one that is not.
BestOnTop(items, topN) ==
    LET out == Reranked(items, topN) IN
    /\ Descending(out)
    /\ Cardinality(Indices(out)) = Len(out)
    /\ \A i \in DOMAIN items, n \in DOMAIN out :
          items[i].index \notin Indices(out) => Clamp(items[i].score) <= out[n].score

\* An order the backend has established survives the clamping, which makes
\* scores equal that were not: because the sort is stable.
BackendOrderKept(items) ==
    Descending(items) =>
        LET out == Reranked(items, NoTopN) IN
        \A n \in DOMAIN items : out[n].index = items[n].index
=============================================================================
