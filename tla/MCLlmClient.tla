---------------------------- MODULE MCLlmClient -----------------------------
\* Model-checking instance: two registries, and two configurations the
\* gateway must refuse; and the reranking of up to three documents.
EXTENDS LlmClient, Rerank, TLC

CONSTANTS r1, r2, x, y

Declares(id, caps) == [id |-> id, caps |-> caps]
Serves(kind, models) == [kind |-> kind, models |-> models]

Llama == Serves("openai_compat", <<Declares("llm", {"chat", "embeddings"})>>)
Tei == Serves("tei", <<Declares("bge", {"embeddings"})>>)
Claude == Serves("anthropic", <<Declares("llm", {"chat"})>>)
Reranker == Serves("tei_rerank", <<Declares("bge", {"rerank"})>>)

MCConfigs == {<<Llama, Tei>>, <<Claude, Reranker>>,
              <<Llama, Serves("tei", <<Declares("llm", {"embeddings"})>>)>>,
              <<Serves("openai", <<Declares("llm", {"chat"})>>)>>}
MCModels == {"llm", "bge"}
MCTenants == {"t1", "t2"}
MCAliases == "basic-infra" :> ("default-embed" :> "bge")
             @@ "openai" :> ("default-embed" :> "bge") @@ "anthropic" :> <<>>
MCAllowed == "t1" :> {"*"} @@ "t2" :> {"bge"}
TwoRequests == {r1, r2}
TwoTexts == {x, y}

\* Up to three documents, with scores below, on and above the scale.
Scored == UNION {[1..n -> -1..3] : n \in 0..3}
Answers == {[n \in DOMAIN s |-> [index |-> n, score |-> s[n]]] : s \in Scored}

ASSUME RerankBestOnTop ==
    \A items \in Answers, topN \in {NoTopN} \union 1..3 : BestOnTop(items, topN)
ASSUME RerankKeepsOrder == \A items \in Answers : BackendOrderKept(items)

Symmetry == Permutations(TwoRequests) \union Permutations(TwoTexts)
=============================================================================
