--------------------------- MODULE Specification ---------------------------
(***************************************************************************)
(* The specification question answering of a skill: one call that searches *)
(* the knowledge base by keyword and by vector in two separate sessions,   *)
(* fuses the two rankings, lets a model rerank the candidates under a      *)
(* timeout, and lets a model answer with citations.  Next to it the        *)
(* knowledge base is rebuilt from a new catalog, one transaction at a      *)
(* time, between any two steps of the call.                                *)
(*                                                                         *)
(* A chunk is [id, document, version, index, section, active, embedded]:   *)
(* active is what _metadata_clauses asks of its document (lifecycle, dates,*)
(* permission scope), embedded that its vector has the identity of the     *)
(* query's embedding.                                                      *)
(***************************************************************************)
EXTENDS Naturals, Sequences, FiniteSets, SequencesExt

CONSTANTS
    Catalogs,       \* the catalogs ingested one after the other, sets of chunks
    TopK,           \* results kept after fusion
    MinScore,       \* relevance below which a candidate is dropped
    Scores,         \* relevance scores the reranking model may give
    None

VARIABLES
    kb,     \* the catalog the knowledge base holds, 0 before the first ingestion
    rag     \* the call: see NoCall

ragVars == <<kb, rag>>

Chunks == UNION {Catalogs[n] : n \in DOMAIN Catalogs}

ASSUME SpecificationAssumption ==
    /\ Catalogs \in Seq(SUBSET Chunks)
    /\ \A n \in DOMAIN Catalogs : \A c, d \in Catalogs[n] : c.id = d.id => c = d
    /\ \A c \in Chunks : {c.id, c.document, c.index} \subseteq Nat
    /\ TopK \in Nat \ {0} /\ MinScore \in Nat /\ Scores \subseteq Nat
    /\ None \notin Chunks

\* since: the catalog when the call began; keyword: the keyword hits; kept: the
\* candidates, then the ones that passed the reranking; llm: the LLM Step of
\* the model call under way; step: the RAG Step; result: the answer.
NoCall == [at |-> "idle", since |-> 0, question |-> None, keyword |-> <<>>, candidates |-> <<>>,
           kept |-> <<>>, degraded |-> FALSE, step |-> "NONE", llm |-> "NONE", result |-> None]

Stored == IF kb = 0 THEN {} ELSE Catalogs[kb]

----------------------------------------------------------------------------
\* Fusion of two rankings (sequences of chunks, the best first).

Rank(hits, c) == SelectInSeq(hits, LAMBDA h : h.id = c.id)

\* The same chunk_id with another payload in the two channels is refused.
Conflict(keyword, vector) == \E c \in ToSet(keyword), d \in ToSet(vector) : c.id = d.id /\ c # d

\* The elements of a finite set in the order of a sort key.
Ordered(S, precedes(_, _)) ==
    CHOOSE q \in [1..Cardinality(S) -> S] :
        ToSet(q) = S /\ \A m, n \in DOMAIN q : m < n => precedes(q[m], q[n])

\* The lowest rank that is present, 0 without one.
MinimumOptional(ranks) == LET some == ranks \ {0}
                          IN  IF some = {} THEN 0 ELSE CHOOSE r \in some : \A q \in some : r <= q

\* RRF_RANK_CONSTANT = 60; the score is Numerator / Denominator.
Numerator(r) == (IF r.keyword_rank = 0 THEN 0 ELSE 60 + r.vector_rank)
                + (IF r.vector_rank = 0 THEN 0 ELSE 60 + r.keyword_rank)
Denominator(r) == (60 + r.keyword_rank) * (60 + r.vector_rank)

Before(a, b) ==
    LET x == Numerator(a) * Denominator(b)
        y == Numerator(b) * Denominator(a)
        key(r) == <<MinimumOptional({r.keyword_rank, r.vector_rank}), r.chunks[1].document,
                    r.chunks[1].index, r.chunks[1].id>>
        differ == {n \in 1..4 : key(a)[n] # key(b)[n]}
    IN  \/ x > y
        \/ x = y /\ differ # {}
              /\ LET n == CHOOSE m \in differ : \A k \in differ : m <= k IN key(a)[n] < key(b)[n]

\* _merge_result_group: the ranks of a group are the best of its members.
MergeResultGroup(group, keyword, vector) ==
    [chunks |-> group,
     keyword_rank |-> MinimumOptional({Rank(keyword, c) : c \in ToSet(group)}),
     vector_rank |-> MinimumOptional({Rank(vector, c) : c \in ToSet(group)})]

\* _merge_adjacent_fragments: d directly continues c.
Adjacent(c, d) == d.index = c.index + 1

\* The hits of the section of c in the order of their index.
InSection(hits, c) == {d \in hits : d.document = c.document /\ d.section = c.section}
FragmentBefore(c, d) == c.index < d.index \/ (c.index = d.index /\ c.id < d.id)
Fragments(hits, c) == Ordered(InSection(hits, c), FragmentBefore)

\* A sequence of fragments is cut wherever two neighbours are not adjacent.
Starts(q) == {n \in DOMAIN q : n = 1 \/ ~ Adjacent(q[n - 1], q[n])}
RunEnd(q, b) ==
    CHOOSE e \in b..Len(q) :
        /\ \A n \in (b + 1)..e : n \notin Starts(q)
        /\ e = Len(q) \/ e + 1 \in Starts(q)
Runs(q) == {SubSeq(q, b, RunEnd(q, b)) : b \in Starts(q)}

MergeAdjacentFragments(hits) == UNION {Runs(Fragments(hits, c)) : c \in hits}

FuseHybridResults(keyword, vector) ==
    LET groups == MergeAdjacentFragments(ToSet(keyword) \cup ToSet(vector))
        results == {MergeResultGroup(g, keyword, vector) : g \in groups}
        sorted == Ordered(results, Before)
    IN  SubSeq(sorted, 1, IF Len(sorted) < TopK THEN Len(sorted) ELSE TopK)

----------------------------------------------------------------------------
\* The call.

MutMetadataClausesKeepHistory(c) == TRUE

MetadataClauses(c) == c.active

\* What the two searches may return from the store as it is now.
KeywordHits(hits) == \A h \in ToSet(hits) : h \in Stored /\ MetadataClauses(h)
VectorHits(hits) == \A h \in ToSet(hits) : h \in Stored /\ h.embedded /\ MetadataClauses(h)

\* KnowledgeIndexCapabilityService: something is stored and all of it has the
\* expected index identity.
Ready == Stored # {} /\ \A c \in Stored : c.embedded

\* How a Step ends in the table: as intended, or not at all, when the save of
\* its end fails in turn.  "LEFT" is such a Step: RUNNING in the table, and no
\* code will end it.
Ends(intended) == {intended, "LEFT"}

\* The call raises: the RAG Step is marked failed, with llm the LLM Step.
FailsWith(llm, code) ==
    \E step \in Ends("FAILED") :
        rag' = [rag EXCEPT !.at = "failed", !.step = step, !.llm = llm, !.result = code]

Fails(code) == FailsWith(rag.llm, code)

\* The call has an answer and the RAG Step is marked succeeded.  If that is
\* not saved the call raises, and the answer is lost.
Answers(llm, answer) ==
    \/ rag' = [rag EXCEPT !.at = "done", !.step = "SUCCEEDED", !.llm = llm, !.result = answer]
    \/ rag' = [rag EXCEPT !.at = "failed", !.step = "LEFT", !.llm = llm,
                          !.result = "SPECIFICATION_END_NOT_SAVED"]

\* The RAG Step opens before the gates; a catalog rebuilt later is not seen.
Ask(question) ==
    /\ rag.at = "idle"
    /\ rag' = [NoCall EXCEPT !.at = "ready", !.since = kb, !.question = question, !.step = "RUNNING"]
    /\ UNCHANGED kb

EnsureReady ==
    /\ rag.at = "ready"
    /\ IF Ready THEN rag' = [rag EXCEPT !.at = "keyword"] ELSE Fails("KNOWLEDGE_INDEX_NOT_READY")
    /\ UNCHANGED kb

SearchKeywords(hits) ==
    /\ rag.at = "keyword" /\ KeywordHits(hits)
    /\ rag' = [rag EXCEPT !.at = "vector", !.keyword = hits]
    /\ UNCHANGED kb

\* The embedding request lies between the two searches; fusion follows the
\* second one directly.  No candidate, no reranking call.
SearchVectors(hits) ==
    /\ rag.at = "vector" /\ VectorHits(hits)
    /\ IF Conflict(rag.keyword, hits) THEN Fails("SPECIFICATION_EXECUTION_ERROR")
       ELSE LET found == FuseHybridResults(rag.keyword, hits)
            IN  rag' = [rag EXCEPT !.at = IF found = <<>> THEN "relevance" ELSE "rerank",
                                   !.candidates = found]
    /\ UNCHANGED kb

\* A search, the embedding provider or the event stream fails.
SearchFails ==
    /\ rag.at \in {"keyword", "vector"}
    /\ Fails(IF rag.at = "keyword" THEN "KEYWORD_SEARCH_FAILED" ELSE "VECTOR_SEARCH_FAILED")
    /\ UNCHANGED kb

\* Start the LLM Step of a model call: before the request, in a transaction
\* of its own.
StartModel ==
    /\ rag.at \in {"rerank", "answer"} /\ rag.llm = "NONE"
    /\ rag' = [rag EXCEPT !.llm = "RUNNING"]
    /\ UNCHANGED kb

Retained(scores) == {n \in DOMAIN scores : scores[n] >= MinScore}

\* The model answered and its LLM Step is saved as SUCCEEDED; the timeout is
\* still running.
RerankSaved ==
    /\ rag.at = "rerank" /\ rag.llm = "RUNNING"
    /\ rag' = [rag EXCEPT !.llm = "SUCCEEDED"]
    /\ UNCHANGED kb

\* Every candidate is scored, the low ones are dropped, the others ordered by
\* score and, within a score, by their fused rank.
Rerank(scores) ==
    /\ rag.at = "rerank" /\ rag.llm = "SUCCEEDED"
    /\ LET order == Ordered(Retained(scores),
                        LAMBDA m, n : scores[m] > scores[n] \/ (scores[m] = scores[n] /\ m < n))
       IN  rag' = [rag EXCEPT !.at = "relevance", !.llm = "NONE",
                              !.kept = [n \in DOMAIN order |-> rag.candidates[order[n]]]]
    /\ UNCHANGED kb

\* A score list that does not cover the candidates; or, before that, an error
\* of the model or of the store that keeps the LLM Step, at its start or its end.
RerankFails ==
    /\ rag.at = "rerank"
    /\ \/ rag.llm = "SUCCEEDED" /\ Fails("RERANK_RESPONSE_VALIDATION_ERROR")
       \/ rag.llm = "NONE" /\ Fails("RERANK_EXECUTION_ERROR")
       \/ rag.llm = "RUNNING" /\ \E llm \in Ends("FAILED") : FailsWith(llm, "RERANK_EXECUTION_ERROR")
    /\ UNCHANGED kb

\* The timeout cancels the call wherever it is.  The shielded cleanup closes a
\* RUNNING LLM Step and the call goes on degraded; without one to close, or
\* when that is not saved, the cleanup raises and the timeout becomes an error.
RerankTimeout ==
    /\ rag.at = "rerank"
    /\ \/ /\ rag.llm = "RUNNING"
          /\ rag' = [rag EXCEPT !.at = "relevance", !.llm = "NONE", !.degraded = TRUE,
                                !.kept = rag.candidates]
       \/ rag.llm = "RUNNING" /\ FailsWith("LEFT", "RERANK_EXECUTION_ERROR")
       \/ rag.llm \in {"NONE", "SUCCEEDED"} /\ Fails("RERANK_EXECUTION_ERROR")
    /\ UNCHANGED kb

SafeResult(status) == [question |-> rag.question, status |-> status, citations |-> <<>>]

\* RETRIEVAL_COMPLETED is published, which fails on a lost stream; then
\* check_relevance and, for what it refuses, safe_answer.
CheckRelevance ==
    /\ rag.at = "relevance"
    /\ \/ Fails("SPECIFICATION_EXECUTION_ERROR")
       \/ /\ rag.kept # <<>> /\ ~ rag.degraded
          /\ rag' = [rag EXCEPT !.at = "answer"]
       \/ /\ rag.kept = <<>> \/ rag.degraded
          /\ Answers(rag.llm, SafeResult(IF rag.degraded THEN "RERANK_UNAVAILABLE"
                                         ELSE "INSUFFICIENT_CONTEXT"))
    /\ UNCHANGED kb

\* build_citations: a citation is known by its first chunk and names the
\* version of that one.
BuildCitation(r) == [chunk_id |-> r.chunks[1].id, version |-> r.chunks[1].version, chunks |-> r.chunks]
BuildCitations == [n \in DOMAIN rag.kept |-> BuildCitation(rag.kept[n])]

\* _select_citations: the answer names distinct citations that were offered,
\* at least one (SpecificationAnswerDraft).
SelectCitations(ids) ==
    /\ ids # <<>> /\ IsInjective(ids)
    /\ \A i \in ToSet(ids) : \E c \in ToSet(BuildCitations) : c.chunk_id = i

GenerateAnswer(ids) ==
    /\ rag.at = "answer" /\ rag.llm = "RUNNING"
    /\ LET cited == [n \in DOMAIN ids |-> CHOOSE c \in ToSet(BuildCitations) : c.chunk_id = ids[n]]
           answer == IF SelectCitations(ids)
                     THEN [question |-> rag.question, status |-> "ANSWERED", citations |-> cited]
                     ELSE SafeResult("GENERATION_FAILED")
       IN  Answers("SUCCEEDED", answer)
    /\ UNCHANGED kb

\* An error of the answering model is an answer, not a failure of the call,
\* and so is an LLM Step whose start or end could not be saved.
GenerateFails ==
    /\ rag.at = "answer"
    /\ \E llm \in IF rag.llm = "NONE" THEN {"NONE"} ELSE Ends("FAILED") :
          Answers(llm, SafeResult("GENERATION_FAILED"))
    /\ UNCHANGED kb

\* ingest_catalog: prune and reindex in one transaction, after all embeddings.
IngestCatalog ==
    /\ kb < Len(Catalogs)
    /\ kb' = kb + 1
    /\ UNCHANGED rag

Return == rag' = NoCall /\ UNCHANGED kb

----------------------------------------------------------------------------
\* What makes the properties of a call inductive.

\* The chunk was current in one of the catalogs a to b; in one since the call began.
Between(a, b, c) == \E e \in a..b : e # 0 /\ c \in Catalogs[e] /\ c.active
Current(c) == Between(rag.since, kb, c)

CallShape ==
    rag = [at |-> rag.at, since |-> rag.since, question |-> rag.question, keyword |-> rag.keyword,
           candidates |-> rag.candidates, kept |-> rag.kept, degraded |-> rag.degraded,
           step |-> rag.step, llm |-> rag.llm, result |-> rag.result]

\* The keyword hits come from one store, where an id names one chunk.
KeywordsKnown ==
    /\ rag.keyword \in Seq(Chunks)
    /\ \A c \in ToSet(rag.keyword) : Current(c)
    /\ \A c, d \in ToSet(rag.keyword) : c.id = d.id => c = d

Grounded(results) ==
    \A n \in DOMAIN results : \A k \in DOMAIN results[n].chunks : Current(results[n].chunks[k])

\* Which Steps of the call may be open: a RUNNING one while it runs, a LEFT one
\* after a failure or, the LLM Step, under an answer that could not be made.
StepsOpen ==
    /\ rag.llm = "RUNNING" => rag.at \in {"rerank", "answer"}
    /\ rag.llm = "LEFT" => \/ rag.at = "failed"
                           \/ rag.at = "done" /\ rag.result = SafeResult("GENERATION_FAILED")
    /\ rag.step = "RUNNING" => rag.at \notin {"done", "failed"}
    /\ rag.at = "done" => rag.step = "SUCCEEDED"

CallIInv ==
    /\ kb \in 0..Len(Catalogs) /\ rag.since \in 0..kb /\ CallShape
    /\ KeywordsKnown /\ Grounded(rag.candidates) /\ Grounded(rag.kept)
    /\ Len(rag.candidates) \in Nat /\ DOMAIN rag.candidates = 1..Len(rag.candidates)
    /\ rag.degraded => rag.at \notin {"ready", "keyword", "vector", "rerank", "answer"}
    /\ StepsOpen
=============================================================================
