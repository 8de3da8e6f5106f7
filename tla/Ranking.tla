------------------------------ MODULE Ranking ------------------------------
(***************************************************************************)
(* How the mapping search ranks places in the code: the providers' hits    *)
(* are merged by place, what people decided about a place before moves it  *)
(* up or down, and the automation policy reads the result                  *)
(* (app/retrieval, app/domain/mappings/reranking.py, app/policy).          *)
(*                                                                         *)
(* Scores are integers: a provider's score and a weight in hundredths, the *)
(* score of a candidate in ten-thousandths. A candidate carries no line    *)
(* number (no provider gives one), so that its key is its path and symbol. *)
(***************************************************************************)
EXTENDS Integers, Sequences, FiniteSets, SequencesExt

CONSTANT Files      \* the paths of the repository, a sequence in sorted order

ASSUME FilesAssumption == Files \in Seq(ToSet(Files))

Sources == {"verified_mapping", "constant_match", "term_dictionary", "rag"}
Weight == [verified_mapping |-> 35, constant_match |-> 25, term_dictionary |-> 20, rag |-> 15]

Clamp(low, high, n) == IF n < low THEN low ELSE IF n > high THEN high ELSE n
Largest(S) == CHOOSE n \in S : \A k \in S : k <= n
Smallest(S) == CHOOSE n \in S : \A k \in S : n <= k

(* The members of S in their order, given as the pairs of a smaller and a  *)
(* greater one.                                                            *)
Arrange(S, less) ==
    [k \in 1..Cardinality(S) |->
        CHOOSE x \in S : Cardinality({y \in S : <<y, x>> \in less}) = k - 1]

----------------------------------------------------------------------------
(* Candidates and their merge.                                             *)

Candidate(place, hash, source, score, stale) ==
    [path |-> place.path, symbol |-> place.symbol, hash |-> hash,
     evidence |-> [s \in {source} |-> score], score |-> 100 * score, stale |-> stale]

DedupKey(c) == [path |-> c.path, symbol |-> c.symbol]

(* The group of a candidate: that of its place, unless the place was first *)
(* seen with another content.                                              *)
GroupKey(cands, i) ==
    LET key == DedupKey(cands[i])
        first == cands[Smallest({j \in DOMAIN cands : DedupKey(cands[j]) = key})]
        clash == first.hash # "" /\ cands[i].hash \notin {"", first.hash}
    IN  <<key, IF clash THEN cands[i].hash ELSE "">>

(* Mutant: nothing is merged.                                              *)
GroupAlone(cands, i) == {i}

Group(cands, i) == {j \in DOMAIN cands : GroupKey(cands, j) = GroupKey(cands, i)}

(* Of each provider the best it says of a place.                           *)
Evidence(members) ==
    [s \in UNION {DOMAIN c.evidence : c \in members} |->
        Largest({c.evidence[s] : c \in {d \in members : s \in DOMAIN d.evidence}})]

Worth(evidence) ==
    LET Part(s) == IF s \in DOMAIN evidence THEN Weight[s] * evidence[s] ELSE 0
        n == Cardinality(DOMAIN evidence)
    IN  Part("verified_mapping") + Part("constant_match") + Part("term_dictionary")
        + Part("rag") + (IF n >= 3 THEN 1000 ELSE IF n >= 2 THEN 500 ELSE 0)

StalePenalty == 5000

(* i is the first candidate of its group.                                  *)
MergeGroup(cands, i) ==
    LET members == {cands[j] : j \in Group(cands, i)}
        stale == \A c \in members : c.stale
    IN  [path |-> cands[i].path, symbol |-> cands[i].symbol, hash |-> cands[i].hash,
         evidence |-> Evidence(members),
         score |-> Clamp(0, 10000, Worth(Evidence(members))
                                   - (IF stale THEN StalePenalty ELSE 0)),
         stale |-> stale]

(* The best first; of equal scores the path that sorts first, then the     *)
(* order they came in, which is that of the numbers cands is given by.     *)
PathOrder(path) == CHOOSE k \in DOMAIN Files : Files[k] = path
Better(cands) ==
    {p \in (DOMAIN cands) \X (DOMAIN cands) :
        LET c == cands[p[1]]
            d == cands[p[2]]
        IN  \/ c.score > d.score
            \/ c.score = d.score /\ PathOrder(c.path) < PathOrder(d.path)
            \/ c.score = d.score /\ c.path = d.path /\ p[1] < p[2]}
Ordered(cands) ==
    LET order == Arrange(DOMAIN cands, Better(cands))
    IN  [k \in DOMAIN order |-> cands[order[k]]]

Merge(cands) ==
    LET first == {i \in DOMAIN cands : \A j \in Group(cands, i) : i <= j}
    IN  Ordered([i \in first |-> MergeGroup(cands, i)])

----------------------------------------------------------------------------
(* What was decided about a place before.                                  *)

CompatibleTypes == {{"value_change", "rate_change", "table_change"},
                    {"condition_change", "new_field"}}

(* Types that are no ChangeType (the old words rate, limit, date...) match *)
(* only themselves, and no type matches nothing.                           *)
ClassifyReuse(query, context) ==
    IF \/ query.article # context.article
       \/ "" \in {query.type, context.type}
    THEN "unrelated"
    ELSE IF query.type = context.type THEN "exact"
    ELSE IF \E group \in CompatibleTypes : {query.type, context.type} \subseteq group
    THEN "compatible" ELSE "unrelated"

RerankDelta(contexts, query, staleMerged) ==
    LET Of(state, reuses) == {i \in DOMAIN contexts :
                                 /\ contexts[i].state = state
                                 /\ ClassifyReuse(query, contexts[i]) \in reuses}
        related == {"exact", "compatible"}
        verified == Of("verified", related)
        rejected == Of("rejected", {"exact"})
        boost == 35 * Cardinality(Of("verified", {"exact"}))
                 + 20 * Cardinality(Of("verified", {"compatible"}))
                 + 5 * Cardinality({i \in verified : contexts[i].golden})
                 + 5 * Cardinality({i \in verified : contexts[i].historical})
                 - 15 * Cardinality({i \in verified : contexts[i].legacy})
        repeated == \E i \in rejected : contexts[i].rejections >= 2
        penalty == -30 * Cardinality(rejected)
    IN  Clamp(-50, 45,
          boost + (IF repeated /\ penalty > -50 THEN -50 ELSE penalty)
          - (IF Of("stale", related) # {} /\ ~staleMerged THEN 50 ELSE 0))

(* contexts gives, for the key of a place, the decisions on it.            *)
Reranked(c, contexts, query) ==
    IF DedupKey(c) \notin DOMAIN contexts THEN c
    ELSE [c EXCEPT !.score = Clamp(0, 10000,
                @ + 100 * RerankDelta(contexts[DedupKey(c)], query, c.stale))]

Rerank(merged, contexts, query) ==
    Ordered([i \in DOMAIN merged |-> Reranked(merged[i], contexts, query)])

FinalTopK(cands, k) == SubSeq(cands, 1, IF Len(cands) < k THEN Len(cands) ELSE k)

(* Mutant: the cut comes before the decisions are looked at.               *)
RankedAfterCut(found, contexts, query, reranks, k) ==
    LET cut == FinalTopK(Merge(found), k)
    IN  IF reranks THEN Rerank(cut, contexts, query) ELSE cut

(* The whole ranking: merge, rerank, and only then the cut.                *)
Ranked(found, contexts, query, reranks, k) ==
    LET merged == Merge(found)
    IN  FinalTopK(IF reranks THEN Rerank(merged, contexts, query) ELSE merged, k)

----------------------------------------------------------------------------
(* The automation policy.                                                  *)

Draftable == {"value_change", "rate_change", "date_change"}
AnalysisOnly == {"structural_change", "no_code_impact"}
MinRetrievalScore == 80
MinIndependentSources == 2

(* What speaks against a draft. candidates is what the search answered,    *)
(* existing the files of the repository.                                   *)
BlockReasons(type, confident, candidates, existing, commit) ==
    LET top == candidates[1]
        verified == "verified_mapping" \in DOMAIN top.evidence /\ ~top.stale
    IN  (IF type \in Draftable THEN {} ELSE {"change_type_not_draftable"})
        \cup (IF confident THEN {} ELSE {"classification_confidence_low"})
        \cup (IF candidates = <<>> THEN {"retrieval_candidate_missing"} ELSE
                (IF \E s \in DOMAIN top.evidence : top.evidence[s] >= MinRetrievalScore
                 THEN {} ELSE {"retrieval_score_low"})
                \cup (IF Cardinality(DOMAIN top.evidence) >= MinIndependentSources \/ verified
                      THEN {} ELSE {"retrieval_evidence_insufficient"})
                \cup (IF \A c \in ToSet(candidates) : c.stale
                      THEN {"stale_only_evidence"} ELSE {})
                \cup (IF {c.path : c \in ToSet(candidates)} \subseteq existing
                      THEN {} ELSE {"candidate_file_missing"}))
        \cup (IF commit THEN {} ELSE {"repository_commit_missing"})

PolicyDecision(type, reasons) ==
    IF reasons = {} THEN "draft_allowed"
    ELSE IF type \in AnalysisOnly THEN "analysis_only" ELSE "manual_review_required"

(* What propose answers; a change that a database item matches never gets  *)
(* as far as the policy.                                                   *)
Propose(dbMatch, type, reasons) ==
    IF dbMatch THEN "db_update_guidance" ELSE PolicyDecision(type, reasons)
=============================================================================
