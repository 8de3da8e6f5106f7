------------------------------- MODULE Search -------------------------------
(***************************************************************************)
(* The requests that search the code for the places a change of law        *)
(* touches: POST /changes/{id}/map, which stores them as mappings, and the *)
(* gate of POST /changes/{id}/apply, which searches again and asks the     *)
(* automation policy whether a draft may be written. The indexes they read *)
(* are built, cut off and outdated by CodeIndex at the same time; people   *)
(* decide on the mappings in between. There is one article and one change. *)
(***************************************************************************)
EXTENDS CodeIndex

CONSTANTS
    Symbols,      \* Symbols[f][i + 1]: the symbol of chunk i of file f
    Similarity,   \* Similarity[f]: how close the chunks of f are to the query
    Codes,        \* column codes the query names: [symbol, score, files]
    Values,       \* constants the query names, likewise
    QueryTypes,   \* types the change is classified as
    Decisions,    \* what people decide: [state, reason]
    Reranks,      \* settings.verified_reranking_enabled
    TopK          \* k of map; apply asks for 5

(* Scores are in hundredths; a code is named with the files it is in.       *)
Terms == [symbol : STRING, score : 0..100, files : Seq(ToSet(Files))]

ASSUME SearchAssumption ==
    /\ Similarity \in [ToSet(Files) -> 0..100]
    /\ Codes \in Seq(Terms) /\ Values \in Seq(Terms)
    /\ Reranks \in BOOLEAN
    /\ TopK \in Nat \ {0}

VARIABLES
    rows,       \* the mappings of the article: place -> [type, history]
    harvested,  \* the cache files of the dictionary and of the constants
    request     \* the request that is served

searchVars == <<rows, harvested, request>>
vars == <<indexVars, left, searchVars>>

Article == "article"
NoRequest == [phase |-> "none", kind |-> "none", type |-> "", found |-> <<>>,
              contexts |-> <<>>, answer |-> <<>>, existing |-> {}, decision |-> "none"]
NotHarvested == {"nothing yet"}
Caches == {"term_dictionary", "constant_match"}

Init == /\ IndexInit
        /\ rows = <<>>
        /\ harvested = [n \in Caches |-> NotHarvested]
        /\ request = NoRequest

TypeOK ==
    /\ IndexTypeOK
    /\ \A p \in DOMAIN rows : p.path \in AllFiles
    /\ request.phase \in {"none", "answered", "gated"}
    /\ \A i \in DOMAIN request.answer :
          /\ request.answer[i].score \in Nat /\ request.answer[i].score <= 10000
          /\ i > 1 => request.answer[i - 1].score >= request.answer[i].score
    /\ \A i, j \in DOMAIN request.answer :
          i # j => DedupKey(request.answer[i]) # DedupKey(request.answer[j])

----------------------------------------------------------------------------
(* The providers.                                                          *)

Place(f, symbol) == [path |-> f, symbol |-> symbol]
PlaceOf(chunk) == Place(chunk[1], Symbols[chunk[1]][chunk[2] + 1])

(* The k chunks that are closest, whatever has become of their files.      *)
RagHits(k) ==
    LET Closer(c, d) ==
            \/ Similarity[c[1]] > Similarity[d[1]]
            \/ Similarity[c[1]] = Similarity[d[1]] /\ c[2] < d[2]
            \/ Similarity[c[1]] = Similarity[d[1]] /\ c[2] = d[2] /\ ListedBefore(c[1], d[1])
        near == FinalTopK(Arrange(stored, {p \in stored \X stored : Closer(p[1], p[2])}), k)
    IN  [i \in DOMAIN near |-> Candidate(PlaceOf(near[i]), "", "rag", Similarity[near[i][1]], FALSE)]

(* The first three files of each code, of those the cache file knows.      *)
TermHits(terms, source, known) ==
    LET File(p) == terms[p[1]].files[p[2]]
        shown == {p \in UNION {{t} \X (DOMAIN terms[t].files) : t \in DOMAIN terms} :
                     /\ File(p) \in known
                     /\ Cardinality({j \in 1..(p[2] - 1) : File(<<p[1], j>>) \in known}) < 3}
        order == Arrange(shown, {q \in shown \X shown :
                                    \/ q[1][1] < q[2][1]
                                    \/ q[1][1] = q[2][1] /\ q[1][2] < q[2][2]})
    IN  [i \in DOMAIN order |->
            LET term == terms[order[i][1]]
            IN  Candidate(Place(File(order[i]), term.symbol), "", source, term.score, FALSE)]

(* Mutant: an outdated mapping keeps its score.                            *)
VerifiedHitsAll(valid) ==
    LET places == SetToSeq({p \in DOMAIN rows : /\ rows[p].history # <<>>
                                                /\ Last(rows[p].history).state = "verified"})
    IN  [i \in DOMAIN places |->
            Candidate(places[i], "", "verified_mapping", 100, places[i] \notin valid)]

(* The mappings that are verified; one whose file cannot be read counts    *)
(* nothing and is stale.                                                   *)
VerifiedHits(valid) ==
    LET places == SetToSeq({p \in DOMAIN rows : /\ rows[p].history # <<>>
                                                /\ Last(rows[p].history).state = "verified"})
    IN  [i \in DOMAIN places |->
            Candidate(places[i], "", "verified_mapping",
                      IF places[i] \in valid THEN 100 ELSE 0, places[i] \notin valid)]

BuildContext(row) ==
    LET Has(reason) == \E i \in DOMAIN row.history :
                          row.history[i] = [state |-> "verified", reason |-> reason]
    IN  [article |-> Article, type |-> row.type, state |-> Last(row.history).state,
         rejections |-> Cardinality({i \in DOMAIN row.history :
                                        row.history[i].state = "rejected"}),
         golden |-> Has("golden_test_confirmed"),
         historical |-> Has("matched_historical_change"),
         legacy |-> Has("legacy verified backfill")]

ContextsFor ==
    [p \in {q \in DOMAIN rows : rows[q].history # <<>>} |-> <<BuildContext(rows[p])>>]

(* term_dict.load_locations and load_inventory: the cache file if there is *)
(* one, else the repository as it is now, kept if it can be written.       *)
Known(name) == IF harvested[name] = NotHarvested THEN Present ELSE harvested[name]
Harvest(keep) ==
    harvested' = [n \in Caches |-> IF n \in keep THEN Known(n) ELSE harvested[n]]

----------------------------------------------------------------------------
(* Requests.                                                               *)

(* What can go wrong in a search: providers that raise, a file that cannot *)
(* be read, the lookup of the decisions, a cache file that is not written. *)
(* When every provider fails, map fails, and apply goes on with nothing.   *)
Smooth == [failed |-> {}, unreadable |-> {}, reranked |-> Reranks, kept |-> Caches]
Troubles ==
    {[Smooth EXCEPT !.failed = S] : S \in {{s} : s \in Sources} \cup {Sources}}
    \cup {[Smooth EXCEPT !.unreadable = {p.path}] : p \in DOMAIN rows}
    \cup {[Smooth EXCEPT !.reranked = FALSE], [Smooth EXCEPT !.kept = {}]}

Retrieve(kind, type, how) ==
    LET k == IF kind = "map" THEN TopK ELSE 5
        valid == {p \in DOMAIN rows : repo[p.path] > 0 /\ p.path \notin how.unreadable}
        Hits(s) == CASE s \in how.failed -> <<>>
                     [] s = "verified_mapping" -> VerifiedHits(valid)
                     [] s = "rag" -> RagHits(k)
                     [] s = "term_dictionary" -> TermHits(Codes, s, Known(s))
                     [] OTHER -> TermHits(Values, s, Known(s))
        order == <<"verified_mapping", "rag", "term_dictionary", "constant_match">>
        found == Hits(order[1]) \o Hits(order[2]) \o Hits(order[3]) \o Hits(order[4])
        query == [article |-> Article, type |-> type]
    IN  /\ request.phase = "none"
        /\ request' = [NoRequest EXCEPT
              !.phase = "answered", !.kind = kind, !.type = type, !.found = found,
              !.contexts = IF how.reranked THEN ContextsFor ELSE <<>>,
              !.answer = Ranked(found, ContextsFor, query, how.reranked, k)]
        /\ Harvest(how.kept \ how.failed)
        /\ UNCHANGED <<indexVars, rows>>

Ask(kind, type) ==
    \/ Pay("requests") /\ Retrieve(kind, type, Smooth)
    \/ /\ left.requests > 0 /\ left.faults > 0
       /\ left' = [left EXCEPT !.requests = @ - 1, !.faults = @ - 1]
       /\ \E how \in Troubles : Retrieve(kind, type, how)

(* map stores a row for every place of the answer that has none yet.       *)
SaveRows ==
    /\ request.phase = "answered" /\ request.kind = "map"
    /\ LET new == {DedupKey(c) : c \in ToSet(request.answer)} \ DOMAIN rows
       IN  rows' = [p \in DOMAIN rows \cup new |->
                      IF p \in new THEN [type |-> request.type, history |-> <<>>] ELSE rows[p]]
    /\ request' = NoRequest
    /\ UNCHANGED <<indexVars, left, harvested>>

(* apply lists the files once the search is over, and asks the policy.     *)
Gate(dbMatch, type, confident, commit) ==
    /\ request.phase = "answered" /\ request.kind = "apply"
    /\ LET reasons == BlockReasons(type, confident, request.answer, Present, commit)
       IN  request' = [request EXCEPT !.phase = "gated", !.existing = Present,
                                      !.decision = Propose(dbMatch, type, reasons)]
    /\ UNCHANGED <<indexVars, left, rows, harvested>>

AskPolicy ==
    \E dbMatch, confident, commit \in BOOLEAN, type \in QueryTypes :
        Gate(dbMatch, type, confident, commit)

Answer ==
    /\ request.phase = "gated"
    /\ request' = NoRequest
    /\ UNCHANGED <<indexVars, left, rows, harvested>>

(* A person, the backfill or the check for stale mappings decides.         *)
Decide(p, d) ==
    /\ Pay("decisions")
    /\ rows' = [rows EXCEPT ![p].history = Append(@, d)]
    /\ UNCHANGED <<indexVars, harvested, request>>

Next ==
    \/ IndexNext /\ UNCHANGED searchVars
    \/ \E kind \in {"map", "apply"}, type \in QueryTypes : Ask(kind, type)
    \/ SaveRows \/ AskPolicy \/ Answer
    \/ \E p \in DOMAIN rows, d \in Decisions : Decide(p, d)

Spec == Init /\ [][Next]_vars

----------------------------------------------------------------------------
(* Properties.                                                             *)

(* A draft is allowed only where the search has found live code: a         *)
(* provider that does not speak of an outdated mapping has found the first *)
(* place of the answer with a high score, and every file of the answer was *)
(* there when the policy asked, whatever the indexes still hold.           *)
DraftRestsOnLiveCode ==
    request.phase = "gated" /\ request.decision = "draft_allowed" =>
        /\ \E c \in ToSet(request.found) : /\ DedupKey(c) = DedupKey(request.answer[1])
                                           /\ ~c.stale
                                           /\ c.score >= 100 * MinRetrievalScore
        /\ {c.path : c \in ToSet(request.answer)} \subseteq request.existing

(* The evidence for a place, of the providers that answered.               *)
EvidenceFor(p) == Evidence({c \in ToSet(request.found) : DedupKey(c) = p})

(* The decisions count before the answer is cut: a live place that is      *)
(* verified for this or a compatible type of change stands above every     *)
(* place nobody has decided on and whose evidence is not better by more    *)
(* than the verification weighs, in the short answer of map too.           *)
VerifiedRanksFirst ==
    request.phase = "answered" =>
        \A p \in DOMAIN request.contexts, j \in DOMAIN request.answer :
            LET context == request.contexts[p][1]
                query == [article |-> Article, type |-> request.type]
                boost == 100 * RerankDelta(<<context>>, query, FALSE)
                c == request.answer[j]
            IN  /\ context.state = "verified" /\ boost > 0
                /\ \E d \in ToSet(request.found) : DedupKey(d) = p /\ ~d.stale
                /\ DedupKey(c) \notin DOMAIN request.contexts
                /\ Worth(c.evidence) < Worth(EvidenceFor(p)) + boost
                => \E i \in 1..(j - 1) : DedupKey(request.answer[i]) = p
=============================================================================
