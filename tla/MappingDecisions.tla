-------------------------- MODULE MappingDecisions --------------------------
(***************************************************************************)
(* The curated mapping of one article to code locations: the rows that     *)
(* POST /changes/{id}/map adds, the append-only history of decisions on    *)
(* them (ADR-008), the cached column mapping.verified, the backfill that   *)
(* every start of the server runs, and the rows that apply would use.      *)
(*                                                                         *)
(* A decision is computed by its thread from what it has read: the row,    *)
(* the wall clock and the history are read one after the other, and the    *)
(* event and the cache are committed together.  Nothing is locked.  The    *)
(* session writes mapping.verified only when the computed value differs    *)
(* from the one it loaded.                                                 *)
(***************************************************************************)
EXTENDS Naturals, Sequences, FiniteSets

CONSTANTS
    Mappings,        \* mapping ids that may be handed out
    Locations,       \* (path, symbol) places the retrieval can return
    Confident,       \* those whose score reaches apply's min_confidence
    Requests,        \* threads of the pool
    None,            \* "no value"
    Serial,          \* TRUE: the one operator waits for each answer
    MayCrash,        \* TRUE: the server may stop between two steps
    ClockStepsBack,  \* TRUE: the wall clock may be set back
    MaxClock,        \* bound: the last instant
    MaxDecisions     \* bound: decisions on one mapping

Decisions == {"verified", "rejected", "stale", "revoked"}

Instants == 0..MaxClock

ASSUME DecisionAssumption ==
    /\ Confident \subseteq Locations
    /\ Serial \in BOOLEAN
    /\ MayCrash \in BOOLEAN
    /\ ClockStepsBack \in BOOLEAN
    /\ MaxClock \in Nat
    /\ MaxDecisions \in Nat
    /\ None \notin Mappings \union Locations \union Decisions

VARIABLES
    place,        \* where each mapping row points; None: there is no such row
    verified,     \* mapping.verified, the cache
    history,      \* mapping_decision rows, in id order
    clock,        \* the wall clock
    up,           \* the server runs
    work          \* what each thread is doing, and what it has read

vars == <<place, verified, history, clock, up, work>>

Events == [decision : Decisions, at : Instants, actor : {"owner", "system"}]

Idle == [phase |-> "idle", on |-> None, decision |-> None, loaded |-> FALSE,
         at |-> 0, value |-> FALSE, hits |-> {}, missing |-> {}]

Works == [phase : {"idle", "loaded", "stamped", "resolved", "mapping"},
          on : Mappings \union {None}, decision : Decisions \union {None},
          loaded : BOOLEAN, at : Instants, value : BOOLEAN,
          hits : SUBSET Locations, missing : SUBSET Locations]

\* A database written before the decision table existed.
Init ==
    /\ place \in {f \in [Mappings -> Locations \union {None}] :
                    \A m, n \in Mappings :
                        f[m] = f[n] /\ f[m] # None => m = n}
    /\ verified \in [Mappings -> BOOLEAN]
    /\ \A m \in Mappings : verified[m] => place[m] # None
    /\ history = [m \in Mappings |-> <<>>]
    /\ clock = 0
    /\ up = FALSE
    /\ work = [r \in Requests |-> Idle]

-----------------------------------------------------------------------------
(* resolve_state: the last event in time is the state *)

\* Mutant: of two events of one instant the first one counts.
EarliestOfTies(h) ==
    CHOOSE i \in DOMAIN h :
        \A j \in DOMAIN h : h[j].at < h[i].at \/ (h[j].at = h[i].at /\ i <= j)

\* The index of the last event in a stable sort by created_at.
Latest(h) ==
    CHOOSE i \in DOMAIN h :
        \A j \in DOMAIN h : h[j].at < h[i].at \/ (h[j].at = h[i].at /\ j <= i)

Resolve(h) == IF h = <<>> THEN None ELSE h[Latest(h)].decision

-----------------------------------------------------------------------------
(* Start and stop *)

\* Mutant: the backfill runs again for mappings that have a history.
BackfillEachStart ==
    /\ ~up
    /\ up' = TRUE
    /\ history' = [m \in Mappings |->
          IF verified[m] /\ Len(history[m]) < MaxDecisions
          THEN Append(history[m],
                 [decision |-> "verified", at |-> clock, actor |-> "system"])
          ELSE history[m]]
    /\ UNCHANGED <<place, verified, clock, work>>

\* init_db: a verified mapping without a history gets one event.
Start ==
    /\ ~up
    /\ up' = TRUE
    /\ history' = [m \in Mappings |->
          IF verified[m] /\ history[m] = <<>>
          THEN <<[decision |-> "verified", at |-> clock, actor |-> "system"]>>
          ELSE history[m]]
    /\ UNCHANGED <<place, verified, clock, work>>

\* The server stops: threads and sessions are gone, the rows stay.
Crash ==
    /\ MayCrash
    /\ up
    /\ up' = FALSE
    /\ work' = [r \in Requests |-> Idle]
    /\ UNCHANGED <<place, verified, history, clock>>

Tick ==
    /\ clock' \in Instants
    /\ IF ClockStepsBack THEN clock' # clock ELSE clock' > clock
    /\ UNCHANGED <<place, verified, history, up, work>>

-----------------------------------------------------------------------------
(* Threads *)

InFlight(r) == work[r].phase # "idle"

Goes(r, next) == work' = [work EXCEPT ![r] = next]

Take(r, next) ==
    /\ up
    /\ ~InFlight(r)
    /\ Serial => \A q \in Requests : ~InFlight(q)
    /\ Goes(r, next)

-----------------------------------------------------------------------------
(* PATCH /mappings/{id}/verify and POST /mappings/{id}/decisions *)

\* The decisions on m that are being taken.
Pending(m) == {r \in Requests : work[r].phase # "idle" /\ work[r].on = m}

\* _load_mapping; without the row the answer is 404.
DecideBegin(r, m, decision) ==
    /\ Len(history[m]) + Cardinality(Pending(m)) < MaxDecisions
    /\ place[m] # None
    /\ Take(r, [Idle EXCEPT !.phase = "loaded", !.on = m,
                            !.decision = decision, !.loaded = verified[m]])
    /\ UNCHANGED <<place, verified, history, clock, up>>

\* Mutant: the event is stamped with the time of another zone.
StampElsewhere(r) ==
    /\ work[r].phase = "loaded"
    /\ Goes(r, [work[r] EXCEPT !.phase = "stamped", !.at = clock + 1])
    /\ UNCHANGED <<place, verified, history, clock, up>>

\* created_at = now, before the history is read.
Stamp(r) ==
    /\ work[r].phase = "loaded"
    /\ Goes(r, [work[r] EXCEPT !.phase = "stamped", !.at = clock])
    /\ UNCHANGED <<place, verified, history, clock, up>>

Event(r) == [decision |-> work[r].decision, at |-> work[r].at,
             actor |-> "owner"]

\* Mutant: the state is computed without the new event.
ReadWithoutEvent(r) ==
    /\ work[r].phase = "stamped"
    /\ Goes(r, [work[r] EXCEPT !.phase = "resolved",
          !.value = Resolve(history[work[r].on]) = "verified"])
    /\ UNCHANGED <<place, verified, history, clock, up>>

\* list_for_mapping and resolve_state, the new event included.
ReadHistory(r) ==
    /\ work[r].phase = "stamped"
    /\ Goes(r, [work[r] EXCEPT !.phase = "resolved",
          !.value = Resolve(Append(history[work[r].on], Event(r))) = "verified"])
    /\ UNCHANGED <<place, verified, history, clock, up>>

\* One commit: INSERT of the event, UPDATE of a cache value that has changed.
DecideCommit(r) ==
    LET m == work[r].on
    IN /\ work[r].phase = "resolved"
       /\ history' = [history EXCEPT ![m] = Append(@, Event(r))]
       /\ verified' = IF work[r].value = work[r].loaded
                      THEN verified
                      ELSE [verified EXCEPT ![m] = work[r].value]
       /\ Goes(r, Idle)
       /\ UNCHANGED <<place, clock, up>>

-----------------------------------------------------------------------------
(* POST /changes/{id}/map *)

\* The retrieval has returned its candidates.
MapBegin(r, hits) ==
    /\ Take(r, [Idle EXCEPT !.phase = "mapping", !.hits = hits])
    /\ UNCHANGED <<place, verified, history, clock, up>>

\* Mutant: a candidate is added without looking for its row.
MapUnchecked(r, l) ==
    /\ work[r].phase = "mapping"
    /\ l \in work[r].hits
    /\ Goes(r, [work[r] EXCEPT !.hits = @ \ {l}, !.missing = @ \union {l}])
    /\ UNCHANGED <<place, verified, history, clock, up>>

\* One candidate: is there a row for its place?
MapCheck(r, l) ==
    /\ work[r].phase = "mapping"
    /\ l \in work[r].hits
    /\ Goes(r, [work[r] EXCEPT
          !.hits = @ \ {l},
          !.missing = IF \E m \in Mappings : place[m] = l THEN @
                      ELSE @ \union {l}])
    /\ UNCHANGED <<place, verified, history, clock, up>>

\* One commit inserts the missing rows, unverified and without a history.
MapCommit(r) ==
    /\ work[r].phase = "mapping"
    /\ work[r].hits = {}
    /\ \E row \in [work[r].missing -> {m \in Mappings : place[m] = None}] :
        /\ \A k, l \in work[r].missing : row[k] = row[l] => k = l
        /\ place' = [m \in Mappings |->
              IF \E l \in work[r].missing : row[l] = m
              THEN CHOOSE l \in work[r].missing : row[l] = m
              ELSE place[m]]
    /\ Goes(r, Idle)
    /\ UNCHANGED <<verified, history, clock, up>>

-----------------------------------------------------------------------------
Step(r) ==
    \/ \E m \in Mappings, decision \in Decisions : DecideBegin(r, m, decision)
    \/ Stamp(r)
    \/ ReadHistory(r)
    \/ DecideCommit(r)
    \/ \E hits \in SUBSET Locations : MapBegin(r, hits)
    \/ \E l \in Locations : MapCheck(r, l)
    \/ MapCommit(r)

Next ==
    \/ Start
    \/ Crash
    \/ Tick
    \/ \E r \in Requests : Step(r)

Spec == Init /\ [][Next]_vars

-----------------------------------------------------------------------------
(* apply *)

\* The rows whose code apply sends to the model: the verified ones, and when
\* there is none, those whose confidence is high enough.
Used ==
    LET trusted == {m \in Mappings : verified[m]}
    IN IF trusted # {} THEN trusted
       ELSE {m \in Mappings : place[m] \in Confident}

-----------------------------------------------------------------------------
(* Properties *)

TypeOK ==
    /\ place \in [Mappings -> Locations \union {None}]
    /\ verified \in [Mappings -> BOOLEAN]
    /\ history \in [Mappings -> Seq(Events)]
    /\ clock \in Instants
    /\ up \in BOOLEAN
    /\ work \in [Requests -> Works]
    /\ \A r \in Requests :
        /\ ~up => work[r].phase = "idle"
        /\ work[r].phase \in {"loaded", "stamped", "resolved"} =>
              /\ work[r].decision \in Decisions
              /\ work[r].on \in Mappings
              /\ place[work[r].on] # None

\* While the server runs, mapping.verified says what the history says
\* (_record_mapping_decision, main.py:891: two writes in one transaction so
\* that the cache cannot disagree with the events).
CacheConsistent ==
    up => \A m \in Mappings :
             verified[m] <=> Resolve(history[m]) = "verified"

\* Every decision that is committed takes effect: the cache says whether the
\* newest row of the history is a VERIFIED (verify_mapping, main.py:964).
DecisionTakesEffect ==
    [][\A m \in Mappings : Len(history'[m]) > Len(history[m]) =>
          verified'[m] <=> history'[m][Len(history'[m])].decision = "verified"]_vars

\* Once a person has decided on a mapping, the event of the migration never
\* speaks for it again, however often the server restarts and whoever decides
\* at the same time (_backfill_legacy_mapping_decisions, database.py:109).
PersonDecides ==
    \A m \in Mappings :
        LET h == history[m]
        IN (\E i \in DOMAIN h : h[i].actor = "owner")
              => h[Latest(h)].actor = "owner"

\* A place has one mapping row, so that a decision on it is about all of it
\* (map_change, main.py:799: the row is looked for before it is added).
OneRowPerPlace ==
    \A m, n \in Mappings : place[m] = place[n] /\ place[m] # None => m = n

\* A revoked mapping is kept out of later applies (verify_mapping,
\* main.py:967).
RevokedNotUsed ==
    up => \A m \in Used : Resolve(history[m]) # "revoked"

=============================================================================
