------------------------ MODULE MappingDecisionsProofs ------------------------
(***************************************************************************)
(* Theorems about MappingDecisions, for every set of mappings, places and  *)
(* threads and every bound.                                                *)
(***************************************************************************)
EXTENDS MappingDecisions, TLAPS

-----------------------------------------------------------------------------
(* Types *)

LEMMA IdleTyped == Idle \in Works
  BY DecisionAssumption DEF Idle, Works, Instants

LEMMA InitTyped == Init => TypeOK
<1> SUFFICES ASSUME Init PROVE TypeOK
  OBVIOUS
<1>1. history \in [Mappings -> Seq(Events)]
  BY DEF Init
<1>2. work \in [Requests -> Works]
  BY IdleTyped DEF Init
<1>3. clock \in Instants
  BY DecisionAssumption DEF Init, Instants
<1> QED
  BY <1>1, <1>2, <1>3 DEF Init, TypeOK, Idle

\* What it means for a thread to go on.
LEMMA GoesTyped ==
    ASSUME TypeOK, NEW r \in Requests, NEW now \in Works, Goes(r, now)
    PROVE  /\ work' \in [Requests -> Works]
           /\ work'[r] = now
           /\ \A q \in Requests \ {r} : work'[q] = work[q]
  BY DEF TypeOK, Goes

\* A thread goes on and nothing else changes.
LEMMA OnlyGoes ==
    ASSUME TypeOK, NEW r \in Requests, NEW now \in Works, Goes(r, now), up,
           UNCHANGED <<place, verified, history, clock, up>>,
           now.phase \in {"loaded", "stamped", "resolved"} =>
              now.decision \in Decisions /\ now.on \in Mappings /\ place[now.on] # None
    PROVE  TypeOK'
<1>1. /\ work' \in [Requests -> Works]
      /\ work'[r] = now
      /\ \A q \in Requests \ {r} : work'[q] = work[q]
  BY GoesTyped
<1> QED
  BY <1>1 DEF TypeOK

\* What a thread does next is of the same kind.
LEMMA WorkChanged ==
    ASSUME NEW w \in Works
    PROVE  /\ \A at \in Instants : [w EXCEPT !.phase = "stamped", !.at = at] \in Works
           /\ \A value \in BOOLEAN : [w EXCEPT !.phase = "resolved", !.value = value] \in Works
           /\ \A hits, missing \in SUBSET Locations :
                 [w EXCEPT !.hits = hits, !.missing = missing] \in Works
BY DEF Works

LEMMA StepTyped == TypeOK /\ [Next]_vars => TypeOK'
<1> SUFFICES ASSUME TypeOK, [Next]_vars PROVE TypeOK'
  OBVIOUS
<1>1. CASE Start
  <2> DEFINE event == [decision |-> "verified", at |-> clock,
                       actor |-> "system"]
  <2>1. event \in Events
    BY DEF TypeOK, Events, Decisions
  <2>2. <<event>> \in Seq(Events)
    BY <2>1
  <2>3. history' \in [Mappings -> Seq(Events)]
    BY <1>1, <2>2 DEF Start, TypeOK
  <2> QED
    BY <1>1, <2>3 DEF Start, TypeOK
<1>2. CASE Crash
  BY <1>2, IdleTyped DEF Crash, TypeOK, Idle
<1>3. CASE Tick
  BY <1>3 DEF Tick, TypeOK
<1>4. ASSUME NEW r \in Requests, NEW m \in Mappings,
             NEW decision \in Decisions, DecideBegin(r, m, decision)
      PROVE  TypeOK'
  <2> DEFINE now == [Idle EXCEPT !.phase = "loaded", !.on = m,
                                   !.decision = decision,
                                   !.loaded = verified[m]]
  <2>1. now \in Works
    BY <1>4, IdleTyped DEF DecideBegin, TypeOK, Works, Decisions, Idle
  <2>2. now.phase = "loaded" /\ now.on = m /\ now.decision = decision
    BY <1>4 DEF DecideBegin, TypeOK, Works, Idle
  <2>3. Goes(r, now) /\ up
    BY <1>4 DEF DecideBegin, Take, TypeOK
  <2> HIDE DEF now
  <2> QED
    BY <1>4, <2>1, <2>2, <2>3, OnlyGoes DEF DecideBegin
<1>5. ASSUME NEW r \in Requests, Stamp(r)
      PROVE  TypeOK'
  <2> DEFINE now == [work[r] EXCEPT !.phase = "stamped", !.at = clock]
  <2>1. now \in Works
    <3>1. clock \in Instants /\ work[r] \in Works
      BY DEF TypeOK
    <3> QED
      BY <3>1, WorkChanged, Zenon
  <2>2. now.phase = "stamped" /\ now.on = work[r].on /\ now.decision = work[r].decision
    BY <1>5 DEF Stamp, TypeOK, Works
  <2>3. Goes(r, now) /\ up
    BY <1>5 DEF Stamp, TypeOK
  <2> HIDE DEF now
  <2> QED
    BY <1>5, <2>1, <2>2, <2>3, OnlyGoes DEF Stamp, TypeOK
<1>6. ASSUME NEW r \in Requests, ReadHistory(r)
      PROVE  TypeOK'
  <2> DEFINE now == [work[r] EXCEPT !.phase = "resolved",
                       !.value = Resolve(Append(history[work[r].on], Event(r)))
                                   = "verified"]
  <2>1. now \in Works
    <3>1. work[r] \in Works
      BY DEF TypeOK
    <3>2. PICK value \in BOOLEAN :
             value = (Resolve(Append(history[work[r].on], Event(r))) = "verified")
      OBVIOUS
    <3>3. now = [work[r] EXCEPT !.phase = "resolved", !.value = value]
      BY <3>2, Zenon
    <3> QED
      BY <3>1, <3>3, WorkChanged, Zenon
  <2>2. now.phase = "resolved" /\ now.on = work[r].on /\ now.decision = work[r].decision
    BY <1>6 DEF ReadHistory, TypeOK, Works
  <2>3. Goes(r, now) /\ up
    BY <1>6 DEF ReadHistory, TypeOK
  <2> HIDE DEF now
  <2> QED
    BY <1>6, <2>1, <2>2, <2>3, OnlyGoes DEF ReadHistory, TypeOK
<1>7. ASSUME NEW r \in Requests, DecideCommit(r)
      PROVE  TypeOK'
  <2>1. Event(r) \in Events
    BY <1>7 DEF DecideCommit, Event, Events, TypeOK, Works
  <2>2. history' \in [Mappings -> Seq(Events)]
    BY <1>7, <2>1 DEF DecideCommit, TypeOK
  <2>3. verified' \in [Mappings -> BOOLEAN]
    BY <1>7 DEF DecideCommit, TypeOK, Works
  <2>4. Goes(r, Idle) /\ UNCHANGED <<place, clock, up>>
    BY <1>7 DEF DecideCommit
  <2> QED
    BY <2>2, <2>3, <2>4, IdleTyped, GoesTyped DEF TypeOK, Idle
<1>8. ASSUME NEW r \in Requests, NEW hits \in SUBSET Locations,
             MapBegin(r, hits)
      PROVE  TypeOK'
  <2> DEFINE now == [Idle EXCEPT !.phase = "mapping", !.hits = hits]
  <2>1. now \in Works
    BY <1>8, IdleTyped DEF MapBegin, TypeOK, Works, Decisions, Idle
  <2>2. now.phase = "mapping"
    BY <1>8 DEF MapBegin, TypeOK, Works, Idle
  <2>3. Goes(r, now) /\ up
    BY <1>8 DEF MapBegin, Take, TypeOK
  <2> HIDE DEF now
  <2> QED
    BY <1>8, <2>1, <2>2, <2>3, OnlyGoes DEF MapBegin
<1>9. ASSUME NEW r \in Requests, NEW l \in Locations, MapCheck(r, l)
      PROVE  TypeOK'
  <2> DEFINE now == [work[r] EXCEPT
                         !.hits = @ \ {l},
                         !.missing = IF \E m \in Mappings : place[m] = l THEN @
                                     ELSE @ \union {l}]
  <2>1. now \in Works
    <3>1. work[r] \in Works
      BY DEF TypeOK
    <3>2. PICK missing \in SUBSET Locations :
             missing = IF \E m \in Mappings : place[m] = l THEN work[r].missing
                       ELSE work[r].missing \union {l}
      BY <3>1 DEF Works
    <3>3. PICK hits \in SUBSET Locations : hits = work[r].hits \ {l}
      BY <3>1 DEF Works
    <3>4. now = [work[r] EXCEPT !.hits = hits, !.missing = missing]
      BY <3>2, <3>3, Zenon
    <3> QED
      BY <3>1, <3>4, WorkChanged, Zenon
  <2>2. now.phase = "mapping"
    BY <1>9 DEF MapCheck, TypeOK, Works
  <2>3. Goes(r, now) /\ up
    BY <1>9 DEF MapCheck, TypeOK
  <2> HIDE DEF now
  <2> QED
    BY <1>9, <2>1, <2>2, <2>3, OnlyGoes DEF MapCheck, TypeOK
<1>10. ASSUME NEW r \in Requests, MapCommit(r)
       PROVE  TypeOK'
  <2>1. work[r].missing \subseteq Locations
    BY DEF TypeOK, Works
  <2>2. /\ place' \in [Mappings -> Locations \union {None}]
        /\ \A m \in Mappings : place[m] # None => place'[m] # None
    BY <1>10, <2>1, DecisionAssumption DEF MapCommit, TypeOK
  <2>3. Goes(r, Idle) /\ UNCHANGED <<verified, history, clock, up>>
    BY <1>10 DEF MapCommit
  <2> QED
    BY <2>2, <2>3, IdleTyped, GoesTyped DEF TypeOK, Idle
<1>11. CASE UNCHANGED vars
  BY <1>11 DEF vars, TypeOK
<1> QED
  BY <1>1, <1>2, <1>3, <1>4, <1>5, <1>6, <1>7, <1>8, <1>9, <1>10, <1>11
     DEF Next, Step

\* The rows and what the threads hold are well-formed: a decision is only
\* ever taken about a row that exists, and no thread outlives the server.
THEOREM TypeCorrect == Spec => []TypeOK
  BY InitTyped, StepTyped, PTL DEF Spec

-----------------------------------------------------------------------------
(* The cache says what the history says when one request runs at a time *)

\* A lone operator has at most one request open.
Alone == Serial => \A r, q \in Requests : InFlight(r) /\ InFlight(q) => r = q

\* What a lone thread has read is still true.
Fresh ==
    Serial => \A r \in Requests :
        /\ work[r].phase \in {"loaded", "stamped", "resolved"} =>
              work[r].loaded = verified[work[r].on]
        /\ work[r].phase = "resolved" =>
              work[r].value = (Resolve(Append(history[work[r].on], Event(r)))
                                  = "verified")

\* While the server is down only a mapping without a history may disagree
\* with it: the next start backfills that one.
Agrees ==
    Serial => \A m \in Mappings :
        up \/ history[m] # <<>> =>
            (verified[m] <=> Resolve(history[m]) = "verified")

CacheInv == TypeOK /\ Alone /\ Fresh /\ Agrees

LEMMA ResolveOne ==
    ASSUME NEW e PROVE Resolve(<<e>>) = e.decision
<1>1. DOMAIN <<e>> = {1} /\ <<e>> # <<>> /\ <<e>>[1] = e
  OBVIOUS
<1>2. Latest(<<e>>) = 1
  BY <1>1 DEF Latest
<1> QED
  BY <1>1, <1>2 DEF Resolve

LEMMA CacheInit == Init => CacheInv
<1> SUFFICES ASSUME Init PROVE CacheInv
  OBVIOUS
<1>1. TypeOK
  BY InitTyped
<1>2. Alone /\ Fresh /\ Agrees
  BY DEF Init, Alone, Fresh, Agrees, Idle, InFlight
<1> QED
  BY <1>1, <1>2 DEF CacheInv

LEMMA CacheStep == CacheInv /\ [Next]_vars => CacheInv'
<1> SUFFICES ASSUME CacheInv, [Next]_vars PROVE CacheInv'
  OBVIOUS
<1> USE DEF CacheInv
<1>0. TypeOK'
  BY StepTyped
<1>1. CASE Start
  <2>1. Alone' /\ Fresh'
    BY <1>1 DEF Start, Alone, Fresh, InFlight, TypeOK
  <2>2. ASSUME NEW m \in Mappings, Serial
        PROVE  verified'[m] <=> Resolve(history'[m]) = "verified"
    <3>1. CASE verified[m] /\ history[m] = <<>>
      BY <1>1, <3>1, ResolveOne DEF Start, TypeOK
    <3>2. CASE ~verified[m] /\ history[m] = <<>>
      BY <1>1, <3>2, DecisionAssumption DEF Start, TypeOK, Resolve, Decisions
    <3>3. CASE history[m] # <<>>
      BY <1>1, <2>2, <3>3 DEF Start, TypeOK, Agrees
    <3> QED
      BY <3>1, <3>2, <3>3
  <2> QED
    BY <1>0, <2>1, <2>2 DEF Agrees
<1>2. CASE Crash
  BY <1>0, <1>2 DEF Crash, Alone, Fresh, Agrees, Idle, InFlight
<1>3. CASE Tick
  BY <1>0, <1>3 DEF Tick, Alone, Fresh, Agrees, InFlight, Event
<1>4. ASSUME NEW r \in Requests, NEW m \in Mappings,
             NEW decision \in Decisions, DecideBegin(r, m, decision)
      PROVE  CacheInv'
  BY <1>0, <1>4 DEF DecideBegin, Take, Goes, Idle, Alone, Fresh, Agrees,
     InFlight, TypeOK
<1>5. ASSUME NEW r \in Requests, Stamp(r) PROVE CacheInv'
  BY <1>0, <1>5 DEF Stamp, Goes, Alone, Fresh, Agrees, InFlight, TypeOK, Works,
     Event
<1>6. ASSUME NEW r \in Requests, ReadHistory(r) PROVE CacheInv'
  <2> DEFINE all == Append(history[work[r].on], Event(r))
  <2>1. /\ work[r].phase = "stamped"
        /\ \A q \in Requests \ {r} : work'[q] = work[q]
        /\ UNCHANGED <<verified, history, up>>
        /\ work'[r].phase = "resolved" /\ work'[r].on = work[r].on
        /\ work'[r].decision = work[r].decision /\ work'[r].at = work[r].at
        /\ work'[r].loaded = work[r].loaded
        /\ work'[r].value = (Resolve(all) = "verified")
    BY <1>6 DEF ReadHistory, Goes, TypeOK, Works
  <2>2. Event(r)' = Event(r)
    BY <2>1 DEF Event
  <2>3. Alone' /\ Agrees'
    BY <2>1 DEF Alone, Agrees, InFlight
  <2>4. ASSUME Serial, NEW q \in Requests
        PROVE  /\ work'[q].phase \in {"loaded", "stamped", "resolved"} =>
                     work'[q].loaded = verified'[work'[q].on]
               /\ work'[q].phase = "resolved" =>
                     work'[q].value = (Resolve(Append(history'[work'[q].on], Event(q)'))
                                         = "verified")
    <3>1. CASE q = r
      BY <2>1, <2>2, <2>4, <3>1 DEF Fresh
    <3>2. CASE q # r
      BY <2>1, <2>4, <3>2 DEF Fresh, Event
    <3> QED
      BY <3>1, <3>2
  <2> QED
    BY <1>0, <2>3, <2>4 DEF Fresh
<1>7. ASSUME NEW r \in Requests, DecideCommit(r) PROVE CacheInv'
  BY <1>0, <1>7 DEF DecideCommit, Goes, Alone, Fresh, Agrees, InFlight, TypeOK,
     Works, Event, Idle
<1>8. ASSUME NEW r \in Requests, NEW hits \in SUBSET Locations,
             MapBegin(r, hits)
      PROVE  CacheInv'
  BY <1>0, <1>8 DEF MapBegin, Take, Goes, Idle, Alone, Fresh, Agrees, InFlight,
     TypeOK
<1>9. ASSUME NEW r \in Requests, NEW l \in Locations, MapCheck(r, l)
      PROVE  CacheInv'
  <2>1. /\ work[r].phase = "mapping" /\ work'[r].phase = "mapping"
        /\ \A q \in Requests \ {r} : work'[q] = work[q]
        /\ UNCHANGED <<place, verified, history, clock, up>>
    BY <1>9 DEF MapCheck, Goes, TypeOK, Works
  <2> QED
    BY <1>0, <2>1 DEF Alone, Fresh, Agrees, InFlight, TypeOK, Event
<1>10. ASSUME NEW r \in Requests, MapCommit(r) PROVE CacheInv'
  BY <1>0, <1>10 DEF MapCommit, Goes, Idle, Alone, Fresh, Agrees, InFlight,
     TypeOK
<1>11. CASE UNCHANGED vars
  BY <1>0, <1>11 DEF vars, Alone, Fresh, Agrees, InFlight, Event
<1> QED
  BY <1>1, <1>2, <1>3, <1>4, <1>5, <1>6, <1>7, <1>8, <1>9, <1>10, <1>11
     DEF Next, Step

\* With one request at a time the cache says what the history says, across
\* crashes, restarts and clocks that are set back.
THEOREM CacheFollowsHistory == Spec => [](Serial => CacheConsistent)
<1>1. CacheInv => (Serial => CacheConsistent)
  BY DEF CacheInv, Agrees, CacheConsistent
<1> QED
  BY <1>1, CacheInit, CacheStep, PTL DEF Spec

-----------------------------------------------------------------------------
(* One row per place *)

\* What a lone map found to be missing is missing.
StillMissing ==
    Serial => \A r \in Requests :
        work[r].phase = "mapping" =>
            \A l \in work[r].missing, m \in Mappings : place[m] # l

PlaceInv == TypeOK /\ Alone /\ StillMissing /\ (Serial => OneRowPerPlace)

LEMMA PlaceInit == Init => PlaceInv
<1> SUFFICES ASSUME Init PROVE PlaceInv
  OBVIOUS
<1>1. TypeOK
  BY InitTyped
<1>2. Alone /\ StillMissing /\ OneRowPerPlace
  BY DEF Init, Alone, StillMissing, OneRowPerPlace, Idle, InFlight
<1> QED
  BY <1>1, <1>2 DEF PlaceInv

LEMMA PlaceStep == CacheInv /\ PlaceInv /\ [Next]_vars => PlaceInv'
<1> SUFFICES ASSUME CacheInv, PlaceInv, [Next]_vars PROVE PlaceInv'
  OBVIOUS
<1> USE DEF PlaceInv
<1>0. TypeOK' /\ Alone'
  BY CacheStep DEF CacheInv
<1>1. ASSUME UNCHANGED place,
             \A r \in Requests : work'[r].phase = "mapping" =>
                 work'[r].missing \subseteq work[r].missing
                   /\ work[r].phase = "mapping"
      PROVE  PlaceInv'
  BY <1>0, <1>1 DEF StillMissing, OneRowPerPlace
<1>2. CASE Start
  BY <1>1, <1>2 DEF Start
<1>3. CASE Crash
  BY <1>1, <1>3 DEF Crash, Idle
<1>4. CASE Tick
  BY <1>1, <1>4 DEF Tick
<1>5. ASSUME NEW r \in Requests, NEW m \in Mappings,
             NEW decision \in Decisions, DecideBegin(r, m, decision)
      PROVE  PlaceInv'
  BY <1>1, <1>5 DEF DecideBegin, Take, Goes, Idle, TypeOK
<1>6. ASSUME NEW r \in Requests, Stamp(r) \/ ReadHistory(r) \/ DecideCommit(r)
      PROVE  PlaceInv'
  <2>1. /\ UNCHANGED place
        /\ work'[r].phase # "mapping"
        /\ \A q \in Requests \ {r} : work'[q] = work[q]
    <3>1. CASE Stamp(r)
      BY <3>1 DEF Stamp, Goes, TypeOK, Works
    <3>2. CASE ReadHistory(r)
      BY <3>2 DEF ReadHistory, Goes, TypeOK, Works
    <3>3. CASE DecideCommit(r)
      BY <3>3 DEF DecideCommit, Goes, Idle, TypeOK
    <3> QED
      BY <1>6, <3>1, <3>2, <3>3
  <2> QED
    BY <1>1, <2>1
\* A map starts with nothing missing.
<1>7. ASSUME NEW r \in Requests, NEW hits \in SUBSET Locations,
             MapBegin(r, hits)
      PROVE  PlaceInv'
  BY <1>0, <1>7 DEF MapBegin, Take, Goes, Idle, TypeOK, StillMissing,
     OneRowPerPlace
<1>8. ASSUME NEW r \in Requests, NEW l \in Locations, MapCheck(r, l)
      PROVE  PlaceInv'
  <2>1. /\ UNCHANGED place
        /\ work[r].phase = "mapping"
        /\ work'[r].missing = IF \E m \in Mappings : place[m] = l
                              THEN work[r].missing
                              ELSE work[r].missing \union {l}
        /\ \A q \in Requests \ {r} : work'[q] = work[q]
    BY <1>8 DEF MapCheck, Goes, TypeOK, Works
  <2> QED
    BY <1>0, <2>1 DEF StillMissing, OneRowPerPlace
<1>9. ASSUME NEW r \in Requests, MapCommit(r) PROVE PlaceInv'
  <2>1. /\ work[r].phase = "mapping"
        /\ work'[r].phase = "idle"
        /\ \A q \in Requests \ {r} : work'[q] = work[q]
    BY <1>9 DEF MapCommit, Goes, Idle, TypeOK
  <2>2. StillMissing'
    BY <2>1 DEF StillMissing, CacheInv, Alone, InFlight
  <2>3. PICK row \in [work[r].missing -> {m \in Mappings : place[m] = None}] :
          /\ \A k, l \in work[r].missing : row[k] = row[l] => k = l
          /\ place' = [m \in Mappings |->
                IF \E l \in work[r].missing : row[l] = m
                THEN CHOOSE l \in work[r].missing : row[l] = m
                ELSE place[m]]
    BY <1>9 DEF MapCommit
  <2>4. \A m \in Mappings : \/ place'[m] = place[m]
                             \/ /\ place'[m] \in work[r].missing
                                /\ row[place'[m]] = m
    BY <2>3
  <2>5. Serial => OneRowPerPlace'
    BY <2>1, <2>4 DEF StillMissing, OneRowPerPlace
  <2> QED
    BY <1>0, <2>2, <2>5
<1>10. CASE UNCHANGED vars
  BY <1>1, <1>10 DEF vars
<1> QED
  BY <1>2, <1>3, <1>4, <1>5, <1>6, <1>7, <1>8, <1>9, <1>10 DEF Next, Step

\* With one request at a time a place is mapped once, however often map is
\* repeated.
THEOREM PlaceMappedOnce == Spec => [](Serial => OneRowPerPlace)
<1>1. PlaceInv => (Serial => OneRowPerPlace)
  BY DEF PlaceInv
<1> QED
  BY <1>1, PlaceInit, PlaceStep, CacheInit, CacheStep, PTL DEF Spec

-----------------------------------------------------------------------------
(* A person has the last word *)

\* i is where Latest points.
LatestAt(h, i) ==
    /\ i \in DOMAIN h
    /\ \A j \in DOMAIN h : h[j].at < h[i].at \/ (h[j].at = h[i].at /\ j <= i)

HasLatest == \A m \in Mappings :
    history[m] # <<>> => \E i \in DOMAIN history[m] : LatestAt(history[m], i)

\* The migration's event is the first one, and no event lies before it.
SystemFirst == \A m \in Mappings : \A i, j \in DOMAIN history[m] :
    history[m][i].actor = "system" =>
        i = 1 /\ history[m][i].at <= history[m][j].at

\* No event is in the future.
NotAhead == \A m \in Mappings : \A i \in DOMAIN history[m] :
    history[m][i].at <= clock

\* A decision under way is stamped after the migration's event.
StampedAfter == \A r \in Requests :
    work[r].phase \in {"stamped", "resolved"} =>
        /\ work[r].at <= clock
        /\ \A i \in DOMAIN history[work[r].on] :
              history[work[r].on][i].actor = "system" =>
                  history[work[r].on][i].at <= work[r].at

PersonInv == TypeOK /\ HasLatest /\ SystemFirst /\ NotAhead /\ StampedAfter

LEMMA EventTyped ==
    ASSUME NEW h \in Seq(Events), NEW i \in DOMAIN h
    PROVE  h[i].at \in Nat /\ h[i].actor \in {"owner", "system"}
<1>1. h[i] \in Events
  OBVIOUS
<1> QED
  BY <1>1, DecisionAssumption DEF Events, Instants

LEMMA LatestIs ==
    ASSUME NEW h, NEW i, LatestAt(h, i)
    PROVE  LatestAt(h, Latest(h))
  BY DEF LatestAt, Latest

\* Appending an event leaves a latest one.
LEMMA LatestAppend ==
    ASSUME NEW h \in Seq(Events), NEW e \in Events,
           h # <<>> => \E i \in DOMAIN h : LatestAt(h, i)
    PROVE  \E i \in DOMAIN Append(h, e) : LatestAt(Append(h, e), i)
<1> DEFINE g == Append(h, e)
           n == Len(h) + 1
<1>1. /\ DOMAIN g = 1..n /\ DOMAIN h = 1..(n - 1) /\ n \in Nat \ {0}
      /\ g[n] = e
      /\ \A j \in DOMAIN h : g[j] = h[j]
  OBVIOUS
<1>2. \A j \in DOMAIN g : g[j].at \in Nat
  <2>1. g \in Seq(Events)
    OBVIOUS
  <2>2. \A j \in DOMAIN g : g[j] \in Events
    BY <2>1
  <2> QED
    BY <2>2, DecisionAssumption DEF Events, Instants
<1> HIDE DEF g, n
<1>3. CASE h = <<>>
  <2>1. n = 1
    BY <1>3 DEF n
  <2> QED
    BY <1>1, <1>2, <2>1 DEF LatestAt
<1>4. CASE h # <<>>
  <2>1. PICK i \in DOMAIN h : LatestAt(h, i)
    BY <1>4
  <2>2. CASE g[i].at <= e.at
    <3>1. LatestAt(g, n)
      BY <1>1, <1>2, <2>1, <2>2 DEF LatestAt
    <3> QED
      BY <1>1, <3>1 DEF g
  <2>3. CASE g[i].at > e.at
    <3>1. LatestAt(g, i)
      BY <1>1, <1>2, <2>1, <2>3 DEF LatestAt
    <3> QED
      BY <1>1, <2>1, <3>1 DEF g
  <2> QED
    BY <1>1, <1>2, <2>1, <2>2, <2>3
<1> QED
  BY <1>3, <1>4 DEF g

LEMMA PersonInit == Init => PersonInv
<1> SUFFICES ASSUME Init PROVE PersonInv
  OBVIOUS
<1>1. TypeOK
  BY InitTyped
<1>2. \A m \in Mappings : history[m] = <<>> /\ DOMAIN history[m] = {}
  BY DEF Init
<1>3. \A r \in Requests : work[r].phase = "idle"
  BY DEF Init, Idle
<1> QED
  BY <1>1, <1>2, <1>3
     DEF PersonInv, HasLatest, SystemFirst, NotAhead, StampedAfter

LEMMA PersonStep ==
    ~ClockStepsBack /\ PersonInv /\ [Next]_vars => PersonInv'
<1> SUFFICES ASSUME ~ClockStepsBack, PersonInv, [Next]_vars PROVE PersonInv'
  OBVIOUS
<1> USE DEF PersonInv
<1>0. TypeOK'
  BY StepTyped
\* The history grows by the backfill and by a decision only.
<1>1. ASSUME UNCHANGED history,
             clock <= clock',
             \A r \in Requests : work'[r].phase \in {"stamped", "resolved"} =>
                 \/ /\ work[r].phase \in {"stamped", "resolved"}
                    /\ work'[r].on = work[r].on
                    /\ work'[r].at = work[r].at
                 \/ work'[r].on \in Mappings /\ work'[r].at = clock
      PROVE  PersonInv'
  <2>1. clock \in Nat /\ clock' \in Nat
    BY <1>0, DecisionAssumption DEF TypeOK, Instants
  <2>2. \A m \in Mappings : \A i \in DOMAIN history[m] :
            history[m][i].at \in Nat
    BY EventTyped DEF TypeOK
  <2>3. \A r \in Requests : work[r].at \in Nat
    BY DecisionAssumption DEF TypeOK, Works, Instants
  <2>4. HasLatest' /\ SystemFirst' /\ NotAhead'
    BY <1>1, <2>1, <2>2 DEF HasLatest, SystemFirst, NotAhead
  <2>5. StampedAfter'
    BY <1>1, <2>1, <2>2, <2>3 DEF StampedAfter, NotAhead
  <2> QED
    BY <1>0, <2>4, <2>5
<1>2. CASE Start
  <2> DEFINE event == [decision |-> "verified", at |-> clock,
                       actor |-> "system"]
  <2>1. event \in Events /\ <<>> \in Seq(Events) /\ Append(<<>>, event) = <<event>>
    BY DEF TypeOK, Events, Decisions
  <2>2. /\ \A m \in Mappings : history'[m] \in {history[m], <<event>>}
        /\ \A r \in Requests : work'[r].phase = "idle"
        /\ clock' = clock
    BY <1>2 DEF Start, TypeOK
  <2>3. \E i \in DOMAIN <<event>> : LatestAt(<<event>>, i)
    BY <2>1, LatestAppend
  <2>4. /\ DOMAIN <<event>> = {1}
        /\ <<event>>[1].at = clock
    OBVIOUS
  <2>5. clock \in Nat
    BY DecisionAssumption DEF TypeOK, Instants
  <2> HIDE DEF event
  <2>6. HasLatest'
    BY <2>2, <2>3 DEF HasLatest
  <2>7. SystemFirst' /\ NotAhead'
    BY <2>2, <2>4, <2>5 DEF SystemFirst, NotAhead
  <2>8. StampedAfter'
    BY <2>2 DEF StampedAfter
  <2> QED
    BY <1>0, <2>6, <2>7, <2>8
<1>3. CASE Crash
  <2>1. clock' = clock /\ history' = history /\ clock \in Nat
    BY <1>3, DecisionAssumption DEF Crash, TypeOK, Instants
  <2>2. \A r \in Requests : work'[r].phase = "idle"
    BY <1>3 DEF Crash, Idle
  <2> QED
    BY <1>1, <2>1, <2>2
<1>4. CASE Tick
  <2>1. clock < clock' /\ clock \in Nat /\ clock' \in Nat
    BY <1>4, DecisionAssumption DEF Tick, TypeOK, Instants
  <2> QED
    BY <1>1, <1>4, <2>1 DEF Tick
<1>5. ASSUME NEW r \in Requests, NEW m \in Mappings,
             NEW decision \in Decisions, DecideBegin(r, m, decision)
      PROVE  PersonInv'
  BY <1>1, <1>5, DecisionAssumption
     DEF DecideBegin, Take, Goes, Idle, TypeOK, Instants
<1>6. ASSUME NEW r \in Requests, Stamp(r) PROVE PersonInv'
  <2>1. /\ UNCHANGED <<history, clock>>
        /\ work'[r].at = clock /\ work'[r].on = work[r].on
        /\ work[r].on \in Mappings
        /\ \A q \in Requests \ {r} : work'[q] = work[q]
    BY <1>6 DEF Stamp, Goes, TypeOK, Works
  <2> QED
    BY <1>1, <2>1, DecisionAssumption DEF TypeOK, Instants
<1>7. ASSUME NEW r \in Requests, ReadHistory(r) PROVE PersonInv'
  <2>1. /\ UNCHANGED <<history, clock>>
        /\ work[r].phase = "stamped"
        /\ work'[r].at = work[r].at /\ work'[r].on = work[r].on
        /\ \A q \in Requests \ {r} : work'[q] = work[q]
    BY <1>7 DEF ReadHistory, Goes, TypeOK, Works
  <2> QED
    BY <1>1, <2>1, DecisionAssumption DEF TypeOK, Instants
<1>8. ASSUME NEW r \in Requests, DecideCommit(r) PROVE PersonInv'
  <2> DEFINE m == work[r].on
             h == history[m]
             e == Event(r)
  <2>1. /\ m \in Mappings /\ h \in Seq(Events) /\ e \in Events
        /\ e.actor = "owner" /\ e.at = work[r].at
    BY <1>8 DEF DecideCommit, TypeOK, Event, Events, Works
  <2>2. /\ history'[m] = Append(h, e)
        /\ \A n \in Mappings \ {m} : history'[n] = history[n]
        /\ clock' = clock
        /\ work'[r].phase = "idle"
        /\ \A q \in Requests \ {r} : work'[q] = work[q]
    BY <1>8, <2>1 DEF DecideCommit, Goes, Idle, TypeOK
  <2>3. /\ DOMAIN Append(h, e) = 1..(Len(h) + 1) /\ DOMAIN h = 1..Len(h)
        /\ Append(h, e)[Len(h) + 1] = e
        /\ \A i \in DOMAIN h : Append(h, e)[i] = h[i]
        /\ Len(h) \in Nat
    BY <2>1
  <2>4. \A i \in DOMAIN Append(h, e) :
           \/ i \in DOMAIN h /\ Append(h, e)[i] = h[i]
           \/ Append(h, e)[i] = e
    BY <2>3
  <2>5. /\ e.at <= clock
        /\ \A i \in DOMAIN h : h[i].actor = "system" => h[i].at <= e.at
    BY <1>8, <2>1 DEF DecideCommit, StampedAfter
  <2>6. \E i \in DOMAIN Append(h, e) : LatestAt(Append(h, e), i)
    BY <2>1, LatestAppend DEF HasLatest
  <2> HIDE DEF m, h, e
  <2>7. HasLatest'
    BY <2>2, <2>6 DEF HasLatest
  <2>8. SystemFirst' /\ NotAhead'
    <3>1. ASSUME NEW i \in DOMAIN Append(h, e), NEW j \in DOMAIN Append(h, e),
                 Append(h, e)[i].actor = "system"
          PROVE  i = 1 /\ Append(h, e)[i].at <= Append(h, e)[j].at
      <4>1. i \in DOMAIN h /\ Append(h, e)[i] = h[i]
        BY <2>1, <2>4, <3>1
      <4>2. \A k \in DOMAIN h : i = 1 /\ h[i].at <= h[k].at
        BY <2>1, <3>1, <4>1 DEF SystemFirst, h
      <4> QED
        BY <2>4, <2>5, <3>1, <4>1, <4>2
    <3>2. \A i \in DOMAIN Append(h, e) : Append(h, e)[i].at <= clock
      BY <2>1, <2>4, <2>5 DEF NotAhead, h
    <3> QED
      BY <2>2, <3>1, <3>2 DEF SystemFirst, NotAhead
  <2>9. StampedAfter'
    <3>1. ASSUME NEW q \in Requests,
                 work'[q].phase \in {"stamped", "resolved"}
          PROVE  /\ work'[q].at <= clock'
                 /\ \A i \in DOMAIN history'[work'[q].on] :
                       history'[work'[q].on][i].actor = "system" =>
                           history'[work'[q].on][i].at <= work'[q].at
      <4>1. q # r /\ work'[q] = work[q]
        BY <2>2, <3>1
      <4>2. work[q].on \in Mappings
        BY <3>1, <4>1 DEF TypeOK
      <4>3. CASE work[q].on = m
        <5>1. /\ work[q].at <= clock
              /\ \A i \in DOMAIN h : h[i].actor = "system" =>
                     h[i].at <= work[q].at
          BY <3>1, <4>1, <4>3 DEF StampedAfter, h
        <5> QED
          BY <2>1, <2>2, <2>4, <4>1, <4>3, <5>1
      <4>4. CASE work[q].on # m
        BY <2>2, <3>1, <4>1, <4>2, <4>4 DEF StampedAfter
      <4> QED
        BY <4>3, <4>4
    <3> QED
      BY <3>1 DEF StampedAfter
  <2> QED
    BY <1>0, <2>7, <2>8, <2>9
<1>9. ASSUME NEW r \in Requests, NEW hits \in SUBSET Locations,
             MapBegin(r, hits)
      PROVE  PersonInv'
  BY <1>1, <1>9, DecisionAssumption DEF MapBegin, Take, Goes, Idle, TypeOK, Instants
<1>10. ASSUME NEW r \in Requests, NEW l \in Locations, MapCheck(r, l)
       PROVE  PersonInv'
  <2>1. /\ UNCHANGED <<history, clock>>
        /\ work'[r].phase = "mapping"
        /\ \A q \in Requests \ {r} : work'[q] = work[q]
    BY <1>10 DEF MapCheck, Goes, TypeOK, Works
  <2> QED
    BY <1>1, <2>1, DecisionAssumption DEF TypeOK, Instants
<1>11. ASSUME NEW r \in Requests, MapCommit(r) PROVE PersonInv'
  BY <1>1, <1>11, DecisionAssumption DEF MapCommit, Goes, Idle, TypeOK, Instants
<1>12. CASE UNCHANGED vars
  BY <1>1, <1>12, DecisionAssumption DEF vars, TypeOK, Instants
<1> QED
  BY <1>2, <1>3, <1>4, <1>5, <1>6, <1>7, <1>8, <1>9, <1>10, <1>11, <1>12
     DEF Next, Step

\* While the clock is not set back, the migration's event never speaks for a
\* mapping a person has decided on, whoever decides at the same time and
\* however often the server restarts.
THEOREM PersonHasLastWord == Spec => [](~ClockStepsBack => PersonDecides)
<1>1. PersonInv => PersonDecides
  <2> SUFFICES ASSUME PersonInv, NEW m \in Mappings,
                      NEW k \in DOMAIN history[m],
                      history[m][k].actor = "owner"
               PROVE  history[m][Latest(history[m])].actor = "owner"
    BY DEF PersonDecides
  <2> DEFINE h == history[m]
             n == Latest(h)
  <2>1. h \in Seq(Events) /\ h # <<>>
    BY DEF PersonInv, TypeOK
  <2>2. LatestAt(h, n)
    BY <2>1, LatestIs DEF PersonInv, HasLatest
  <2>3. h[n].actor \in {"owner", "system"} /\ h[n].at \in Nat /\ h[k].at \in Nat
    BY <2>1, <2>2, EventTyped DEF LatestAt
  <2>4. n \in DOMAIN h /\ DOMAIN h \subseteq Nat \ {0}
    BY <2>1, <2>2 DEF LatestAt
  <2>5. ASSUME h[n].actor = "system" PROVE FALSE
    <3>1. n = 1 /\ h[n].at <= h[k].at
      BY <2>4, <2>5 DEF PersonInv, SystemFirst
    <3>2. k <= 1
      BY <2>2, <2>3, <3>1 DEF LatestAt
    <3>3. k = n
      BY <2>4, <3>1, <3>2
    <3> QED
      BY <2>5, <3>3
  <2> QED
    BY <2>3, <2>5
<1>2. CASE ClockStepsBack
  BY <1>2, PTL
<1>3. CASE ~ClockStepsBack
  <2>1. PersonInv /\ [Next]_vars => PersonInv'
    BY <1>3, PersonStep
  <2> QED
    BY <1>1, <2>1, PersonInit, PTL DEF Spec
<1> QED
  BY <1>2, <1>3

-----------------------------------------------------------------------------
(* Every decision takes effect *)

\* A lone decision under way is stamped after everything in the history.
StampedLast ==
    Serial => \A r \in Requests :
        work[r].phase \in {"stamped", "resolved"} =>
            \A i \in DOMAIN history[work[r].on] :
                history[work[r].on][i].at <= work[r].at

LEMMA StampedLastStep ==
    CacheInv /\ PersonInv /\ StampedLast /\ [Next]_vars => StampedLast'
<1> SUFFICES ASSUME CacheInv, PersonInv, StampedLast, [Next]_vars, Serial,
                    NEW r \in Requests, work'[r].phase \in {"stamped", "resolved"}
             PROVE  \A i \in DOMAIN history'[work'[r].on] :
                       history'[work'[r].on][i].at <= work'[r].at
  BY DEF StampedLast
<1> USE DEF CacheInv
<1>1. ASSUME UNCHANGED history, work'[r].on = work[r].on,
             \/ work[r].phase \in {"stamped", "resolved"} /\ work'[r].at = work[r].at
             \/ work'[r].at = clock /\ work[r].on \in Mappings
      PROVE  \A i \in DOMAIN history'[work'[r].on] :
                history'[work'[r].on][i].at <= work'[r].at
  BY <1>1 DEF StampedLast, PersonInv, NotAhead
<1>2. CASE Start \/ Crash
  <2>1. work'[r].phase = "idle"
    BY <1>2 DEF Start, Crash, TypeOK, Idle
  <2> QED
    BY <2>1
<1>3. CASE Tick \/ UNCHANGED vars
  BY <1>1, <1>3 DEF Tick, vars
<1>4. ASSUME NEW q \in Requests, Step(q)
      PROVE  \A i \in DOMAIN history'[work'[r].on] :
                history'[work'[r].on][i].at <= work'[r].at
  <2>1. CASE q # r
    <3>1. work'[r] = work[r]
      BY <1>4, <2>1 DEF Step, DecideBegin, MapBegin, Take, Stamp, ReadHistory,
                        DecideCommit, MapCheck, MapCommit, Goes, TypeOK
    <3>2. InFlight(r) /\ ~InFlight(q)
      BY <2>1, <3>1 DEF Alone, InFlight
    <3>3. UNCHANGED history
      BY <1>4, <3>2 DEF Step, DecideBegin, MapBegin, Stamp, ReadHistory,
                        DecideCommit, MapCheck, MapCommit, InFlight
    <3> QED
      BY <1>1, <3>1, <3>3
  <2>2. CASE q = r /\ Stamp(r)
    BY <1>1, <2>2 DEF Stamp, Goes, TypeOK, Works
  <2>3. CASE q = r /\ ReadHistory(r)
    BY <1>1, <2>3 DEF ReadHistory, Goes, TypeOK, Works
  <2>4. CASE q = r /\ ~Stamp(r) /\ ~ReadHistory(r)
    <3>1. ASSUME NEW l \in Locations, MapCheck(r, l) PROVE FALSE
      BY <3>1 DEF MapCheck, Goes, TypeOK, Works
    <3>2. ASSUME NEW m \in Mappings, NEW d \in Decisions, DecideBegin(r, m, d)
          PROVE  FALSE
      BY <3>2 DEF DecideBegin, Take, Goes, Idle, TypeOK
    <3>3. ASSUME NEW hits \in SUBSET Locations, MapBegin(r, hits) PROVE FALSE
      BY <3>3 DEF MapBegin, Take, Goes, Idle, TypeOK
    <3>4. CASE DecideCommit(r) \/ MapCommit(r)
      BY <3>4 DEF DecideCommit, MapCommit, Goes, Idle, TypeOK
    <3> QED
      BY <1>4, <2>4, <3>1, <3>2, <3>3, <3>4 DEF Step
  <2> QED
    BY <1>4, <2>1, <2>2, <2>3, <2>4
<1> QED
  BY <1>2, <1>3, <1>4 DEF Next

\* An event that is not before the others is the state.
LEMMA NewestCounts ==
    ASSUME NEW h \in Seq(Events), NEW e \in Events,
           \A i \in DOMAIN h : h[i].at <= e.at
    PROVE  Resolve(Append(h, e)) = e.decision
<1> DEFINE g == Append(h, e)
           n == Len(h) + 1
<1>1. /\ DOMAIN g = 1..n /\ DOMAIN h = 1..(n - 1) /\ n \in Nat \ {0}
      /\ g[n] = e /\ g # <<>>
      /\ \A j \in DOMAIN h : g[j] = h[j]
  OBVIOUS
<1>2. \A j \in DOMAIN g : g[j].at \in Nat
  <2>1. g \in Seq(Events)
    OBVIOUS
  <2>2. \A j \in DOMAIN g : g[j] \in Events
    BY <2>1
  <2> QED
    BY <2>2, DecisionAssumption DEF Events, Instants
<1> DEFINE k == Latest(g)
<1> HIDE DEF g, n, k
<1>3. LatestAt(g, n)
  BY <1>1, <1>2 DEF LatestAt
<1>4. LatestAt(g, k)
  BY <1>3, LatestIs DEF k
<1>5. k = n
  BY <1>1, <1>2, <1>3, <1>4 DEF LatestAt
<1> QED
  BY <1>1, <1>5 DEF Resolve, g, k

LEMMA EffectOfStep ==
    Serial /\ CacheInv /\ PersonInv /\ StampedLast /\ [Next]_vars =>
        \A m \in Mappings : Len(history'[m]) > Len(history[m]) =>
            (verified'[m] <=> history'[m][Len(history'[m])].decision = "verified")
<1> SUFFICES ASSUME Serial, CacheInv, PersonInv, StampedLast, [Next]_vars,
                    NEW m \in Mappings, Len(history'[m]) > Len(history[m])
             PROVE  verified'[m] <=> history'[m][Len(history'[m])].decision = "verified"
  OBVIOUS
<1> USE DEF CacheInv
<1>1. history'[m] # history[m]
  BY DEF TypeOK
<1>2. CASE Start
  <2>1. history'[m] = <<[decision |-> "verified", at |-> clock, actor |-> "system"]>>
        /\ verified[m] /\ UNCHANGED verified
    BY <1>1, <1>2 DEF Start, TypeOK
  <2> QED
    BY <2>1
<1>3. ASSUME NEW r \in Requests, DecideCommit(r)
      PROVE  verified'[m] <=> history'[m][Len(history'[m])].decision = "verified"
  <2>1. /\ work[r].phase = "resolved" /\ work[r].on = m
        /\ history'[m] = Append(history[m], Event(r))
        /\ verified' = IF work[r].value = work[r].loaded THEN verified
                       ELSE [verified EXCEPT ![m] = work[r].value]
    BY <1>1, <1>3 DEF DecideCommit, TypeOK
  <2>2. Event(r) \in Events /\ history[m] \in Seq(Events)
    BY <2>1 DEF TypeOK, Works, Events, Event
  <2>3. \A i \in DOMAIN history[m] : history[m][i].at <= Event(r).at
    BY <2>1 DEF StampedLast, Event
  <2>4. Resolve(Append(history[m], Event(r))) = Event(r).decision
    BY <2>2, <2>3, NewestCounts
  <2>5. history'[m][Len(history'[m])] = Event(r)
    BY <2>1, <2>2
  <2>6. /\ work[r].loaded = verified[m]
        /\ work[r].value = (Event(r).decision = "verified")
    BY <2>1, <2>4 DEF Fresh
  <2> QED
    BY <2>1, <2>5, <2>6 DEF TypeOK
<1>4. Start \/ \E r \in Requests : DecideCommit(r)
  BY <1>1 DEF Next, vars, Crash, Tick, Step, DecideBegin, MapBegin, Stamp,
              ReadHistory, MapCheck, MapCommit
<1> QED
  BY <1>2, <1>3, <1>4

\* With one request at a time and a clock that is not set back, the cache says
\* right after every decision what that decision said (verify_mapping,
\* _record_mapping_decision).
THEOREM DecisionsTakeEffect ==
    Serial /\ ~ClockStepsBack => (Spec => DecisionTakesEffect)
<1> SUFFICES ASSUME Serial, ~ClockStepsBack PROVE Spec => DecisionTakesEffect
  OBVIOUS
<1> DEFINE Inv == CacheInv /\ PersonInv /\ StampedLast
           Effect == \A m \in Mappings : Len(history'[m]) > Len(history[m]) =>
                        (verified'[m] <=> history'[m][Len(history'[m])].decision = "verified")
<1>1. Init => Inv
  <2>1. Init => StampedLast
    BY DEF Init, StampedLast, Idle
  <2> QED
    BY <2>1, CacheInit, PersonInit
<1>2. Inv /\ [Next]_vars => Inv'
  BY CacheStep, PersonStep, StampedLastStep
<1>3. Inv /\ [Next]_vars => Effect
  BY EffectOfStep
<1>4. DecisionTakesEffect <=> [][Effect]_vars
  BY DEF DecisionTakesEffect
<1> HIDE DEF Inv, Effect
<1> QED
  BY <1>1, <1>2, <1>3, <1>4, PTL DEF Spec
=============================================================================
