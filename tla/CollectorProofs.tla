--------------------------- MODULE CollectorProofs ---------------------------
(***************************************************************************)
(* Theorems about Collector, for every set of publications and threads and *)
(* every number of midnights and rows.                                     *)
(***************************************************************************)
EXTENDS Collector, SequenceTheorems, TLAPS

Jobs == [phase : Phases, since : Days, first : BOOLEAN, late : BOOLEAN,
         found : SUBSET Items, item : Items \union {None}, new : Seq(Items),
         rows : SUBSET Nat, texts : SUBSET Nat]

\* TypeOK with the whole record of a thread.
Typed == TypeOK /\ job \in [Collectors -> Jobs]

-----------------------------------------------------------------------------
(* The operators *)

\* Seoul's date is the later one, and UTC has reached it one midnight on.
LEMMA Dates ==
    ASSUME NEW t \in Nat
    PROVE  /\ Utc(t) \in Nat /\ Kst(t) \in Nat
           /\ Utc(t) <= Kst(t)
           /\ Utc(t + 1) = Kst(t)
           /\ Utc(t) <= Utc(t + 1)
           /\ Kst(t) <= Kst(t + 1)
  BY DEF Utc, Kst

LEMMA DatesInRange ==
    ASSUME NEW t \in 0..LastTick
    PROVE  Utc(t) \in Days /\ Kst(t) \in Days
  BY CollectorAssumption DEF Utc, Kst, Days

LEMMA IdleTyped == Idle \in Jobs
<1>1. 0 \in Days
  BY CollectorAssumption DEF Days, Kst
<1> QED
  BY <1>1 DEF Idle, Jobs, Phases

\* The rows that a commit adds, and the ones that were there.
WithNew(old, new) ==
    old \o [n \in DOMAIN new |-> [item |-> new[n], text |-> FALSE]]

LEMMA RowsAdded ==
    ASSUME NEW old \in Seq(Change), NEW new \in Seq(Items)
    PROVE  /\ WithNew(old, new) \in Seq(Change)
           /\ Len(WithNew(old, new)) = Len(old) + Len(new)
           /\ DOMAIN WithNew(old, new) = 1..(Len(old) + Len(new))
           /\ \A n \in DOMAIN old : WithNew(old, new)[n] = old[n]
           /\ \A n \in DOMAIN WithNew(old, new) \ DOMAIN old :
                 \E m \in DOMAIN new :
                    n = Len(old) + m /\ WithNew(old, new)[n].item = new[m]
           /\ \A m \in DOMAIN new :
                 \E n \in DOMAIN WithNew(old, new) \ DOMAIN old :
                    WithNew(old, new)[n].item = new[m]
<1> DEFINE all == WithNew(old, new)
<1> DEFINE add == [n \in DOMAIN new |-> [item |-> new[n], text |-> FALSE]]
<1>1. /\ DOMAIN old = 1..Len(old) /\ DOMAIN new = 1..Len(new)
      /\ Len(old) \in Nat /\ Len(new) \in Nat
  BY LenProperties
<1>2. \A n \in DOMAIN new : [item |-> new[n], text |-> FALSE] \in Change
  BY DEF Change
<1>3. add \in [1..Len(new) -> Change]
  BY <1>1, <1>2
<1>4. add \in Seq(Change)
  BY <1>1, <1>3, SeqDef
<1>5. Len(add) = Len(new)
  BY <1>1, <1>3, <1>4, LenProperties
<1>6. \A n \in DOMAIN new : add[n] = [item |-> new[n], text |-> FALSE]
  OBVIOUS
<1>7. all = old \o add
  BY DEF WithNew
<1> HIDE DEF add, all
<1>8. /\ all \in Seq(Change)
      /\ Len(all) = Len(old) + Len(add)
      /\ \A n \in 1..Len(old) + Len(add) :
            all[n] = IF n <= Len(old) THEN old[n] ELSE add[n - Len(old)]
  BY <1>4, <1>7, ConcatProperties
<1>9. DOMAIN all = 1..(Len(old) + Len(new))
  BY <1>5, <1>8, LenProperties
<1>10. \A n \in DOMAIN old : all[n] = old[n]
  BY <1>1, <1>5, <1>8
<1>11. ASSUME NEW n \in Int, NEW m \in DOMAIN new, n = Len(old) + m
       PROVE  /\ n \in DOMAIN all \ DOMAIN old
              /\ all[n].item = new[m]
  <2>1. n \in 1..Len(old) + Len(add) /\ ~(n <= Len(old)) /\ n - Len(old) = m
    BY <1>1, <1>5, <1>11
  <2>2. all[n] = add[m]
    BY <1>8, <2>1
  <2>3. all[n].item = new[m]
    <3>1. add[m] = [item |-> new[m], text |-> FALSE]
      BY <1>6, <1>11
    <3> QED
      BY <2>2, <3>1
  <2> QED
    BY <1>1, <1>5, <1>9, <2>1, <2>3
<1>12. ASSUME NEW n \in DOMAIN all \ DOMAIN old
       PROVE  \E m \in DOMAIN new : n = Len(old) + m /\ all[n].item = new[m]
  <2> DEFINE m == n - Len(old)
  <2>1. n \in Int /\ m \in DOMAIN new /\ n = Len(old) + m
    BY <1>1, <1>9
  <2> HIDE DEF m
  <2>2. all[n].item = new[m]
    BY <1>11, <2>1
  <2> QED
    BY <2>1, <2>2
<1>13. ASSUME NEW m \in DOMAIN new
       PROVE  \E n \in DOMAIN all \ DOMAIN old : all[n].item = new[m]
  <2> DEFINE n == Len(old) + m
  <2>1. n \in Int
    BY <1>1
  <2> HIDE DEF n
  <2>2. n = Len(old) + m
    BY DEF n
  <2> QED
    BY <1>11, <2>1, <2>2
<1> QED
  BY <1>5, <1>8, <1>9, <1>10, <1>12, <1>13 DEF all

\* A commit stores the rows of the thread.
LEMMA NewRowsStored ==
    ASSUME Typed, NEW r \in Collectors, StoreCommit(r)
    PROVE  /\ changes' = WithNew(changes, job[r].new)
           /\ \A m \in DOMAIN job[r].new :
                 \E n \in DOMAIN changes' : changes'[n].item = job[r].new[m]
<1> DEFINE all == WithNew(changes, job[r].new)
<1>1. changes \in Seq(Change) /\ job[r].new \in Seq(Items)
  BY DEF Typed, TypeOK
<1>2. changes' = all
  BY DEF StoreCommit, WithNew
<1>3. \A m \in DOMAIN job[r].new :
         \E n \in DOMAIN all \ DOMAIN changes : all[n].item = job[r].new[m]
  BY <1>1, RowsAdded
<1> HIDE DEF all
<1> QED
  BY <1>2, <1>3 DEF all

\* Filling in texts changes no row's publication.
LEMMA TextsStored ==
    ASSUME changes \in Seq(Change), NEW rows
    PROVE  /\ WithTexts(rows) \in Seq(Change)
           /\ DOMAIN WithTexts(rows) = DOMAIN changes
           /\ \A n \in DOMAIN changes :
                 /\ WithTexts(rows)[n].item = changes[n].item
                 /\ WithTexts(rows)[n].text = (changes[n].text \/ n \in rows)
<1>1. DOMAIN changes = 1..Len(changes) /\ Len(changes) \in Nat
  BY LenProperties
<1>2. ASSUME NEW n \in DOMAIN changes
      PROVE  /\ WithTexts(rows)[n] \in Change
             /\ WithTexts(rows)[n].item = changes[n].item
             /\ WithTexts(rows)[n].text = (changes[n].text \/ n \in rows)
  <2>1. changes[n] \in Change
    BY <1>1, <1>2, ElementOfSeq
  <2>2. WithTexts(rows)[n] = [changes[n] EXCEPT !.text = @ \/ n \in rows]
    BY <1>2 DEF WithTexts
  <2> QED
    BY <2>1, <2>2 DEF Change
<1>3. DOMAIN WithTexts(rows) = DOMAIN changes
  BY DEF WithTexts
<1>4. WithTexts(rows) \in [1..Len(changes) -> Change]
  <2>1. WithTexts(rows) = [n \in 1..Len(changes) |-> WithTexts(rows)[n]]
    BY <1>1 DEF WithTexts
  <2> QED
    BY <1>1, <1>2, <2>1
<1>5. WithTexts(rows) \in Seq(Change)
  BY <1>1, <1>4, SeqDef
<1> QED
  BY <1>2, <1>3, <1>5

-----------------------------------------------------------------------------
(* Type correctness *)

LEMMA InitTyped == Init => Typed
<1> SUFFICES ASSUME Init PROVE Typed
  OBVIOUS
<1>1. 0 \in 0..LastTick /\ <<>> \in Seq(Change)
  BY CollectorAssumption, EmptySeq
<1>2. \A r \in Collectors : job[r] = Idle
  BY DEF Init
<1> QED
  BY <1>1, <1>2, IdleTyped DEF Init, Typed, TypeOK, Idle, Jobs

\* One thread moves and keeps to the types.
LEMMA GoesTyped ==
    ASSUME Typed, NEW r \in Collectors, NEW next \in Jobs, Goes(r, next)
    PROVE  /\ job' \in [Collectors -> Jobs]
           /\ job'[r] = next
           /\ \A q \in Collectors \ {r} : job'[q] = job[q]
  BY DEF Typed, Goes

\* Midnight changes nothing of a thread but that it is late.
LEMMA LateTyped ==
    ASSUME NEW j \in Jobs, NEW k, k = j \/ k = [j EXCEPT !.late = TRUE]
    PROVE  /\ k \in Jobs
           /\ k.phase = j.phase /\ k.since = j.since /\ k.found = j.found
           /\ k.item = j.item /\ k.new = j.new /\ k.rows = j.rows /\ k.texts = j.texts
  BY DEF Jobs

LEMMA StepTyped == Typed /\ [Next]_vars => Typed'
<1> SUFFICES ASSUME Typed, [Next]_vars PROVE Typed'
  OBVIOUS
<1> USE DEF Typed
<1>0. /\ clock \in Nat
      /\ changes \in Seq(Change)
      /\ DOMAIN changes = 1..Len(changes) /\ Len(changes) \in Nat
      /\ 0 \in Days
  BY CollectorAssumption, LenProperties DEF TypeOK, Days, Kst
<1>1. ASSUME NEW i \in Items, Publish(i) PROVE Typed'
  BY <1>1, DatesInRange DEF Publish, TypeOK
<1>2. CASE Midnight
  <2>1. clock + 1 \in 0..LastTick
    BY <1>2, CollectorAssumption DEF Midnight, TypeOK
  <2>3. \A r \in Collectors :
           /\ job'[r] \in Jobs
           /\ job'[r].phase = job[r].phase /\ job'[r].since = job[r].since
           /\ job'[r].found = job[r].found /\ job'[r].item = job[r].item
           /\ job'[r].new = job[r].new
           /\ job'[r].rows = job[r].rows /\ job'[r].texts = job[r].texts
    <3> TAKE r \in Collectors
    <3>1. PICK next : next = job'[r]
      OBVIOUS
    <3>2. job[r] \in Jobs /\ (next = job[r] \/ next = [job[r] EXCEPT !.late = TRUE])
      BY <1>2, <3>1 DEF Midnight
    <3> QED
      BY <3>1, <3>2, LateTyped
  <2>2. job' \in [Collectors -> Jobs]
    BY <1>2, <2>3 DEF Midnight
  <2> QED
    BY <1>2, <2>1, <2>2, <2>3 DEF Midnight, TypeOK
<1>3. ASSUME NEW r \in Collectors,
             \/ Step(r) \/ LawsFail(r) \/ SkipRules(r)
             \/ \E n \in DOMAIN changes : SkipText(r, n)
      PROVE  Typed'
  <2> DEFINE Fits(next, rows) ==
        /\ next \in Jobs
        /\ next.rows \union next.texts \subseteq rows
        /\ next.phase = "inserting" => next.item \in Items
  <2>0. job[r] \in Jobs
    OBVIOUS
  <2>1. ASSUME NEW next, Fits(next, DOMAIN changes), Goes(r, next),
               lock' \in Collectors \union {None},
               \A q \in Collectors \ {r} : job[q].new # <<>> => lock' = q,
               next.new # <<>> => lock' = r,
               UNCHANGED <<clock, day, changes, lastSync>>
        PROVE  Typed'
    <3>1. /\ job' \in [Collectors -> Jobs]
          /\ job'[r] = next
          /\ \A q \in Collectors \ {r} : job'[q] = job[q]
      BY <2>1, GoesTyped
    <3> QED
      BY <2>1, <3>1 DEF TypeOK, Jobs
  <2>2. CASE CollectBegin(r)
    <3> DEFINE next == [Idle EXCEPT !.phase = "laws",
                                    !.since = IF lastSync = None THEN 0 ELSE lastSync,
                                    !.first = lastSync = None]
    <3>1. /\ next \in Jobs
          /\ next.rows = {} /\ next.texts = {} /\ next.phase = "laws" /\ next.new = <<>>
      <4>1. (IF lastSync = None THEN 0 ELSE lastSync) \in Days
        BY <1>0 DEF TypeOK
      <4>2. (lastSync = None) \in BOOLEAN
        OBVIOUS
      <4>3. next \in Jobs
        BY <4>1, <4>2, IdleTyped DEF Jobs, Phases
      <4> QED
        BY <4>3 DEF Idle
    <3>2. Goes(r, next) /\ UNCHANGED <<clock, day, changes, lastSync, lock>>
      BY <2>2 DEF CollectBegin
    <3> HIDE DEF next
    <3> QED
      BY <2>1, <3>1, <3>2 DEF TypeOK
  <2>3. CASE SearchLaws(r)
    <3>0. PICK found \in Listed(r, Items \ Rules) :
             Goes(r, [job[r] EXCEPT !.phase = "rules", !.found = found])
      BY <2>3 DEF SearchLaws
    <3> DEFINE next == [job[r] EXCEPT !.phase = "rules", !.found = found]
    <3>1. found \subseteq Items
      BY DEF Listed, Window
    <3>2. /\ next \in Jobs
          /\ next.rows = job[r].rows /\ next.texts = job[r].texts
          /\ next.phase = "rules" /\ next.new = job[r].new
      BY <2>0, <3>1 DEF Jobs, Phases
    <3>3. Goes(r, next) /\ UNCHANGED <<clock, day, changes, lastSync, lock>>
      BY <2>3, <3>0 DEF SearchLaws
    <3> HIDE DEF next
    <3> QED
      BY <2>1, <3>2, <3>3 DEF TypeOK
  <2>4. CASE SearchRules(r)
    <3>0. PICK found \in Listed(r, Rules) :
             Goes(r, [job[r] EXCEPT !.phase = "storing", !.found = @ \union found])
      BY <2>4 DEF SearchRules
    <3> DEFINE next == [job[r] EXCEPT !.phase = "storing",
                                      !.found = @ \union found]
    <3>1. found \subseteq Items
      BY CollectorAssumption DEF Listed, Window
    <3>2. /\ next \in Jobs
          /\ next.rows = job[r].rows /\ next.texts = job[r].texts
          /\ next.phase = "storing" /\ next.new = job[r].new
      BY <2>0, <3>1 DEF Jobs, Phases
    <3>3. Goes(r, next) /\ UNCHANGED <<clock, day, changes, lastSync, lock>>
      BY <2>4, <3>0 DEF SearchRules
    <3> HIDE DEF next
    <3> QED
      BY <2>1, <3>2, <3>3 DEF TypeOK
  <2>5. CASE SkipRules(r)
    BY <2>0, <2>1, <2>5 DEF SkipRules, TypeOK, Jobs, Phases
  <2>6. ASSUME NEW i \in Items, CheckItem(r, i) PROVE Typed'
    <3> DEFINE known == [job[r] EXCEPT !.found = @ \ {i}]
               added == [job[r] EXCEPT !.phase = "inserting", !.item = i, !.found = @ \ {i}]
    <3>1. /\ known \in Jobs
          /\ known.rows = job[r].rows /\ known.texts = job[r].texts
          /\ known.phase = job[r].phase /\ known.new = job[r].new
      BY <2>0 DEF Jobs
    <3>2. /\ added \in Jobs
          /\ added.rows = job[r].rows /\ added.texts = job[r].texts
          /\ added.item = i /\ added.new = job[r].new
      BY <2>0 DEF Jobs, Phases
    <3>3. /\ Goes(r, known) \/ Goes(r, added)
          /\ job[r].phase = "storing"
          /\ UNCHANGED <<clock, day, changes, lastSync, lock>>
      BY <2>6 DEF CheckItem
    <3> HIDE DEF known, added
    <3> QED
      BY <2>1, <3>1, <3>2, <3>3 DEF TypeOK
  <2>7. CASE InsertItem(r)
    <3> DEFINE next == [job[r] EXCEPT !.phase = "storing", !.item = None,
                                      !.new = Append(@, job[r].item)]
    <3>1. Append(job[r].new, job[r].item) \in Seq(Items)
      BY <2>7 DEF InsertItem, TypeOK
    <3>2. /\ next \in Jobs
          /\ next.rows = job[r].rows /\ next.texts = job[r].texts
          /\ next.phase = "storing"
      BY <2>0, <3>1 DEF Jobs, Phases
    <3>3. Goes(r, next) /\ UNCHANGED <<clock, day, changes, lastSync>> /\ lock' = r
      BY <2>7 DEF InsertItem
    <3>4. \A q \in Collectors \ {r} : job[q].new = <<>>
      BY <2>7, CollectorAssumption DEF InsertItem, MayWrite, TypeOK
    <3> HIDE DEF next
    <3> QED
      BY <2>1, <3>2, <3>3, <3>4 DEF TypeOK
  <2>8. CASE LawsFail(r) \/ WriteFails(r)
    BY <2>1, <2>8, IdleTyped DEF LawsFail, WriteFails, Ends, TypeOK, Idle
  <2>9. ASSUME NEW n \in DOMAIN changes, FetchText(r, n) \/ SkipText(r, n)
        PROVE  Typed'
    BY <1>0, <2>0, <2>1, <2>9 DEF FetchText, SkipText, TypeOK, Jobs, Phases
  <2>10. CASE StoreCommit(r)
    <3> DEFINE rows == {Len(changes) + n : n \in DOMAIN job[r].new}
               next == [Idle EXCEPT !.phase = "details", !.rows = rows]
    <3>1. /\ changes' \in Seq(Change)
          /\ DOMAIN changes \subseteq DOMAIN changes'
          /\ rows \subseteq DOMAIN changes'
      <4>1. job[r].new \in Seq(Items)
        BY DEF TypeOK
      <4>2. changes' = WithNew(changes, job[r].new)
        BY <2>10 DEF StoreCommit, WithNew
      <4>3. /\ changes' \in Seq(Change)
            /\ DOMAIN changes' = 1..(Len(changes) + Len(job[r].new))
        BY <1>0, <4>1, <4>2, RowsAdded
      <4>4. DOMAIN job[r].new = 1..Len(job[r].new) /\ Len(job[r].new) \in Nat
        BY <4>1, LenProperties
      <4> QED
        BY <1>0, <4>3, <4>4
    <3>2. rows \subseteq Nat
      <4>1. DOMAIN changes' = 1..Len(changes')
        BY <3>1, LenProperties
      <4> QED
        BY <3>1, <4>1
    <3>3. /\ next \in Jobs
          /\ next.rows = rows /\ next.texts = {} /\ next.new = <<>>
          /\ next.phase = "details"
      BY <3>2, IdleTyped DEF Idle, Jobs, Phases
    <3>4. Goes(r, next) /\ UNCHANGED <<clock, day>> /\ lock' = None
      BY <2>10 DEF StoreCommit
    <3>5. \A q \in Collectors \ {r} : job[q].new = <<>>
      BY <2>10, CollectorAssumption DEF StoreCommit, MayWrite, TypeOK
    <3>6. lastSync' \in Days
      BY <2>10, DatesInRange DEF StoreCommit, TypeOK
    <3> HIDE DEF next, rows
    <3>7. /\ job' \in [Collectors -> Jobs]
          /\ job'[r] = next
          /\ \A q \in Collectors \ {r} : job'[q] = job[q]
      BY <3>3, <3>4, GoesTyped
    <3> QED
      BY <3>1, <3>3, <3>4, <3>5, <3>6, <3>7 DEF TypeOK, Jobs
  <2>11. CASE TextCommit(r)
    <3>1. changes' \in Seq(Change) /\ DOMAIN changes' = DOMAIN changes
      BY <1>0, <2>11, TextsStored DEF TextCommit
    <3>2. /\ Goes(r, Idle) /\ UNCHANGED <<clock, day, lastSync>>
          /\ lock' = IF lock = r THEN None ELSE lock
      BY <2>11 DEF TextCommit, Ends
    <3>3. /\ job' \in [Collectors -> Jobs]
          /\ job'[r] = Idle
          /\ \A q \in Collectors \ {r} : job'[q] = job[q]
      BY <3>2, GoesTyped, IdleTyped
    <3> QED
      BY <3>1, <3>2, <3>3, IdleTyped DEF TypeOK, Jobs, Idle
  <2> QED
    BY <1>3, <2>2, <2>3, <2>4, <2>5, <2>6, <2>7, <2>8, <2>9, <2>10, <2>11 DEF Step
<1>4. ASSUME NEW n \in DOMAIN changes, FetchDetail(n) PROVE Typed'
  <2>1. changes' \in Seq(Change) /\ DOMAIN changes' = DOMAIN changes
    BY <1>0, <1>4, TextsStored DEF FetchDetail
  <2> QED
    BY <1>4, <2>1 DEF FetchDetail, TypeOK
<1>5. CASE Crash
  <2>1. \A r \in Collectors : job'[r] = Idle
    BY <1>5 DEF Crash
  <2> QED
    BY <1>5, <2>1, IdleTyped DEF Crash, TypeOK, Idle, Jobs
<1>6. CASE UNCHANGED vars
  BY <1>6 DEF vars, TypeOK
<1> QED
  BY <1>1, <1>2, <1>3, <1>4, <1>5, <1>6 DEF Next

\* The state keeps its types.
THEOREM TypeCorrect == Spec => []TypeOK
<1>1. Typed => TypeOK
  BY DEF Typed
<1> QED
  BY InitTyped, StepTyped, <1>1, PTL DEF Spec

-----------------------------------------------------------------------------
(* The window *)

\* The publications that the window answers for: a search of the rules that
\* may fail excuses them.
Watched == IF RulesRefused THEN Uncrowded \ Rules ELSE Uncrowded

Searched(r, i) ==
    \/ job[r].phase \in {"storing", "inserting"}
    \/ job[r].phase = "rules" /\ i \notin Rules

\* Has a row, or is bound to have one when this collect commits, unless the
\* same law and day has one by then.
Holds(r, j) ==
    \/ j \in job[r].found
    \/ \E n \in DOMAIN job[r].new : job[r].new[n] = j
    \/ \E n \in DOMAIN changes : changes[n].item = j
    \/ job[r].phase = "inserting" /\ job[r].item = j

\* j is a publication of i's law in this collect's window.
Fits(r, i, j) == SameLaw(j, i) /\ day[j] # None /\ day[j] >= job[r].since

Accounted(r, i) == \E j \in Items : Holds(r, j) /\ Fits(r, i, j)

\* The earliest day on which an item was published that a search of this
\* collect has missed: Seoul's date when the collect began.
Earliest(r) == IF job[r].late THEN Utc(clock) ELSE Kst(clock)

SyncKept == lastSync # None => lastSync <= Utc(clock)

Sweeps(r) ==
    /\ job[r].since = 0 \/ (lastSync # None /\ job[r].since <= lastSync)
    /\ \A i \in Watched :
          Searched(r, i) /\ day[i] # None /\ day[i] >= job[r].since /\ ~Accounted(r, i)
             => day[i] >= Earliest(r)

Swept == SyncKept /\ \A r \in Collectors : Searching(r) => Sweeps(r)

LEMMA WatchedItems == Watched \subseteq Items
  BY DEF Watched, Uncrowded

\* A publication belongs to one law.
LEMMA SameLawRelation ==
    /\ \A i \in Items : SameLaw(i, i)
    /\ \A i, j : SameLaw(i, j) => SameLaw(j, i)
    /\ \A i, j, k : SameLaw(i, j) /\ SameLaw(j, k) => SameLaw(i, k)
<1>1. \A i \in Items : SameLaw(i, i)
  BY CollectorAssumption DEF SameLaw
<1>2. \A i, j : SameLaw(i, j) => SameLaw(j, i)
  BY DEF SameLaw
<1>3. ASSUME NEW i, NEW j, NEW k, SameLaw(i, j), SameLaw(j, k)
      PROVE  SameLaw(i, k)
  <2>1. PICK law \in Laws : i \in law /\ j \in law
    BY <1>3 DEF SameLaw
  <2>2. PICK other \in Laws : j \in other /\ k \in other
    BY <1>3 DEF SameLaw
  <2>3. law = other
    BY <2>1, <2>2, CollectorAssumption
  <2> QED
    BY <2>1, <2>2, <2>3 DEF SameLaw
<1> QED
  BY <1>1, <1>2, <1>3

LEMMA DaysAreNat == Days \subseteq Nat
  BY DEF Days

\* Rows stay, and name the same publication.
LEMMA RowsStay ==
    Typed /\ [Next]_vars =>
        \A n \in DOMAIN changes :
            n \in DOMAIN changes' /\ changes'[n].item = changes[n].item
<1> SUFFICES ASSUME Typed, [Next]_vars
             PROVE  \A n \in DOMAIN changes :
                       n \in DOMAIN changes' /\ changes'[n].item = changes[n].item
  OBVIOUS
<1>0. /\ changes \in Seq(Change)
      /\ DOMAIN changes = 1..Len(changes) /\ Len(changes) \in Nat
  BY LenProperties DEF Typed, TypeOK
<1>1. CASE UNCHANGED changes
  BY <1>1
<1>2. ASSUME NEW rows, changes' = WithTexts(rows)
      PROVE  \A n \in DOMAIN changes :
                n \in DOMAIN changes' /\ changes'[n].item = changes[n].item
  BY <1>0, <1>2, TextsStored
<1>3. ASSUME NEW r \in Collectors, StoreCommit(r)
      PROVE  \A n \in DOMAIN changes :
                n \in DOMAIN changes' /\ changes'[n].item = changes[n].item
  <2>1. job[r].new \in Seq(Items)
    BY DEF Typed, TypeOK
  <2>2. changes' = WithNew(changes, job[r].new)
    BY <1>3 DEF StoreCommit, WithNew
  <2> DEFINE all == WithNew(changes, job[r].new)
  <2>5. /\ DOMAIN all = 1..(Len(changes) + Len(job[r].new))
        /\ \A n \in DOMAIN changes : all[n] = changes[n]
    BY <1>0, <2>1, RowsAdded
  <2> HIDE DEF all
  <2>3. /\ DOMAIN changes' = 1..(Len(changes) + Len(job[r].new))
        /\ \A n \in DOMAIN changes : changes'[n] = changes[n]
    BY <2>2, <2>5 DEF all
  <2>4. Len(job[r].new) \in Nat
    BY <2>1, LenProperties
  <2> QED
    BY <1>0, <2>3, <2>4
<1>4. \/ UNCHANGED changes
      \/ \E rows : changes' = WithTexts(rows)
      \/ \E r \in Collectors : StoreCommit(r)
  BY DEF Next, vars, Step, Publish, Midnight, CollectBegin, SearchLaws, SearchRules,
         CheckItem, InsertItem, WriteFails, FetchText, TextCommit, LawsFail, SkipRules,
         SkipText, FetchDetail, Crash
<1> QED
  BY <1>1, <1>2, <1>3, <1>4

\* What a step leaves of the days, the rows, the clock and last_sync.
LEMMA Onwards ==
    Typed /\ SyncKept /\ [Next]_vars =>
        /\ \A i \in Items :
              \/ day'[i] = day[i]
              \/ day[i] = None /\ day'[i] = Kst(clock) /\ clock' = clock
        /\ clock' \in {clock, clock + 1}
        /\ \/ lastSync' = lastSync
           \/ /\ lastSync' = Utc(clock) /\ day' = day
              /\ \E r \in Collectors : StoreCommit(r)
        /\ lastSync # None => lastSync' # None /\ lastSync <= lastSync'
<1> SUFFICES ASSUME Typed, SyncKept, [Next]_vars
             PROVE  /\ \A i \in Items :
                          \/ day'[i] = day[i]
                          \/ day[i] = None /\ day'[i] = Kst(clock) /\ clock' = clock
                    /\ clock' \in {clock, clock + 1}
                    /\ \/ lastSync' = lastSync
                       \/ /\ lastSync' = Utc(clock) /\ day' = day
                          /\ \E r \in Collectors : StoreCommit(r)
                    /\ lastSync # None => lastSync' # None /\ lastSync <= lastSync'
  OBVIOUS
<1>0. /\ clock \in Nat
      /\ Utc(clock) \in Days
      /\ lastSync # None => lastSync \in Nat /\ lastSync <= Utc(clock)
  BY DatesInRange, DaysAreNat, CollectorAssumption DEF Typed, TypeOK, SyncKept
<1>1. \/ UNCHANGED <<day, clock>>
      \/ Midnight
      \/ \E i \in Items : Publish(i)
  BY DEF Next, vars, Step, CollectBegin, SearchLaws, SearchRules, CheckItem,
         InsertItem, StoreCommit, WriteFails, FetchText, TextCommit, LawsFail,
         SkipRules, SkipText, FetchDetail, Crash
<1>2. CASE Midnight
  BY <1>0, <1>2 DEF Midnight
<1>3. ASSUME NEW i \in Items, Publish(i)
      PROVE  /\ \A j \in Items :
                   \/ day'[j] = day[j]
                   \/ day[j] = None /\ day'[j] = Kst(clock) /\ clock' = clock
             /\ clock' = clock
  BY <1>3 DEF Publish, Typed, TypeOK
<1>4. lastSync' = lastSync \/ \E r \in Collectors : StoreCommit(r)
  BY DEF Next, vars, Step, Publish, Midnight, CollectBegin, SearchLaws, SearchRules,
         CheckItem, InsertItem, WriteFails, FetchText, TextCommit, LawsFail, SkipRules,
         SkipText, FetchDetail, Crash
<1>5. ASSUME NEW r \in Collectors, StoreCommit(r)
      PROVE  lastSync' = Utc(clock) /\ day' = day /\ lastSync' # None
  BY <1>0, <1>5, CollectorAssumption DEF StoreCommit
<1>6. lastSync # None => lastSync' # None /\ lastSync <= lastSync'
  BY <1>0, <1>4, <1>5
<1> QED
  BY <1>1, <1>2, <1>3, <1>4, <1>5, <1>6

\* What a step keeps of a window.
LEMMA FitsStays ==
    ASSUME Typed, SyncKept, [Next]_vars,
           NEW q \in Collectors, job'[q].since = job[q].since,
           NEW i \in Items, NEW j \in Items, Fits(q, i, j)
    PROVE  Fits(q, i, j)'
  BY Onwards DEF Fits, SameLaw

LEMMA Numbers ==
    Typed =>
        /\ clock \in Nat /\ Utc(clock) \in Nat /\ Kst(clock) \in Nat
        /\ Utc(clock) <= Kst(clock) /\ Utc(clock + 1) = Kst(clock)
        /\ Utc(clock) <= Utc(clock + 1)
        /\ \A i \in Items : day[i] # None => day[i] \in Nat
        /\ \A r \in Collectors : job[r] \in Jobs /\ job[r].since \in Nat
        /\ \A r \in Collectors : Earliest(r) \in Nat
        /\ \A r \in Collectors : Utc(clock) <= Earliest(r) /\ Earliest(r) <= Kst(clock)
        /\ lastSync # None => lastSync \in Nat
<1> SUFFICES ASSUME Typed
             PROVE  /\ clock \in Nat /\ Utc(clock) \in Nat /\ Kst(clock) \in Nat
                    /\ Utc(clock) <= Kst(clock) /\ Utc(clock + 1) = Kst(clock)
                    /\ Utc(clock) <= Utc(clock + 1)
                    /\ \A i \in Items : day[i] # None => day[i] \in Nat
                    /\ \A r \in Collectors : job[r] \in Jobs /\ job[r].since \in Nat
                    /\ \A r \in Collectors : Earliest(r) \in Nat
                    /\ \A r \in Collectors :
                          Utc(clock) <= Earliest(r) /\ Earliest(r) <= Kst(clock)
                    /\ lastSync # None => lastSync \in Nat
  OBVIOUS
<1>1. clock \in Nat
  BY CollectorAssumption DEF Typed, TypeOK
<1>2. /\ Utc(clock) \in Nat /\ Kst(clock) \in Nat
      /\ Utc(clock) <= Kst(clock) /\ Utc(clock + 1) = Kst(clock)
      /\ Utc(clock) <= Utc(clock + 1)
  BY <1>1, Dates
<1>3. /\ \A i \in Items : day[i] # None => day[i] \in Nat
      /\ \A r \in Collectors : job[r] \in Jobs /\ job[r].since \in Nat
      /\ lastSync # None => lastSync \in Nat
  BY DaysAreNat DEF Typed, TypeOK
<1>4. ASSUME NEW r \in Collectors
      PROVE  /\ Earliest(r) \in Nat
             /\ Utc(clock) <= Earliest(r) /\ Earliest(r) <= Kst(clock)
  BY <1>2 DEF Earliest
<1> QED
  BY <1>1, <1>2, <1>3, <1>4

\* A collect that does not move goes on sweeping.
LEMMA SweepsStay ==
    ASSUME Typed, SyncKept, [Next]_vars, Typed',
           NEW q \in Collectors, Sweeps(q), job'[q] = job[q], clock' = clock
    PROVE  Sweeps(q)'
<1>1. Earliest(q)' = Earliest(q)
  BY DEF Earliest
<1>2. job'[q].since = 0 \/ (lastSync' # None /\ job'[q].since <= lastSync')
  <2>1. CASE job[q].since = 0
    BY <2>1
  <2>2. CASE lastSync # None /\ job[q].since <= lastSync
    <3>1. lastSync' # None /\ lastSync <= lastSync'
      BY <2>2, Onwards
    <3>2. lastSync \in Nat /\ lastSync' \in Nat /\ job[q].since \in Nat
      BY <2>2, <3>1, DaysAreNat DEF Typed, TypeOK
    <3> QED
      BY <2>2, <3>1, <3>2
  <2> QED
    BY <2>1, <2>2 DEF Sweeps
<1>3. ASSUME NEW i \in Watched, Searched(q, i)', day'[i] # None,
             day'[i] >= job'[q].since, ~Accounted(q, i)'
      PROVE  day'[i] >= Earliest(q)'
  <2>1. Searched(q, i)
    BY <1>3 DEF Searched
  <2>2. \A j \in Items : Holds(q, j) => Holds(q, j)'
    BY RowsStay DEF Holds
  <2>3. ~Accounted(q, i)
    BY <1>3, <2>2, FitsStays, WatchedItems DEF Accounted
  <2>4. CASE day'[i] = day[i]
    BY <1>1, <1>3, <2>1, <2>3, <2>4 DEF Sweeps
  <2>5. CASE day'[i] = Kst(clock)
    BY <1>1, <2>5, Numbers
  <2> QED
    BY <2>4, <2>5, Onwards, WatchedItems
<1> QED
  BY <1>2, <1>3 DEF Sweeps

LEMMA SyncStays ==
    ASSUME Typed, SyncKept, [Next]_vars
    PROVE  SyncKept'
<1> SUFFICES ASSUME lastSync' # None
             PROVE  lastSync' <= Utc(clock')
  BY DEF SyncKept
<1>1. Utc(clock') \in Nat /\ Utc(clock) <= Utc(clock')
  BY Onwards, Numbers
<1>2. CASE lastSync' = lastSync
  BY <1>1, <1>2, Numbers DEF SyncKept
<1>3. CASE lastSync' = Utc(clock)
  BY <1>1, <1>3
<1> QED
  BY <1>2, <1>3, Onwards

\* What InsertItem adds to the rows of the session.
LEMMA Appended ==
    ASSUME NEW new \in Seq(Items), NEW e \in Items
    PROVE  \E last :
              /\ last \notin DOMAIN new
              /\ DOMAIN Append(new, e) = DOMAIN new \union {last}
              /\ Append(new, e)[last] = e
              /\ \A n \in DOMAIN new : Append(new, e)[n] = new[n]
<1> DEFINE all == Append(new, e)
<1>1. /\ DOMAIN new = 1..Len(new) /\ Len(new) \in Nat
      /\ DOMAIN all = 1..(Len(new) + 1)
      /\ \A n \in 1..Len(new) : all[n] = new[n]
  BY AppendProperties, LenProperties
<1>2. DOMAIN all = DOMAIN new \union {Len(new) + 1} /\ Len(new) + 1 \notin DOMAIN new
  BY <1>1
<1>3. all[Len(new) + 1] = e
  BY AppendProperties
<1> QED
  BY <1>1, <1>2, <1>3

\* A collect sweeps on: what its searches miss was published since it began.
LEMMA SweepsStep ==
    ASSUME Typed, [Next]_vars, Typed', Swept, NEW r \in Collectors,
           Step(r) \/ SkipRules(r), Searching(r)', ~StoreCommit(r)
    PROVE  Sweeps(r)'
<1>0. job[r] \in Jobs /\ job[r].since \in Nat
  BY Numbers
<1>1. CASE CollectBegin(r)
  <2>1. /\ job'[r].phase = "laws"
        /\ job'[r].since = IF lastSync = None THEN 0 ELSE lastSync
        /\ UNCHANGED lastSync
    BY <1>1, IdleTyped DEF CollectBegin, Goes, Typed, Idle
  <2>2. job'[r].since = 0 \/ (lastSync # None /\ job'[r].since <= lastSync)
    BY <2>1, Numbers DEF Swept, SyncKept
  <2>3. \A i \in Watched : ~Searched(r, i)'
    BY <2>1 DEF Searched
  <2> QED
    BY <2>1, <2>2, <2>3 DEF Sweeps
<1>2. ASSUME Searching(r), UNCHANGED <<clock, day, changes, lastSync>>,
             job'[r].since = job[r].since, job'[r].late = job[r].late,
             \A i \in Watched :
                Searched(r, i)' /\ day[i] # None /\ day[i] >= job[r].since =>
                   \/ Accounted(r, i)'
                   \/ Searched(r, i) /\ (Accounted(r, i) => Accounted(r, i)')
      PROVE  Sweeps(r)'
  <2>1. Sweeps(r)
    BY <1>2 DEF Swept
  <2>2. Earliest(r)' = Earliest(r)
    BY <1>2 DEF Earliest
  <2>3. ASSUME NEW i \in Watched, Searched(r, i)', day'[i] # None,
               day'[i] >= job'[r].since, ~Accounted(r, i)'
        PROVE  day'[i] >= Earliest(r)'
    <3>1. day[i] # None /\ day[i] >= job[r].since
      BY <1>2, <2>3
    <3>2. Searched(r, i) /\ ~Accounted(r, i)
      BY <1>2, <2>3, <3>1
    <3> QED
      BY <1>2, <2>1, <2>2, <3>1, <3>2 DEF Sweeps
  <2>4. job'[r].since = 0 \/ (lastSync' # None /\ job'[r].since <= lastSync')
    BY <1>2, <2>1 DEF Sweeps
  <2> QED
    BY <2>3, <2>4 DEF Sweeps
<1>3. ASSUME UNCHANGED <<day, changes>>, job'[r].since = job[r].since,
             \A j \in Items : Holds(r, j) => Holds(r, j)'
      PROVE  \A i \in Watched : Accounted(r, i) => Accounted(r, i)'
  BY <1>3 DEF Accounted, Fits, SameLaw
<1>4. ASSUME NEW kind, kind \subseteq Items, NEW found \in Listed(r, kind),
             UNCHANGED <<day, changes>>, job'[r].since = job[r].since,
             found \subseteq job'[r].found,
             NEW i \in Watched, i \in kind, day[i] # None, day[i] >= job[r].since
      PROVE  Accounted(r, i)'
  <2>1. PICK law \in Laws : i \in law
    BY <1>4, CollectorAssumption
  <2>2. law \notin Crowded /\ i \in Window(r, kind)
    BY <1>4, <2>1 DEF Watched, Uncrowded, Window
  <2>3. PICK j \in law : j \in found
    BY <1>4, <2>1, <2>2 DEF Listed
  <2>4. j \in Items /\ day[j] # None /\ day[j] >= job[r].since
    BY <1>4, <2>3 DEF Listed, Window
  <2>5. SameLaw(j, i)
    BY <2>1, <2>3 DEF SameLaw
  <2> QED
    BY <1>4, <2>3, <2>4, <2>5 DEF Accounted, Holds, Fits, SameLaw
<1>5. CASE SearchLaws(r)
  <2>1. PICK found \in Listed(r, Items \ Rules) :
           job'[r] = [job[r] EXCEPT !.phase = "rules", !.found = found]
    BY <1>5 DEF SearchLaws, Goes, Typed
  <2>2. /\ job[r].phase = "laws" /\ Searching(r)
        /\ job'[r].since = job[r].since /\ job'[r].late = job[r].late
        /\ job'[r].phase = "rules" /\ job'[r].found = found
        /\ UNCHANGED <<clock, day, changes, lastSync>>
    BY <1>0, <1>5, <2>1 DEF SearchLaws, Searching, Jobs
  <2>3. ASSUME NEW i \in Watched, Searched(r, i)', day[i] # None,
               day[i] >= job[r].since
        PROVE  Accounted(r, i)'
    <3>1. i \in Items \ Rules
      BY <2>2, <2>3, WatchedItems DEF Searched
    <3> QED
      BY <1>4, <2>2, <2>3, <3>1
  <2> QED
    BY <1>2, <2>2, <2>3
<1>6. CASE SearchRules(r)
  <2>1. PICK found \in Listed(r, Rules) :
           job'[r] = [job[r] EXCEPT !.phase = "storing", !.found = @ \union found]
    BY <1>6 DEF SearchRules, Goes, Typed
  <2>2. /\ job[r].phase = "rules" /\ Searching(r)
        /\ job'[r].since = job[r].since /\ job'[r].late = job[r].late
        /\ job'[r].phase = "storing" /\ job'[r].new = job[r].new
        /\ job'[r].found = job[r].found \union found
        /\ UNCHANGED <<clock, day, changes, lastSync>>
    BY <1>0, <1>6, <2>1 DEF SearchRules, Searching, Jobs
  <2>3. ASSUME NEW i \in Watched, i \in Rules, day[i] # None, day[i] >= job[r].since
        PROVE  Accounted(r, i)'
    BY <1>4, <2>2, <2>3, CollectorAssumption
  <2>4. \A i \in Watched : Accounted(r, i) => Accounted(r, i)'
    <3>1. \A j \in Items : Holds(r, j) => Holds(r, j)'
      BY <2>2 DEF Holds
    <3> QED
      BY <1>3, <2>2, <3>1
  <2>5. \A i \in Watched : i \notin Rules => Searched(r, i)
    BY <2>2 DEF Searched
  <2> QED
    BY <1>2, <2>2, <2>3, <2>4, <2>5
<1>7. CASE SkipRules(r)
  <2>1. /\ job[r].phase = "rules" /\ RulesRefused
        /\ job'[r] = [job[r] EXCEPT !.phase = "storing"]
        /\ UNCHANGED <<clock, day, changes, lastSync>>
    BY <1>7 DEF SkipRules, Goes, Typed
  <2>2. /\ Searching(r)
        /\ job'[r].since = job[r].since /\ job'[r].late = job[r].late
        /\ job'[r].phase = "storing" /\ job'[r].new = job[r].new
        /\ job'[r].found = job[r].found
    BY <1>0, <2>1 DEF Searching, Jobs
  <2>3. \A i \in Watched : Searched(r, i)
    BY <2>1 DEF Searched, Watched
  <2>4. \A i \in Watched : Accounted(r, i) => Accounted(r, i)'
    <3>1. \A j \in Items : Holds(r, j) => Holds(r, j)'
      BY <2>1, <2>2 DEF Holds
    <3> QED
      BY <1>3, <2>1, <2>2, <3>1
  <2> QED
    BY <1>2, <2>1, <2>2, <2>3, <2>4
<1>8. ASSUME NEW e \in Items, CheckItem(r, e) PROVE Sweeps(r)'
  <2>1. /\ job[r].phase = "storing"
        /\ job'[r] = IF Stored(e) \/ Added(r, e)
                     THEN [job[r] EXCEPT !.found = @ \ {e}]
                     ELSE [job[r] EXCEPT !.phase = "inserting", !.item = e,
                                         !.found = @ \ {e}]
        /\ UNCHANGED <<clock, day, changes, lastSync>>
    BY <1>8 DEF CheckItem, Goes, Typed
  <2>2. /\ Searching(r)
        /\ job'[r].since = job[r].since /\ job'[r].late = job[r].late
        /\ job'[r].new = job[r].new
        /\ job'[r].found = job[r].found \ {e}
        /\ \/ Stored(e) \/ Added(r, e)
           \/ job'[r].phase = "inserting" /\ job'[r].item = e
    BY <1>0, <2>1 DEF Searching, Jobs
  <2>3. \A i \in Watched : Searched(r, i)
    BY <2>1 DEF Searched
  <2>4. \A j \in Items : j # e /\ Holds(r, j) => Holds(r, j)'
    BY <2>1, <2>2 DEF Holds
  <2>5. \/ Holds(r, e)'
        \/ \E k \in Items : SameRow(k, e) /\ Holds(r, k)'
    <3>1. ASSUME Stored(e)
          PROVE  \E k \in Items : SameRow(k, e) /\ Holds(r, k)'
      <4>1. PICK n \in DOMAIN changes : SameRow(changes[n].item, e)
        BY <3>1 DEF Stored
      <4>2. changes[n].item \in Items
        <5>1. changes[n] \in Change
          BY LenProperties, ElementOfSeq DEF Typed, TypeOK
        <5> QED
          BY <5>1 DEF Change
      <4> QED
        BY <2>1, <4>1, <4>2 DEF Holds
    <3>2. ASSUME Added(r, e)
          PROVE  \E k \in Items : SameRow(k, e) /\ Holds(r, k)'
      <4>1. PICK n \in DOMAIN job[r].new : SameRow(job[r].new[n], e)
        BY <3>2 DEF Added
      <4>2. job[r].new[n] \in Items
        BY LenProperties, ElementOfSeq DEF Typed, TypeOK
      <4> QED
        BY <2>2, <4>1, <4>2 DEF Holds
    <3>3. job'[r].phase = "inserting" /\ job'[r].item = e => Holds(r, e)'
      BY DEF Holds
    <3> QED
      BY <2>2, <3>1, <3>2, <3>3
  <2>6. ASSUME NEW i \in Watched, Accounted(r, i)
        PROVE  Accounted(r, i)'
    <3>1. PICK j \in Items : Holds(r, j) /\ Fits(r, i, j)
      BY <2>6 DEF Accounted
    <3>2. \A k \in Items : SameRow(k, j) => Fits(r, i, k)
      BY <3>1, SameLawRelation DEF SameRow, Fits
    <3>3. Fits(r, i, j)
      BY <3>1
    <3>4. PICK k \in Items : Holds(r, k)' /\ Fits(r, i, k)
      BY <2>4, <2>5, <3>1, <3>2, <3>3
    <3>5. Fits(r, i, k)'
      BY <2>1, <2>2, <3>4 DEF Fits, SameLaw
    <3> QED
      BY <3>4, <3>5 DEF Accounted
  <2> QED
    BY <1>2, <2>1, <2>2, <2>3, <2>6
<1>9. CASE InsertItem(r)
  <2>1. /\ job[r].phase = "inserting"
        /\ job'[r] = [job[r] EXCEPT !.phase = "storing", !.item = None,
                                    !.new = Append(@, job[r].item)]
        /\ UNCHANGED <<clock, day, changes, lastSync>>
    BY <1>9 DEF InsertItem, Goes, Typed
  <2>2. /\ Searching(r)
        /\ job'[r].since = job[r].since /\ job'[r].late = job[r].late
        /\ job'[r].new = Append(job[r].new, job[r].item)
        /\ job'[r].found = job[r].found
    BY <1>0, <2>1 DEF Searching, Jobs
  <2>3. \A i \in Watched : Searched(r, i)
    BY <2>1 DEF Searched
  <2>4. job[r].new \in Seq(Items) /\ job[r].item \in Items
    BY <2>1 DEF Typed, TypeOK
  <2>5. \A i : i = job[r].item \/ (\E n \in DOMAIN job[r].new : job[r].new[n] = i)
                  => \E n \in DOMAIN job'[r].new : job'[r].new[n] = i
    <3> DEFINE all == Append(job[r].new, job[r].item)
    <3>1. PICK last : /\ last \notin DOMAIN job[r].new
                      /\ DOMAIN all = DOMAIN job[r].new \union {last}
                      /\ all[last] = job[r].item
                      /\ \A n \in DOMAIN job[r].new : all[n] = job[r].new[n]
      BY <2>4, Appended
    <3> HIDE DEF all
    <3> QED
      BY <2>2, <3>1 DEF all
  <2>6. \A j \in Items : Holds(r, j) => Holds(r, j)'
    BY <2>1, <2>2, <2>5 DEF Holds
  <2> QED
    BY <1>2, <1>3, <2>1, <2>2, <2>3, <2>6
<1>10. ~WriteFails(r) /\ ~TextCommit(r) /\ \A n \in DOMAIN changes : ~FetchText(r, n)
  <2>1. ~WriteFails(r) /\ ~TextCommit(r)
    BY DEF WriteFails, TextCommit, Ends, Goes, Typed, Searching, Idle
  <2>2. ASSUME NEW n \in DOMAIN changes, FetchText(r, n) PROVE FALSE
    BY <1>0, <2>2 DEF FetchText, Goes, Typed, Searching, Jobs
  <2> QED
    BY <2>1, <2>2
<1> QED
  BY <1>1, <1>5, <1>6, <1>7, <1>8, <1>9, <1>10 DEF Step

LEMMA SweptStep == Typed /\ Swept /\ [Next]_vars /\ Typed' => Swept'
<1> SUFFICES ASSUME Typed, Swept, [Next]_vars, Typed'
             PROVE  Swept'
  OBVIOUS
<1>0. SyncKept /\ SyncKept'
  BY SyncStays DEF Swept
<1>1. ASSUME UNCHANGED clock,
             \A q \in Collectors : job'[q] = job[q] \/ (Searching(q)' => Sweeps(q)')
      PROVE  Swept'
  <2>1. ASSUME NEW q \in Collectors, Searching(q)', job'[q] = job[q]
        PROVE  Sweeps(q)'
    BY <1>0, <1>1, <2>1, SweepsStay DEF Swept, Searching
  <2> QED
    BY <1>0, <1>1, <2>1 DEF Swept
<1>2. ASSUME NEW i \in Items, Publish(i) PROVE Swept'
  BY <1>1, <1>2 DEF Publish
<1>3. CASE Midnight
  <2>1. ASSUME NEW r \in Collectors, Searching(r)'
        PROVE  Sweeps(r)'
    <3>1. /\ Searching(r) /\ ~job[r].late
          /\ job'[r] = [job[r] EXCEPT !.late = TRUE]
          /\ clock' = clock + 1 /\ UNCHANGED <<day, changes, lastSync>>
      BY <1>3, <2>1 DEF Midnight, Searching
    <3>2. job[r] \in Jobs /\ Sweeps(r)
      BY <3>1 DEF Typed, Swept
    <3>3. /\ job'[r].since = job[r].since /\ job'[r].late
          /\ job'[r].new = job[r].new /\ job'[r].found = job[r].found
          /\ job'[r].phase = job[r].phase /\ job'[r].item = job[r].item
      BY <3>1, <3>2 DEF Jobs
    <3>4. Earliest(r)' = Earliest(r)
      BY <3>1, <3>3, Numbers DEF Earliest
    <3>5. \A i \in Watched :
             /\ Searched(r, i)' <=> Searched(r, i)
             /\ Accounted(r, i)' <=> Accounted(r, i)
      BY <3>1, <3>3 DEF Searched, Accounted, Holds, Fits, SameLaw
    <3> QED
      BY <3>1, <3>2, <3>3, <3>4, <3>5 DEF Sweeps
  <2> QED
    BY <1>0, <2>1 DEF Swept
<1>4. ASSUME NEW r \in Collectors, StoreCommit(r) PROVE Swept'
  <2>1. /\ clock' = clock /\ job'[r].phase = "details"
        /\ \A q \in Collectors : q # r => job'[q] = job[q]
    BY <1>4 DEF StoreCommit, Goes, Typed, Idle
  <2> QED
    BY <1>1, <2>1 DEF Searching
<1>5. ASSUME NEW r \in Collectors, Step(r) \/ SkipRules(r), ~StoreCommit(r)
      PROVE  Swept'
  <2>1. /\ UNCHANGED clock
        /\ \A q \in Collectors : q # r => job'[q] = job[q]
    BY <1>5 DEF Step, CollectBegin, SearchLaws, SearchRules, SkipRules, CheckItem,
                InsertItem, WriteFails, FetchText, TextCommit, Ends, Goes, Typed
  <2>2. Searching(r)' => Sweeps(r)'
    BY <1>5, SweepsStep
  <2> QED
    BY <1>1, <2>1, <2>2
<1>6. ASSUME NEW r \in Collectors,
             LawsFail(r) \/ \E n \in DOMAIN changes : SkipText(r, n)
      PROVE  Swept'
  <2>1. /\ UNCHANGED clock
        /\ \A q \in Collectors : q # r => job'[q] = job[q]
    BY <1>6 DEF LawsFail, SkipText, Ends, Goes, Typed
  <2>2. job'[r].phase \in {"idle", "details"}
    BY <1>6 DEF LawsFail, SkipText, Ends, Goes, Typed, Idle, Jobs
  <2> QED
    BY <1>1, <2>1, <2>2 DEF Searching
<1>7. ASSUME NEW n \in DOMAIN changes, FetchDetail(n) PROVE Swept'
  BY <1>1, <1>7 DEF FetchDetail
<1>8. CASE Crash
  <2>1. \A r \in Collectors : job'[r].phase = "idle"
    BY <1>8 DEF Crash, Idle
  <2> QED
    BY <1>1, <1>8, <2>1 DEF Crash, Searching
<1>9. CASE UNCHANGED vars
  BY <1>1, <1>9 DEF vars
<1> QED
  BY <1>2, <1>3, <1>4, <1>5, <1>6, <1>7, <1>8, <1>9 DEF Next

\* What last_sync moves past has been settled by the collect that moved it.
LEMMA SettledStep == Typed /\ Swept /\ [Next]_vars => NotMissed(Watched)
<1> SUFFICES ASSUME Typed, Swept, [Next]_vars,
                    NEW i \in Watched, ~Passed(i), Passed(i)'
             PROVE  \E r \in Collectors : Settles(r, i)
  BY DEF NotMissed
<1>0. SyncKept /\ i \in Items
  BY WatchedItems DEF Swept
<1>1. day'[i] # None /\ lastSync' # None /\ day'[i] < lastSync'
  BY DEF Passed
<1>2. lastSync' # lastSync
  <2>1. ASSUME lastSync' = lastSync
        PROVE  FALSE
    <3>1. lastSync # None /\ lastSync <= Utc(clock) /\ lastSync \in Nat
      BY <1>0, <1>1, <2>1, Numbers DEF SyncKept
    <3>2. CASE day'[i] = day[i]
      BY <1>1, <2>1, <3>2 DEF Passed
    <3>3. CASE day'[i] = Kst(clock)
      BY <1>1, <2>1, <3>1, <3>3, Numbers
    <3> QED
      BY <1>0, <3>2, <3>3, Onwards
  <2> QED
    BY <2>1
<1>3. PICK r \in Collectors : StoreCommit(r)
  BY <1>0, <1>2, Onwards
<1>4. /\ lastSync' = Utc(clock) /\ day' = day
      /\ job[r].phase = "storing" /\ job[r].found = {}
      /\ job'[r].phase = "details"
  BY <1>0, <1>2, <1>3, Onwards DEF StoreCommit, Goes, Typed, Idle
<1>5. Sweeps(r)
  BY <1>4 DEF Swept, Searching
<1>6. /\ day[i] # None /\ day[i] \in Nat /\ day[i] < Earliest(r)
      /\ lastSync = None \/ day[i] >= lastSync
  BY <1>0, <1>1, <1>4, Numbers DEF Passed
<1>7. day[i] >= job[r].since
  <2>1. CASE job[r].since = 0
    BY <1>6, <2>1
  <2>2. CASE lastSync # None /\ job[r].since <= lastSync
    BY <1>6, <2>2, Numbers
  <2> QED
    BY <1>5, <2>1, <2>2 DEF Sweeps
<1>8. Accounted(r, i)
  <2>1. Searched(r, i)
    BY <1>4 DEF Searched
  <2>2. ~(day[i] >= Earliest(r))
    BY <1>6, Numbers
  <2> QED
    BY <1>5, <1>6, <1>7, <2>1, <2>2 DEF Sweeps
<1>9. PICK j \in Items : Holds(r, j) /\ Fits(r, i, j)
  BY <1>8 DEF Accounted
<1>10. PICK n \in DOMAIN changes' : changes'[n].item = j
  <2>1. CASE \E n \in DOMAIN changes : changes[n].item = j
    BY <2>1, RowsStay
  <2>2. CASE \E m \in DOMAIN job[r].new : job[r].new[m] = j
    BY <1>3, <2>2, NewRowsStored
  <2> QED
    BY <1>4, <1>9, <2>1, <2>2 DEF Holds
<1> QED
  BY <1>4, <1>9, <1>10 DEF Settles, Fits

\* last_sync never moves past a law amended in the window without a row for
\* one of its amendments there, unless the law is not on the page.
THEOREM LawsKept == Spec => LawsNotMissed
<1>1. Init => Swept
  BY DEF Init, Swept, SyncKept, Searching, Idle
<1>2. Typed /\ Swept /\ [Next]_vars => [NotMissed(Uncrowded \ Rules)]_vars
  BY SettledStep DEF NotMissed, Watched
<1> QED
  BY InitTyped, StepTyped, SweptStep, <1>1, <1>2, PTL DEF Spec, LawsNotMissed

\* Nor past an administrative rule, as long as their search is not refused.
THEOREM AllKept == ASSUME ~RulesRefused PROVE Spec => NothingMissed
<1>1. Init => Swept
  BY DEF Init, Swept, SyncKept, Searching, Idle
<1>2. Typed /\ Swept /\ [Next]_vars => [NotMissed(Uncrowded)]_vars
  BY SettledStep DEF Watched
<1> QED
  BY InitTyped, StepTyped, SweptStep, <1>1, <1>2, PTL DEF Spec, NothingMissed

-----------------------------------------------------------------------------
(* One row per publication, when collects run one at a time *)

\* What a session is about to commit is neither stored nor there twice.
Fresh(r) ==
    /\ \A n \in DOMAIN job[r].new : ~Stored(job[r].new[n])
    /\ \A m, n \in DOMAIN job[r].new : SameRow(job[r].new[m], job[r].new[n]) => m = n
    /\ job[r].phase = "inserting" => ~Stored(job[r].item) /\ ~Added(r, job[r].item)

Alone ==
    \A q, r \in Collectors :
        q # r /\ job[q].phase # "idle" => job[r].phase = "idle"

\* What a row or a collect holds has been published.
Published ==
    /\ \A n \in DOMAIN changes : day[changes[n].item] # None
    /\ \A r \in Collectors, j \in Items : Searching(r) /\ Holds(r, j) => day[j] # None

OneAtATime ==
    /\ OneRowPerItem
    /\ Alone
    /\ Published
    /\ \A r \in Collectors : Searching(r) => Fresh(r)

\* Only the commit of a collect changes which publications have rows.
LEMMA SameRows ==
    ASSUME Typed, \/ UNCHANGED changes
                  \/ \E rows : changes' = WithTexts(rows)
    PROVE  /\ DOMAIN changes' = DOMAIN changes
           /\ \A n \in DOMAIN changes : changes'[n].item = changes[n].item
<1>1. changes \in Seq(Change)
  BY DEF Typed, TypeOK
<1> QED
  BY <1>1, TextsStored

LEMMA RowItems ==
    ASSUME Typed
    PROVE  /\ \A n \in DOMAIN changes : changes[n].item \in Items
           /\ \A r \in Collectors : \A n \in DOMAIN job[r].new : job[r].new[n] \in Items
<1>1. ASSUME NEW n \in DOMAIN changes PROVE changes[n].item \in Items
  <2>1. changes[n] \in Change
    BY LenProperties, ElementOfSeq DEF Typed, TypeOK
  <2> QED
    BY <2>1 DEF Change
<1>2. ASSUME NEW r \in Collectors, NEW n \in DOMAIN job[r].new
      PROVE  job[r].new[n] \in Items
  BY LenProperties, ElementOfSeq DEF Typed, TypeOK
<1> QED
  BY <1>1, <1>2

LEMMA CommitKeepsOneRow ==
    ASSUME Typed, OneAtATime, NEW r \in Collectors, StoreCommit(r)
    PROVE  /\ OneRowPerItem'
           /\ \A n \in DOMAIN changes' : day'[changes'[n].item] # None
<1> DEFINE new == job[r].new
           all == WithNew(changes, new)
<1>1. changes \in Seq(Change) /\ new \in Seq(Items)
  BY DEF Typed, TypeOK
<1>2. changes' = all /\ day' = day
  BY NewRowsStored DEF StoreCommit
<1>3. Fresh(r) /\ Searching(r)
  BY DEF OneAtATime, StoreCommit, Searching
<1>4. \A n \in DOMAIN all \ DOMAIN changes :
         \E m \in DOMAIN new : n = Len(changes) + m /\ all[n].item = new[m]
  BY <1>1, RowsAdded
<1>5. \A n \in DOMAIN changes : all[n] = changes[n]
  BY <1>1, RowsAdded
<1> HIDE DEF all
<1>6. ASSUME NEW m \in DOMAIN all, NEW n \in DOMAIN all,
             SameRow(all[m].item, all[n].item)
      PROVE  m = n
  <2>1. CASE m \in DOMAIN changes /\ n \in DOMAIN changes
    BY <1>5, <1>6, <2>1 DEF OneAtATime, OneRowPerItem
  <2>2. CASE m \in DOMAIN changes /\ n \notin DOMAIN changes
    BY <1>3, <1>4, <1>5, <1>6, <2>2 DEF Fresh, Stored
  <2>3. CASE m \notin DOMAIN changes /\ n \in DOMAIN changes
    <3>1. SameRow(all[n].item, all[m].item)
      BY <1>6, SameLawRelation DEF SameRow
    <3> QED
      BY <1>3, <1>4, <1>5, <2>3, <3>1 DEF Fresh, Stored
  <2>4. CASE m \notin DOMAIN changes /\ n \notin DOMAIN changes
    <3>1. PICK k \in DOMAIN new : m = Len(changes) + k /\ all[m].item = new[k]
      BY <1>4, <2>4
    <3>2. PICK l \in DOMAIN new : n = Len(changes) + l /\ all[n].item = new[l]
      BY <1>4, <2>4
    <3>3. k = l
      BY <1>3, <1>6, <3>1, <3>2 DEF Fresh
    <3> QED
      BY <3>1, <3>2, <3>3
  <2> QED
    BY <2>1, <2>2, <2>3, <2>4
<1>7. OneRowPerItem'
  BY <1>2, <1>6 DEF OneRowPerItem, SameRow, SameLaw
<1>8. ASSUME NEW n \in DOMAIN all PROVE day[all[n].item] # None
  <2>1. CASE n \in DOMAIN changes
    BY <1>5, <2>1 DEF OneAtATime, Published
  <2>2. CASE n \notin DOMAIN changes
    <3>1. PICK m \in DOMAIN new : all[n].item = new[m]
      BY <1>4, <2>2
    <3>2. new[m] \in Items /\ Holds(r, new[m])
      BY RowItems DEF Holds
    <3> QED
      BY <1>3, <3>1, <3>2 DEF OneAtATime, Published
  <2> QED
    BY <2>1, <2>2
<1> QED
  BY <1>2, <1>7, <1>8

LEMMA OneAtATimeStep ==
    Serial /\ Typed /\ OneAtATime /\ [Next]_vars => OneAtATime'
<1> SUFFICES ASSUME Serial, Typed, OneAtATime, [Next]_vars
             PROVE  OneAtATime'
  OBVIOUS
\* Which of two published items share a row does not change.
<1>0. ASSUME \/ UNCHANGED changes
             \/ \E rows : changes' = WithTexts(rows),
             \A i \in Items : day[i] # None => day'[i] = day[i]
      PROVE  /\ OneRowPerItem'
             /\ \A n \in DOMAIN changes' : day'[changes'[n].item] # None
             /\ \A i \in Items : day[i] # None => (Stored(i)' <=> Stored(i))
  <2>1. /\ DOMAIN changes' = DOMAIN changes
        /\ \A n \in DOMAIN changes :
              /\ changes'[n].item = changes[n].item
              /\ changes[n].item \in Items /\ day[changes[n].item] # None
              /\ day'[changes[n].item] = day[changes[n].item]
    BY <1>0, SameRows, RowItems DEF OneAtATime, Published
  <2>2. \A i, j : SameLaw(i, j)' <=> SameLaw(i, j)
    BY DEF SameLaw
  <2> QED
    BY <1>0, <2>1, <2>2 DEF OneAtATime, OneRowPerItem, Stored, SameRow
<1>1. ASSUME \/ UNCHANGED changes
             \/ \E rows : changes' = WithTexts(rows),
             UNCHANGED day,
             \A q \in Collectors :
                \/ job'[q].phase = "idle"
                \/ job[q].phase # "idle"
                \/ \A r \in Collectors : job[r].phase = "idle" /\ (q # r => job'[r] = job[r]),
             \A q \in Collectors :
                \/ ~Searching(q)'
                \/ Searching(q) /\ job'[q].phase = job[q].phase
                     /\ job'[q].new = job[q].new /\ job'[q].item = job[q].item
                     /\ job'[q].found = job[q].found
                \/ Fresh(q)' /\ \A j \in Items : Holds(q, j)' => day[j] # None
      PROVE  OneAtATime'
  <2>1. /\ OneRowPerItem'
        /\ \A n \in DOMAIN changes' : day'[changes'[n].item] # None
        /\ \A i \in Items : day[i] # None => (Stored(i)' <=> Stored(i))
    BY <1>0, <1>1
  <2>2. Alone'
    BY <1>1 DEF OneAtATime, Alone
  <2>3. ASSUME NEW q \in Collectors, Searching(q)'
        PROVE  Fresh(q)' /\ \A j \in Items : Holds(q, j)' => day'[j] # None
    <3>1. CASE Fresh(q)' /\ \A j \in Items : Holds(q, j)' => day[j] # None
      BY <1>1, <3>1
    <3>2. CASE /\ Searching(q) /\ job'[q].phase = job[q].phase
               /\ job'[q].new = job[q].new /\ job'[q].item = job[q].item
               /\ job'[q].found = job[q].found
      <4>1. \A j \in Items : Holds(q, j)' => day[j] # None
        <5>1. /\ DOMAIN changes' = DOMAIN changes
              /\ \A n \in DOMAIN changes : changes'[n].item = changes[n].item
          BY <1>1, SameRows
        <5> QED
          BY <3>2, <5>1 DEF Holds, OneAtATime, Published
      <4>2. \A n \in DOMAIN job[q].new : job[q].new[n] \in Items /\ Holds(q, job[q].new[n])
        BY RowItems DEF Holds
      <4>3. \A n \in DOMAIN job[q].new : ~Stored(job[q].new[n])'
        BY <2>1, <3>2, <4>2 DEF OneAtATime, Published, Fresh
      <4>4. job[q].phase = "inserting" => ~Stored(job[q].item)'
        <5>1. job[q].phase = "inserting" => job[q].item \in Items /\ Holds(q, job[q].item)
          BY DEF Typed, TypeOK, Holds
        <5> QED
          BY <2>1, <3>2, <5>1 DEF OneAtATime, Published, Fresh
      <4>5. \A i, j : SameRow(i, j)' <=> SameRow(i, j)
        BY <1>1 DEF SameRow, SameLaw
      <4>6. Fresh(q)
        BY <3>2 DEF OneAtATime
      <4>7. Fresh(q)'
        BY <3>2, <4>3, <4>4, <4>5, <4>6 DEF Fresh, Added
      <4> QED
        BY <1>1, <4>1, <4>7
    <3> QED
      BY <1>1, <2>3, <3>1, <3>2
  <2>4. Published'
    BY <2>1, <2>3 DEF Published
  <2> QED
    BY <2>1, <2>2, <2>3, <2>4 DEF OneAtATime
<1>2. ASSUME NEW i \in Items, Publish(i) PROVE OneAtATime'
  <2>1. /\ UNCHANGED <<changes, job>>
        /\ \A j \in Items : day[j] # None => day'[j] = day[j]
    BY <1>2 DEF Publish, Typed, TypeOK
  <2>2. /\ OneRowPerItem'
        /\ \A n \in DOMAIN changes' : day'[changes'[n].item] # None
        /\ \A j \in Items : day[j] # None => (Stored(j)' <=> Stored(j))
    BY <1>0, <2>1
  <2>3. Alone'
    BY <2>1 DEF OneAtATime, Alone
  <2>4. ASSUME NEW q \in Collectors, Searching(q)'
        PROVE  Fresh(q)' /\ \A j \in Items : Holds(q, j)' => day'[j] # None
    <3>1. Searching(q) /\ Fresh(q)
      BY <2>1, <2>4 DEF Searching, OneAtATime
    <3>2. \A j \in Items : Holds(q, j)' => day[j] # None /\ day'[j] # None
      BY <2>1, <3>1 DEF Holds, OneAtATime, Published
    <3>3. \A n \in DOMAIN job[q].new :
             job[q].new[n] \in Items /\ day[job[q].new[n]] # None
      BY <2>1, <3>2, RowItems DEF Holds
    <3>4. job[q].phase = "inserting" => job[q].item \in Items /\ day[job[q].item] # None
      BY <2>1, <3>2 DEF Holds, Typed, TypeOK
    <3>5. \A k, l \in Items : day[k] # None /\ day[l] # None
                                 => (SameRow(k, l)' <=> SameRow(k, l))
      BY <2>1 DEF SameRow, SameLaw
    <3>6. \A n \in DOMAIN job[q].new : ~Stored(job[q].new[n])'
      BY <2>1, <2>2, <3>1, <3>3 DEF Fresh
    <3>7. job[q].phase = "inserting" => ~Stored(job[q].item)' /\ ~Added(q, job[q].item)'
      BY <2>1, <2>2, <3>1, <3>3, <3>4, <3>5 DEF Fresh, Added
    <3>8. \A m, n \in DOMAIN job[q].new : SameRow(job[q].new[m], job[q].new[n])' => m = n
      BY <2>1, <3>1, <3>3, <3>5 DEF Fresh
    <3>9. Fresh(q)'
      BY <2>1, <3>6, <3>7, <3>8 DEF Fresh
    <3> QED
      BY <2>1, <3>2, <3>9
  <2>5. Published'
    BY <2>2, <2>4 DEF Published
  <2> QED
    BY <2>2, <2>3, <2>4, <2>5 DEF OneAtATime
<1>3. CASE Midnight
  <2>1. \A q \in Collectors :
           /\ job'[q].phase = job[q].phase
           /\ job'[q].new = job[q].new /\ job'[q].item = job[q].item
           /\ job'[q].found = job[q].found
    BY <1>3 DEF Midnight, Typed, Jobs
  <2> QED
    BY <1>1, <1>3, <2>1 DEF Midnight, Searching
<1>4. ASSUME NEW n \in DOMAIN changes, FetchDetail(n) PROVE OneAtATime'
  BY <1>1, <1>4 DEF FetchDetail, Searching
<1>5. CASE Crash
  <2>1. \A q \in Collectors : job'[q].phase = "idle"
    BY <1>5 DEF Crash, Idle
  <2> QED
    BY <1>1, <1>5, <2>1 DEF Crash, Searching
<1>6. CASE UNCHANGED vars
  BY <1>1, <1>6 DEF vars, Searching
<1>7. ASSUME NEW r \in Collectors,
             \/ Step(r) \/ LawsFail(r) \/ SkipRules(r)
             \/ \E n \in DOMAIN changes : SkipText(r, n)
      PROVE  OneAtATime'
  <2>1. job[r] \in Jobs
    BY DEF Typed
  <2>2. /\ \A q \in Collectors : q # r => job'[q] = job[q]
        /\ UNCHANGED day
    BY <1>7 DEF Step, CollectBegin, SearchLaws, SearchRules, SkipRules, CheckItem,
                InsertItem, StoreCommit, WriteFails, FetchText, TextCommit, LawsFail,
                SkipText, Ends, Goes, Typed
  <2>3. ASSUME \/ UNCHANGED changes
               \/ \E rows : changes' = WithTexts(rows),
               job'[r].phase = "idle" \/ job[r].phase # "idle",
               \/ ~Searching(r)'
               \/ Fresh(r)' /\ \A j \in Items : Holds(r, j)' => day[j] # None
        PROVE  OneAtATime'
    BY <1>1, <2>2, <2>3 DEF Searching
  <2>4. CASE CollectBegin(r)
    <3>1. /\ \A q \in Collectors : job[q].phase = "idle"
          /\ UNCHANGED changes
          /\ job'[r].phase = "laws" /\ job'[r].new = <<>> /\ job'[r].found = {}
      BY <2>4 DEF CollectBegin, Goes, Typed, Idle
    <3>2. Fresh(r)'
      BY <3>1 DEF Fresh
    <3>3. \A j \in Items : Holds(r, j)' => day[j] # None
      BY <3>1 DEF Holds, OneAtATime, Published
    <3> QED
      BY <1>1, <2>2, <3>1, <3>2, <3>3 DEF Searching
  <2>5. CASE SearchLaws(r) \/ SearchRules(r) \/ SkipRules(r)
    <3>1. /\ UNCHANGED changes
          /\ job[r].phase \in {"laws", "rules"}
          /\ job'[r].phase \in {"rules", "storing"} /\ job'[r].new = job[r].new
          /\ \A j \in job'[r].found : j \in job[r].found \/ day[j] # None
      <4>1. CASE SearchLaws(r)
        <5>1. PICK found \in Listed(r, Items \ Rules) :
                 job'[r] = [job[r] EXCEPT !.phase = "rules", !.found = found]
          BY <4>1 DEF SearchLaws, Goes, Typed
        <5>2. \A j \in found : day[j] # None
          BY DEF Listed, Window
        <5> QED
          BY <2>1, <4>1, <5>1, <5>2 DEF SearchLaws, Jobs
      <4>2. CASE SearchRules(r)
        <5>1. PICK found \in Listed(r, Rules) :
                 job'[r] = [job[r] EXCEPT !.phase = "storing", !.found = @ \union found]
          BY <4>2 DEF SearchRules, Goes, Typed
        <5>2. \A j \in found : day[j] # None
          BY DEF Listed, Window
        <5> QED
          BY <2>1, <4>2, <5>1, <5>2 DEF SearchRules, Jobs
      <4>3. CASE SkipRules(r)
        BY <2>1, <4>3 DEF SkipRules, Goes, Typed, Jobs
      <4> QED
        BY <2>5, <4>1, <4>2, <4>3
    <3>2. Fresh(r) /\ Searching(r)
      BY <3>1 DEF OneAtATime, Searching
    <3>3. Fresh(r)'
      BY <2>2, <3>1, <3>2 DEF Fresh, Stored, SameRow, SameLaw
    <3>4. \A j \in Items : Holds(r, j)' => day[j] # None
      BY <3>1, <3>2 DEF Holds, OneAtATime, Published
    <3> QED
      BY <2>3, <3>1, <3>3, <3>4
  <2>6. ASSUME NEW i \in Items, CheckItem(r, i) PROVE OneAtATime'
    <3>1. /\ UNCHANGED changes
          /\ job[r].phase = "storing" /\ job'[r].new = job[r].new
          /\ i \in job[r].found /\ job'[r].found = job[r].found \ {i}
          /\ \/ job'[r].phase = "storing"
             \/ job'[r].phase = "inserting" /\ job'[r].item = i
                  /\ ~Stored(i) /\ ~Added(r, i)
      BY <2>1, <2>6 DEF CheckItem, Goes, Typed, Jobs
    <3>2. Fresh(r) /\ Searching(r)
      BY <3>1 DEF OneAtATime, Searching
    <3>3. Fresh(r)'
      BY <2>2, <3>1, <3>2 DEF Fresh, Stored, Added, SameRow, SameLaw
    <3>4. \A j \in Items : Holds(r, j)' => day[j] # None
      BY <3>1, <3>2 DEF Holds, OneAtATime, Published
    <3> QED
      BY <2>3, <3>1, <3>3, <3>4
  <2>7. CASE InsertItem(r)
    <3> DEFINE new == job[r].new
               e == job[r].item
               all == Append(new, e)
    <3>1. /\ UNCHANGED changes
          /\ job[r].phase = "inserting" /\ job'[r].phase = "storing"
          /\ job'[r].new = all /\ job'[r].found = job[r].found
      BY <2>1, <2>7 DEF InsertItem, Goes, Typed, Jobs
    <3>2. new \in Seq(Items) /\ e \in Items
      BY <3>1 DEF Typed, TypeOK
    <3>3. /\ Fresh(r) /\ Searching(r)
          /\ ~Stored(e) /\ \A n \in DOMAIN new : ~SameRow(new[n], e)
      BY <3>1 DEF OneAtATime, Searching, Fresh, Added
    <3>4. PICK last : /\ last \notin DOMAIN new
                      /\ DOMAIN all = DOMAIN new \union {last}
                      /\ all[last] = e
                      /\ \A n \in DOMAIN new : all[n] = new[n]
      BY <3>2, Appended
    <3> HIDE DEF all
    <3>5. \A n \in DOMAIN new : ~SameRow(e, new[n])
      BY <3>3, SameLawRelation DEF SameRow
    <3>6. ASSUME NEW m \in DOMAIN all, NEW n \in DOMAIN all, SameRow(all[m], all[n])
          PROVE  m = n
      BY <3>3, <3>4, <3>5, <3>6 DEF Fresh
    <3>7. \A n \in DOMAIN all : ~Stored(all[n])
      BY <3>3, <3>4 DEF Fresh
    <3>8. Fresh(r)'
      BY <2>2, <3>1, <3>6, <3>7 DEF Fresh, Stored, SameRow, SameLaw
    <3>9. \A j \in Items : Holds(r, j)' => day[j] # None
      <4>1. \A j \in Items : Holds(r, j)' => Holds(r, j)
        BY <3>1, <3>4 DEF Holds
      <4> QED
        BY <3>3, <4>1 DEF OneAtATime, Published
    <3> QED
      BY <2>3, <3>1, <3>8, <3>9
  <2>8. CASE StoreCommit(r)
    <3>1. /\ job[r].phase = "storing" /\ job'[r].phase = "details"
      BY <2>8 DEF StoreCommit, Goes, Typed, Idle
    <3>2. OneRowPerItem' /\ \A n \in DOMAIN changes' : day'[changes'[n].item] # None
      BY <2>8, CommitKeepsOneRow
    <3>3. Alone'
      BY <2>2, <3>1 DEF OneAtATime, Alone
    <3>4. \A q \in Collectors : ~Searching(q)'
      BY <2>2, <3>1 DEF OneAtATime, Alone, Searching
    <3> QED
      BY <3>2, <3>3, <3>4 DEF OneAtATime, Published
  <2>9. CASE LawsFail(r) \/ WriteFails(r)
    <3>1. UNCHANGED changes /\ job'[r].phase = "idle"
      BY <2>9 DEF LawsFail, WriteFails, Ends, Goes, Typed, Idle
    <3> QED
      BY <2>3, <3>1 DEF Searching
  <2>10. ASSUME NEW n \in DOMAIN changes, FetchText(r, n) \/ SkipText(r, n)
         PROVE  OneAtATime'
    <3>1. UNCHANGED changes /\ job[r].phase = "details" /\ job'[r].phase = "details"
      BY <2>1, <2>10 DEF FetchText, SkipText, Goes, Typed, Jobs
    <3> QED
      BY <2>3, <3>1 DEF Searching
  <2>11. CASE TextCommit(r)
    <3>1. changes' = WithTexts(job[r].texts) /\ job'[r].phase = "idle"
      BY <2>11 DEF TextCommit, Ends, Goes, Typed, Idle
    <3> QED
      BY <2>3, <3>1 DEF Searching
  <2> QED
    BY <1>7, <2>4, <2>5, <2>6, <2>7, <2>8, <2>9, <2>10, <2>11 DEF Step
<1> QED
  BY <1>2, <1>3, <1>4, <1>5, <1>6, <1>7 DEF Next

\* One collect at a time gives a publication one row.
THEOREM OneRowEach == Spec => [](Serial => OneRowPerItem)
<1> DEFINE Inv == Serial => OneAtATime
<1>1. Init => Inv
  BY DEF Init, OneAtATime, OneRowPerItem, Alone, Published, Searching, Idle
<1>2. Typed /\ Inv /\ [Next]_vars => Inv'
  BY OneAtATimeStep
<1>3. Inv => (Serial => OneRowPerItem)
  BY DEF OneAtATime
<1> HIDE DEF Inv
<1> QED
  BY InitTyped, StepTyped, <1>1, <1>2, <1>3, PTL DEF Spec

-----------------------------------------------------------------------------
(* Texts, when nothing fails *)

\* A thread that has rows to fetch has committed them.
Fetching(r) == job[r].phase # "details" => job[r].rows \union job[r].texts = {}

Follows == TextFollows /\ \A r \in Collectors : Fetching(r)

LEMMA FollowsStep ==
    ~MayCrash /\ ~ApiFails /\ Typed /\ Follows /\ [Next]_vars => Follows'
<1> SUFFICES ASSUME ~MayCrash, ~ApiFails, Typed, Follows, [Next]_vars
             PROVE  Follows'
  OBVIOUS
<1>0. changes \in Seq(Change)
  BY DEF Typed, TypeOK
<1>1. ASSUME UNCHANGED changes,
             \A q \in Collectors :
                /\ job[q].rows \union job[q].texts \subseteq job'[q].rows \union job'[q].texts
                /\ Fetching(q)'
      PROVE  Follows'
  BY <1>1 DEF Follows, TextFollows
<1>2. ASSUME UNCHANGED job, NEW rows, changes' = WithTexts(rows)
      PROVE  Follows'
  <2>1. /\ DOMAIN changes' = DOMAIN changes
        /\ \A n \in DOMAIN changes : changes'[n].text = (changes[n].text \/ n \in rows)
    BY <1>0, <1>2, TextsStored
  <2>2. \A n \in DOMAIN changes :
           changes'[n].text \/ \E q \in Collectors : n \in job[q].rows \union job[q].texts
    BY <2>1 DEF Follows, TextFollows
  <2> QED
    BY <1>2, <2>1, <2>2 DEF Follows, TextFollows, Fetching
<1>3. ASSUME NEW i \in Items, Publish(i) PROVE Follows'
  BY <1>1, <1>3 DEF Publish, Follows, Fetching
<1>4. CASE Midnight
  <2>1. \A q \in Collectors :
           /\ job'[q].phase = job[q].phase
           /\ job'[q].rows = job[q].rows /\ job'[q].texts = job[q].texts
    BY <1>4 DEF Midnight, Typed, Jobs
  <2> QED
    BY <1>1, <1>4, <2>1 DEF Midnight, Follows, Fetching
<1>5. ASSUME NEW n \in DOMAIN changes, FetchDetail(n) PROVE Follows'
  BY <1>2, <1>5 DEF FetchDetail
<1>6. CASE UNCHANGED vars
  BY <1>1, <1>6 DEF vars, Follows, Fetching
<1>7. ASSUME NEW r \in Collectors,
             \/ Step(r) \/ LawsFail(r) \/ SkipRules(r)
             \/ \E n \in DOMAIN changes : SkipText(r, n)
      PROVE  Follows'
  <2>1. job[r] \in Jobs /\ Fetching(r)
    BY DEF Typed, Follows
  <2>2. \A q \in Collectors : q # r => job'[q] = job[q] /\ Fetching(q)'
    BY <1>7 DEF Step, CollectBegin, SearchLaws, SearchRules, SkipRules, CheckItem,
                InsertItem, StoreCommit, WriteFails, FetchText, TextCommit, LawsFail,
                SkipText, Ends, Goes, Typed, Follows, Fetching
  <2>3. ASSUME UNCHANGED changes,
               job[r].rows \union job[r].texts \subseteq job'[r].rows \union job'[r].texts,
               Fetching(r)'
        PROVE  Follows'
    BY <1>1, <2>2, <2>3
  <2>4. CASE CollectBegin(r) \/ WriteFails(r)
    <3>1. UNCHANGED changes /\ job[r].phase # "details"
          /\ job'[r].rows = {} /\ job'[r].texts = {}
      <4>1. CASE CollectBegin(r)
        BY <4>1 DEF CollectBegin, Goes, Typed, Idle
      <4>2. CASE WriteFails(r)
        BY <4>2 DEF WriteFails, Ends, Goes, Typed, Idle
      <4> QED
        BY <2>4, <4>1, <4>2
    <3> QED
      BY <2>1, <2>3, <3>1 DEF Fetching
  <2>5. CASE SearchLaws(r) \/ SearchRules(r) \/ SkipRules(r) \/ InsertItem(r)
    <3>1. UNCHANGED changes /\ job[r].phase # "details"
          /\ job'[r].rows = job[r].rows /\ job'[r].texts = job[r].texts
      <4>1. CASE SearchLaws(r)
        BY <2>1, <4>1 DEF SearchLaws, Goes, Typed, Jobs
      <4>2. CASE SearchRules(r)
        BY <2>1, <4>2 DEF SearchRules, Goes, Typed, Jobs
      <4>3. CASE SkipRules(r)
        BY <2>1, <4>3 DEF SkipRules, Goes, Typed, Jobs
      <4>4. CASE InsertItem(r)
        BY <2>1, <4>4 DEF InsertItem, Goes, Typed, Jobs
      <4> QED
        BY <2>5, <4>1, <4>2, <4>3, <4>4
    <3> QED
      BY <2>1, <2>3, <3>1 DEF Fetching
  <2>6. ASSUME NEW i \in Items, CheckItem(r, i) PROVE Follows'
    <3>1. UNCHANGED changes /\ job[r].phase # "details"
          /\ job'[r].rows = job[r].rows /\ job'[r].texts = job[r].texts
      BY <2>1, <2>6 DEF CheckItem, Goes, Typed, Jobs
    <3> QED
      BY <2>1, <2>3, <3>1 DEF Fetching
  <2>7. ASSUME NEW n \in DOMAIN changes, FetchText(r, n) PROVE Follows'
    <3>1. UNCHANGED changes /\ job'[r].phase = "details"
          /\ job'[r].rows = job[r].rows \ {n} /\ job'[r].texts = job[r].texts \union {n}
      BY <2>1, <2>7 DEF FetchText, Goes, Typed, Jobs
    <3> QED
      BY <2>3, <3>1 DEF Fetching
  <2>8. CASE StoreCommit(r)
    <3> DEFINE new == job[r].new
               all == WithNew(changes, new)
    <3>1. changes' = all
      BY <2>8, NewRowsStored
    <3>2. /\ \A n \in DOMAIN changes : all[n] = changes[n]
          /\ \A n \in DOMAIN all \ DOMAIN changes :
                \E m \in DOMAIN new : n = Len(changes) + m
      BY <1>0, RowsAdded DEF Typed, TypeOK
    <3>3. /\ job[r].phase = "storing" /\ job'[r].phase = "details"
          /\ job'[r].rows = {Len(changes) + m : m \in DOMAIN new}
          /\ job'[r].texts = {}
      BY <2>8 DEF StoreCommit, Goes, Typed, Idle
    <3>4. job[r].rows \union job[r].texts = {}
      BY <2>1, <3>3 DEF Fetching
    <3> HIDE DEF all
    <3>5. ASSUME NEW n \in DOMAIN all
          PROVE  all[n].text \/ \E q \in Collectors : n \in job'[q].rows \union job'[q].texts
      <4>1. CASE n \in DOMAIN changes
        BY <2>2, <3>2, <3>4, <4>1 DEF Follows, TextFollows
      <4>2. CASE n \notin DOMAIN changes
        BY <3>2, <3>3, <4>2
      <4> QED
        BY <4>1, <4>2
    <3>6. Fetching(r)'
      BY <3>3 DEF Fetching
    <3> QED
      BY <2>2, <3>1, <3>5, <3>6 DEF Follows, TextFollows
  <2>9. CASE TextCommit(r)
    <3>1. /\ changes' = WithTexts(job[r].texts) /\ job[r].rows = {}
          /\ job'[r].rows = {} /\ job'[r].texts = {}
      BY <2>9 DEF TextCommit, Ends, Goes, Typed, Idle
    <3>2. ASSUME NEW n \in DOMAIN changes
          PROVE  \/ WithTexts(job[r].texts)[n].text
                 \/ \E q \in Collectors : n \in job'[q].rows \union job'[q].texts
      <4>1. WithTexts(job[r].texts)[n].text = (changes[n].text \/ n \in job[r].texts)
        BY <1>0, TextsStored
      <4>2. changes[n].text \/ \E q \in Collectors : n \in job[q].rows \union job[q].texts
        BY DEF Follows, TextFollows
      <4>3. CASE changes[n].text \/ n \in job[r].texts
        BY <4>1, <4>3, Zenon
      <4>4. CASE \E q \in Collectors \ {r} : n \in job[q].rows \union job[q].texts
        BY <2>2, <4>4
      <4> QED
        BY <3>1, <4>2, <4>3, <4>4
    <3>3. DOMAIN changes' = DOMAIN changes
      BY <1>0, <3>1, TextsStored
    <3>4. Fetching(r)'
      BY <3>1 DEF Fetching
    <3> QED
      BY <2>2, <3>1, <3>2, <3>3, <3>4 DEF Follows, TextFollows
  <2> QED
    BY <1>7, <2>4, <2>5, <2>6, <2>7, <2>8, <2>9 DEF Step, LawsFail, SkipText
<1> QED
  BY <1>3, <1>4, <1>5, <1>6, <1>7 DEF Next, Crash

\* A row without its text is one that a collect is still going to fetch.
THEOREM TextsFollow == Spec => [](~MayCrash /\ ~ApiFails => TextFollows)
<1> DEFINE Inv == ~MayCrash /\ ~ApiFails => Follows
<1>1. Init => Inv
  BY DEF Init, Follows, TextFollows, Fetching, Idle
<1>2. Typed /\ Inv /\ [Next]_vars => Inv'
  BY FollowsStep
<1>3. Inv => (~MayCrash /\ ~ApiFails => TextFollows)
  BY DEF Follows
<1> HIDE DEF Inv
<1> QED
  BY InitTyped, StepTyped, <1>1, <1>2, <1>3, PTL DEF Spec
=============================================================================
