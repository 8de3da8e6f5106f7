------------------------------ MODULE Collector ------------------------------
(***************************************************************************)
(* Collecting amendments: POST /collect and the scheduler's job call the   *)
(* same function, which searches the law API from sync_state.last_sync on, *)
(* adds a law_change row for every publication that has none, advances     *)
(* last_sync, commits, and only then fetches the text of the new rows.     *)
(*                                                                         *)
(* Publications are the items of the external API; each belongs to a law   *)
(* (or to an administrative rule), which the API names by its id, and is   *)
(* listed from the day it is promulgated, a Korean date, while last_sync   *)
(* is a date in UTC.  A search keeps one entry per law, whichever the API  *)
(* lists first, and reads one page, so that a publication of the window    *)
(* may not be found; a row is known by its law and its day.  Two collects  *)
(* may run at once, and SQLite lets one of them write at a time: the first *)
(* INSERT takes the lock, the commit or the end of the session gives it    *)
(* back.  This is the mode with an API key and one domain; the mock mode   *)
(* fetches no texts.                                                       *)
(***************************************************************************)
EXTENDS Naturals, Sequences

CONSTANTS
    Items,          \* publications of laws and of administrative rules
    Rules,          \* those that are administrative rules
    Laws,           \* the laws and the rules: each the set of its publications
    Crowded,        \* laws that may not be on the page that a search reads
    Collectors,     \* the scheduler's thread and threads of the pool
    None,           \* "no value"
    Serial,         \* TRUE: one collect at a time
    MayCrash,       \* TRUE: the server may stop between two steps
    RulesRefused,   \* TRUE: the search of administrative rules may fail
    ApiFails,       \* TRUE: so may the search of laws and a text
    LastTick,       \* bound: the last midnight
    MaxRows         \* bound: law_change rows

\* The clock counts midnights, in turn of Seoul and of UTC.
Utc(t) == t \div 2
Kst(t) == (t + 1) \div 2

Days == 0..Kst(LastTick)

ASSUME CollectorAssumption ==
    /\ Rules \subseteq Items
    /\ UNION Laws = Items
    /\ \A law, other \in Laws : law = other \/ law \intersect other = {}
    /\ Crowded \subseteq Laws
    /\ {Serial, MayCrash, RulesRefused, ApiFails} \subseteq BOOLEAN
    /\ LastTick \in Nat
    /\ MaxRows \in Nat
    /\ None \notin Items \union Collectors \union Days

VARIABLES
    clock,       \* how many midnights have passed
    day,         \* the (Korean) day an item was promulgated; None: not yet
    changes,     \* law_change rows, in id order
    lastSync,    \* sync_state.last_sync; None: the row does not exist
    lock,        \* the thread that holds SQLite's write lock
    job          \* what each thread is doing, and what it has read

vars == <<clock, day, changes, lastSync, lock, job>>

Change == [item : Items, text : BOOLEAN]

Phases == {"idle", "laws", "rules", "storing", "inserting", "details"}

Idle == [phase |-> "idle", since |-> 0, first |-> FALSE, late |-> FALSE,
         found |-> {}, item |-> None, new |-> <<>>, rows |-> {}, texts |-> {}]

Init ==
    /\ clock = 0
    /\ day = [i \in Items |-> None]
    /\ changes = <<>>
    /\ lastSync = None
    /\ lock = None
    /\ job = [r \in Collectors |-> Idle]

-----------------------------------------------------------------------------
(* The world *)

\* Before its first commit.
Searching(r) == job[r].phase \in {"laws", "rules", "storing", "inserting"}

Publish(i) ==
    /\ day[i] = None
    /\ day' = [day EXCEPT ![i] = Kst(clock)]
    /\ UNCHANGED <<clock, changes, lastSync, lock, job>>

\* Midnights are nine hours apart or more: a collect, whose calls time out
\* after 30 seconds each, commits before the second one.
Midnight ==
    /\ clock < LastTick
    /\ \A r \in Collectors : Searching(r) => ~job[r].late
    /\ clock' = clock + 1
    /\ job' = [r \in Collectors |->
                 IF Searching(r) THEN [job[r] EXCEPT !.late = TRUE] ELSE job[r]]
    /\ UNCHANGED <<day, changes, lastSync, lock>>

-----------------------------------------------------------------------------
(* Threads *)

Goes(r, next) == job' = [job EXCEPT ![r] = next]

\* The session ends: an open transaction is rolled back.
Ends(r) ==
    /\ Goes(r, Idle)
    /\ lock' = IF lock = r THEN None ELSE lock

\* Nobody else is writing.
MayWrite(r) == lock \in {None, r}

SameLaw(i, j) == \E law \in Laws : {i, j} \subseteq law

\* What a row is looked up by: law_id and promulgation_date.
SameRow(i, j) == SameLaw(i, j) /\ day[i] = day[j]

Stored(i) == \E n \in DOMAIN changes : SameRow(changes[n].item, i)

Added(r, i) == \E n \in DOMAIN job[r].new : SameRow(job[r].new[n], i)

-----------------------------------------------------------------------------
(* collect *)

\* sync_state is read; without it the window is the year.
CollectBegin(r) ==
    /\ job[r].phase = "idle"
    /\ Serial => \A q \in Collectors : job[q].phase = "idle"
    /\ Len(changes) < MaxRows
    /\ Goes(r, [Idle EXCEPT !.phase = "laws",
                            !.since = IF lastSync = None THEN 0 ELSE lastSync,
                            !.first = lastSync = None])
    /\ UNCHANGED <<clock, day, changes, lastSync, lock>>

\* Mutant: the day of the last collect is not searched again.
AfterSince(r, kind) == {i \in kind : day[i] # None /\ day[i] > job[r].since}

\* From last_sync on, that day included.
Window(r, kind) == {i \in kind : day[i] # None /\ day[i] >= job[r].since}

\* The answers a search may give: one entry of every law that has one in the
\* window, but for laws that other matches have pushed off the page.
Listed(r, kind) ==
    {found \in SUBSET Window(r, kind) :
        \A law \in Laws :
            \/ \E i \in law : found \intersect law = {i}
            \/ /\ found \intersect law = {}
               /\ law \in Crowded \/ Window(r, kind) \intersect law = {}}

SearchLaws(r) ==
    /\ job[r].phase = "laws"
    /\ \E found \in Listed(r, Items \ Rules) :
          Goes(r, [job[r] EXCEPT !.phase = "rules", !.found = found])
    /\ UNCHANGED <<clock, day, changes, lastSync, lock>>

\* The exception ends the collect.
LawsFail(r) ==
    /\ ApiFails
    /\ job[r].phase = "laws"
    /\ Ends(r)
    /\ UNCHANGED <<clock, day, changes, lastSync>>

SearchRules(r) ==
    /\ job[r].phase = "rules"
    /\ \E found \in Listed(r, Rules) :
          Goes(r, [job[r] EXCEPT !.phase = "storing", !.found = @ \union found])
    /\ UNCHANGED <<clock, day, changes, lastSync, lock>>

\* A failed search of the rules is a warning in the answer.
SkipRules(r) ==
    /\ RulesRefused
    /\ job[r].phase = "rules"
    /\ Goes(r, [job[r] EXCEPT !.phase = "storing"])
    /\ UNCHANGED <<clock, day, changes, lastSync, lock>>

\* Mutant: an item is added without looking for its row.
CheckNothing(r, i) ==
    /\ job[r].phase = "storing"
    /\ i \in job[r].found
    /\ Goes(r, [job[r] EXCEPT !.phase = "inserting", !.item = i,
                              !.found = @ \ {i}])
    /\ UNCHANGED <<clock, day, changes, lastSync, lock>>

\* One item: is there a row, committed or of this session?
CheckItem(r, i) ==
    /\ job[r].phase = "storing"
    /\ i \in job[r].found
    /\ Goes(r, IF Stored(i) \/ Added(r, i)
               THEN [job[r] EXCEPT !.found = @ \ {i}]
               ELSE [job[r] EXCEPT !.phase = "inserting", !.item = i,
                                   !.found = @ \ {i}])
    /\ UNCHANGED <<clock, day, changes, lastSync, lock>>

\* The session has a new sync_state row to insert and another one has
\* committed it: the flush fails on the primary key.
Conflict(r) == job[r].first /\ lastSync # None

\* Mutant: the row is flushed outside of the transaction.
InsertUnlocked(r) ==
    /\ job[r].phase = "inserting"
    /\ MayWrite(r)
    /\ ~Conflict(r)
    /\ Goes(r, [job[r] EXCEPT !.phase = "storing", !.item = None,
                              !.new = Append(@, job[r].item)])
    /\ UNCHANGED <<clock, day, changes, lastSync, lock>>

\* add and flush.
InsertItem(r) ==
    /\ job[r].phase = "inserting"
    /\ MayWrite(r)
    /\ ~Conflict(r)
    /\ Goes(r, [job[r] EXCEPT !.phase = "storing", !.item = None,
                              !.new = Append(@, job[r].item)])
    /\ lock' = r
    /\ UNCHANGED <<clock, day, changes, lastSync>>

\* Mutant: last_sync is the local date.
StoreLocalDate(r) ==
    /\ job[r].phase = "storing"
    /\ job[r].found = {}
    /\ MayWrite(r)
    /\ ~Conflict(r)
    /\ changes' = changes \o [n \in DOMAIN job[r].new |->
                      [item |-> job[r].new[n], text |-> FALSE]]
    /\ lastSync' = Kst(clock)
    /\ lock' = None
    /\ Goes(r, [Idle EXCEPT !.phase = "details",
          !.rows = {Len(changes) + n : n \in DOMAIN job[r].new}])
    /\ UNCHANGED <<clock, day>>

\* One commit: the new rows and last_sync, which is today in UTC.
StoreCommit(r) ==
    /\ job[r].phase = "storing"
    /\ job[r].found = {}
    /\ MayWrite(r)
    /\ ~Conflict(r)
    /\ changes' = changes \o [n \in DOMAIN job[r].new |->
                      [item |-> job[r].new[n], text |-> FALSE]]
    /\ lastSync' = Utc(clock)
    /\ lock' = None
    /\ Goes(r, [Idle EXCEPT !.phase = "details",
          !.rows = {Len(changes) + n : n \in DOMAIN job[r].new}])
    /\ UNCHANGED <<clock, day>>

\* The write waits too long for the lock, or hits the key of sync_state.
WriteFails(r) ==
    /\ \/ job[r].phase = "inserting"
       \/ job[r].phase = "storing" /\ job[r].found = {}
    /\ ~MayWrite(r) \/ Conflict(r)
    /\ Ends(r)
    /\ UNCHANGED <<clock, day, changes, lastSync>>

\* The text of one new row.
FetchText(r, n) ==
    /\ job[r].phase = "details"
    /\ n \in job[r].rows
    /\ Goes(r, [job[r] EXCEPT !.rows = @ \ {n}, !.texts = @ \union {n}])
    /\ UNCHANGED <<clock, day, changes, lastSync, lock>>

\* A failure is counted in the answer.
SkipText(r, n) ==
    /\ ApiFails
    /\ job[r].phase = "details"
    /\ n \in job[r].rows
    /\ Goes(r, [job[r] EXCEPT !.rows = @ \ {n}])
    /\ UNCHANGED <<clock, day, changes, lastSync, lock>>

WithTexts(rows) ==
    [n \in DOMAIN changes |->
        [changes[n] EXCEPT !.text = @ \/ n \in rows]]

\* Mutant: the second commit is missing.
TextsDropped(r) ==
    /\ job[r].phase = "details"
    /\ job[r].rows = {}
    /\ MayWrite(r)
    /\ Ends(r)
    /\ UNCHANGED <<clock, day, changes, lastSync>>

\* The second commit stores all texts at once.
TextCommit(r) ==
    /\ job[r].phase = "details"
    /\ job[r].rows = {}
    /\ MayWrite(r)
    /\ changes' = WithTexts(job[r].texts)
    /\ Ends(r)
    /\ UNCHANGED <<clock, day, lastSync>>

-----------------------------------------------------------------------------
\* POST /changes/{id}/fetch-detail: the text of one row, on demand.
FetchDetail(n) ==
    /\ n \in DOMAIN changes
    /\ lock = None
    /\ changes' = WithTexts({n})
    /\ UNCHANGED <<clock, day, lastSync, lock, job>>

\* The server stops: sessions are rolled back, committed rows stay.
Crash ==
    /\ MayCrash
    /\ \E r \in Collectors : job[r].phase # "idle"
    /\ job' = [r \in Collectors |-> Idle]
    /\ lock' = None
    /\ UNCHANGED <<clock, day, changes, lastSync>>

Step(r) ==
    \/ CollectBegin(r)
    \/ SearchLaws(r)
    \/ SearchRules(r)
    \/ \E i \in Items : CheckItem(r, i)
    \/ InsertItem(r)
    \/ StoreCommit(r)
    \/ WriteFails(r)
    \/ \E n \in DOMAIN changes : FetchText(r, n)
    \/ TextCommit(r)

Next ==
    \/ \E i \in Items : Publish(i)
    \/ Midnight
    \/ \E r \in Collectors :
        \/ Step(r)
        \/ LawsFail(r)
        \/ SkipRules(r)
        \/ \E n \in DOMAIN changes : SkipText(r, n)
    \/ \E n \in DOMAIN changes : FetchDetail(n)
    \/ Crash

Spec == Init /\ [][Next]_vars

\* The scheduler calls collect again and again, and its thread runs.
Fairness == \A r \in Collectors : WF_vars(Step(r))

FairSpec == Spec /\ Fairness

-----------------------------------------------------------------------------
(* Properties *)

TypeOK ==
    /\ clock \in 0..LastTick
    /\ day \in [Items -> Days \union {None}]
    /\ changes \in Seq(Change)
    /\ lastSync \in Days \union {None}
    /\ lock \in Collectors \union {None}
    /\ \A r \in Collectors :
        /\ job[r].phase \in Phases
        /\ job[r].since \in Days
        /\ job[r].found \subseteq Items
        /\ job[r].item \in Items \union {None}
        /\ job[r].new \in Seq(Items)
        /\ job[r].rows \union job[r].texts \subseteq DOMAIN changes
        /\ job[r].phase = "inserting" => job[r].item \in Items
        /\ job[r].new # <<>> => lock = r

\* No later collect will find i.
Passed(i) == day[i] # None /\ lastSync # None /\ day[i] < lastSync

\* A collect that commits now has a row for i, or for another publication of
\* its law that its window held.
Settles(r, i) ==
    /\ job[r].phase = "storing" /\ job'[r].phase = "details"
    /\ \E n \in DOMAIN changes' :
          /\ SameLaw(changes'[n].item, i)
          /\ day[changes'[n].item] >= job[r].since

\* When last_sync moves past a publication of one of these, a collect has
\* settled it.
NotMissed(items) ==
    \A i \in items :
        ~Passed(i) /\ Passed(i)' => \E r \in Collectors : Settles(r, i)

\* The publications whose law is always on the page.
Uncrowded == Items \ UNION Crowded

\* last_sync never moves past a law amended in the window without a row for
\* one of its amendments there, whatever collects run at the same time, last
\* past a midnight, fail or are cut off (collect, main.py:351 and
\* main.py:411): an amendment that is alone in its window has a row.  Of two
\* in one window one may be lost (dedupe_and_filter, law_api.py:446), and a
\* law that is not on the page is (law_api.py:137).
LawsNotMissed == [][NotMissed(Uncrowded \ Rules)]_vars

\* Nor does it move past an administrative rule (collect, main.py:370): true
\* as long as their search does not fail.
NothingMissed == [][NotMissed(Uncrowded)]_vars

\* A publication has one row, so that it is analysed, decided and applied
\* once (collect, main.py:386): no two rows of one law are of one day.
OneRowPerItem ==
    \A m, n \in DOMAIN changes : SameRow(changes[m].item, changes[n].item) => m = n

\* A new row has its text, or the collect that added it is still going to
\* fetch it (collect, main.py:342).
TextFollows ==
    \A n \in DOMAIN changes :
        changes[n].text \/ \E r \in Collectors : n \in job[r].rows \union job[r].texts

\* A law that is published gets a row with its text, though of two of its
\* publications that one search lists it need not be this one (collect,
\* main.py:335).
Collected ==
    \A i \in Uncrowded :
        (day[i] # None) ~> (\E n \in DOMAIN changes :
                               SameLaw(changes[n].item, i) /\ changes[n].text)

=============================================================================
