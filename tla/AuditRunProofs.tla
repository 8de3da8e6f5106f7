--------------------------- MODULE AuditRunProofs ---------------------------
(***************************************************************************)
(* Theorems about AuditRun: one request on any of its ways, with any write, *)
(* call or file that fails, and a stop of the server between any steps.    *)
(***************************************************************************)
EXTENDS AuditRun, SequenceTheorems, FiniteSetTheorems, TLAPS

-----------------------------------------------------------------------------
(* The seven ways *)

Kinds == {"create", "load", "call", "store"} \union AuditSteps

\* What the ways have in common. At a, if it is not 0, the artifact is written, and
\* PATCH_BUILT follows at once if it does at all; at c the run is closed, after the
\* files and the result, and its event follows at once.
Shaped(s, a, c) ==
    /\ a \in Nat /\ c \in Nat
    /\ s \in Seq(Kinds)
    /\ s[1] = "create" /\ s[2] = "opened" /\ s[3] = "opened"
    /\ 3 < c /\ c < Len(s)
    /\ \A i \in 1..Len(s) :
          /\ s[i] \in {"create", "opened"} => i <= 3
          /\ s[i] = "artifact" <=> i = a
          /\ s[i] = "built" => i = a + 1 /\ a # 0
          /\ s[i] \in FileSteps \union {"store"} => i < c
          /\ s[i] \in {"close", "abort"} <=> i = c
          /\ s[i] \in {"closed", "aborted"} <=> i = c + 1

LEMMA Scripts ==
    \A r \in Routes : \E a, c :
        /\ Shaped(Script[r], a, c)
        /\ r # "applyUnmapped" => Script[r][c] = "close"
<1> USE DEF Kinds, AuditSteps, EventSteps, FileSteps
<1>1. /\ Shaped(Script["analyze"], 11, 14) /\ Script["analyze"][14] = "close"
  BY DEF Script, Shaped
<1>2. /\ Shaped(Script["map"], 8, 11) /\ Script["map"][11] = "close"
  BY DEF Script, Shaped
<1>3. /\ Shaped(Script["mapNothing"], 7, 10) /\ Script["mapNothing"][10] = "close"
  BY DEF Script, Shaped
<1>4. /\ Shaped(Script["applyStopped"], 0, 6) /\ Script["applyStopped"][6] = "close"
  BY DEF Script, Shaped
<1>5. Shaped(Script["applyUnmapped"], 0, 5)
  BY DEF Script, Shaped
<1>6. /\ Shaped(Script["apply"], 0, 14) /\ Script["apply"][14] = "close"
  BY DEF Script, Shaped
<1>7. /\ Shaped(Script["applyKept"], 14, 19) /\ Script["applyKept"][19] = "close"
  BY DEF Script, Shaped
<1>8. Routes = {"analyze", "map", "mapNothing", "applyStopped", "applyUnmapped", "apply",
                "applyKept"}
  BY DEF Routes, Script
<1> QED
  BY <1>1, <1>2, <1>3, <1>4, <1>5, <1>6, <1>7, <1>8

\* The two positions of the way of this request.
A == CHOOSE a : \E c : /\ Shaped(Script[route], a, c)
                       /\ route # "applyUnmapped" => Script[route][c] = "close"
C == CHOOSE c : /\ Shaped(Script[route], A, c)
                /\ route # "applyUnmapped" => Script[route][c] = "close"

LEMMA Way ==
    ASSUME route \in Routes
    PROVE  /\ Shaped(Script[route], A, C)
           /\ route # "applyUnmapped" => Script[route][C] = "close"
           /\ DOMAIN Script[route] = 1..Len(Script[route]) /\ Len(Script[route]) \in Nat
<1>1. \E a, c : /\ Shaped(Script[route], a, c)
                /\ route # "applyUnmapped" => Script[route][c] = "close"
  BY Scripts
<1>2. \E c : /\ Shaped(Script[route], A, c)
             /\ route # "applyUnmapped" => Script[route][c] = "close"
  BY <1>1, Zenon DEF A
<1>3. /\ Shaped(Script[route], A, C)
      /\ route # "applyUnmapped" => Script[route][C] = "close"
  BY <1>2, Zenon DEF C
<1>4. DOMAIN Script[route] = 1..Len(Script[route]) /\ Len(Script[route]) \in Nat
  BY <1>3 DEF Shaped
<1> QED
  BY <1>3, <1>4

-----------------------------------------------------------------------------
(* The numbers of the events *)

LEMMA NumberType ==
    ASSUME NEW kinds, NEW n \in Nat
    PROVE  /\ Number(kinds, n) \in Nat
           /\ IsFiniteSet({i \in 1..n : Script[route][i] \in kinds})
<1>1. IsFiniteSet(1..n)
  BY FS_Interval
<1>2. IsFiniteSet({i \in 1..n : Script[route][i] \in kinds})
  BY <1>1, FS_Subset
<1> QED
  BY <1>2, FS_CardinalityType DEF Number

\* One step more: one number more, if it is of these kinds.
LEMMA NumberNext ==
    ASSUME NEW kinds, NEW n \in Nat
    PROVE  Number(kinds, n + 1) = IF Script[route][n + 1] \in kinds
                                  THEN Number(kinds, n) + 1 ELSE Number(kinds, n)
<1> DEFINE S(k) == {i \in 1..k : Script[route][i] \in kinds}
           next == n + 1
<1>1. IsFiniteSet(S(n))
  BY NumberType
<1>2. next \notin S(n) /\ 1..next = 1..n \union {next}
  OBVIOUS
<1>3. S(next) = IF Script[route][next] \in kinds THEN S(n) \union {next} ELSE S(n)
  BY <1>2
<1>4. Number(kinds, next) = Cardinality(S(next)) /\ Number(kinds, n) = Cardinality(S(n))
  BY DEF Number
<1> HIDE DEF S, next
<1>5. CASE Script[route][next] \in kinds
  BY <1>1, <1>2, <1>3, <1>4, <1>5, FS_AddElement DEF next
<1>6. CASE Script[route][next] \notin kinds
  BY <1>3, <1>4, <1>6 DEF next
<1> QED
  BY <1>5, <1>6

\* A step of these kinds has a number, and it is no greater than that of a later one.
LEMMA NumberGrows ==
    ASSUME NEW kinds, NEW n \in Nat, NEW i \in 1..n, Script[route][i] \in kinds
    PROVE  Number(kinds, i) \in 1..Number(kinds, n)
<1> DEFINE S(k) == {j \in 1..k : Script[route][j] \in kinds}
<1>1. i \in Nat /\ S(i) \subseteq S(n) /\ i \in S(i)
  OBVIOUS
<1>2. /\ Number(kinds, n) = Cardinality(S(n)) /\ IsFiniteSet(S(n))
      /\ Number(kinds, n) \in Nat
      /\ Number(kinds, i) = Cardinality(S(i)) /\ IsFiniteSet(S(i))
      /\ Number(kinds, i) \in Nat
  <2>1. Number(kinds, n) = Cardinality(S(n)) /\ Number(kinds, i) = Cardinality(S(i))
    BY DEF Number
  <2> QED
    BY <1>1, <2>1, NumberType
<1> HIDE DEF S
<1>3. Cardinality(S(i)) <= Cardinality(S(n))
  BY <1>1, <1>2, FS_Subset
<1>4. Cardinality(S(i)) # 0
  BY <1>1, <1>2, FS_EmptySet
<1> QED
  BY <1>2, <1>3, <1>4
-----------------------------------------------------------------------------
(* What the rows hold *)

\* The patch file could not be written, and its event is passed over.
Dropped == incomplete /\ refs = {} /\ A + 1 < at

\* The events are those of the first n steps; of all steps so far while the session is
\* not broken.
Recorded(n) ==
    /\ n < at
    /\ session = "ok" => n + 1 = at
    /\ \/ Holds(EventSteps, n)
       \/ Dropped /\ Holds(EventSteps \ {"built"}, n)

Flags == {known, incomplete, result, temp} \subseteq BOOLEAN

\* Where the request is, what it knows of its run, and what of it is stored. The marked
\* answer is what the rest hangs on: without the mark nothing was left out.
Audited ==
    /\ route \in Routes
    /\ at \in 1..(Len(Script[route]) + 1)
    /\ session \in {"ok", "broken"}
    /\ answer \in {"none", "ok", "refused", "error", "lost"}
    /\ run \in {"absent", "running", "completed", "failed"}
    /\ files \subseteq FileSteps
    /\ refs \union listed \subseteq {"artifact"} \intersect files
    /\ session = "broken" /\ answer \in {"none", "ok", "refused"} => incomplete
    /\ session = "broken" \/ incomplete => at > 3
    /\ session = "ok" /\ at > 3 => known
    /\ known => at > 3
    /\ refs # {} => A < at
    /\ ~incomplete => \A i \in 1..Len(Script[route]) :
                         i < at /\ Script[route][i] \in FileSteps => Script[route][i] \in files
    /\ ~incomplete /\ C < at /\ Script[route][C] = "close" => run = "completed"
    /\ run = "completed" => C < at
    /\ \A i \in 1..Len(Script[route]) : i < at /\ Script[route][i] = "store" => result
    /\ answer = "ok" => at = Len(Script[route]) + 1 /\ route # "applyUnmapped"

\* The events, each of a step of the request.
Listed ==
    /\ events \in Seq(EventSteps)
    /\ \E n \in Nat : Recorded(n)

LEMMA FlagsInit == Init => Flags
  BY Zenon DEF Init, Flags

LEMMA FlagsStep == Flags /\ [Next]_vars => Flags'
<1> SUFFICES ASSUME Flags, [Next]_vars PROVE Flags'
  OBVIOUS
<1> DEFINE kept(v) == v \in BOOLEAN
<1>1. known' \in {known, TRUE, FALSE}
  BY Zenon
     DEF Next, vars, CreateRun, Opened, StartFails, SkipAudit, Record, RecordFails, Close,
         CloseFails, Load, Call, CallRaises, StoreResult, StoreFails, WriteTemp, Rename,
         FileFails, Answer, Crash
<1>2. incomplete' \in {incomplete, TRUE} /\ result' \in {result, TRUE}
  BY Zenon
     DEF Next, vars, CreateRun, Opened, StartFails, SkipAudit, Record, RecordFails, Close,
         CloseFails, Load, Call, CallRaises, StoreResult, StoreFails, WriteTemp, Rename,
         FileFails, Answer, Crash
<1>3. temp' \in {temp, TRUE, FALSE}
  BY Zenon
     DEF Next, vars, disk, CreateRun, Opened, StartFails, SkipAudit, Record, RecordFails,
         Close, CloseFails, Load, Call, CallRaises, StoreResult, StoreFails, WriteTemp, Rename,
         FileFails, Answer, Crash
<1> QED
  BY <1>1, <1>2, <1>3, Zenon DEF Flags

LEMMA AuditedInit == Init => Audited
<1> SUFFICES ASSUME Init PROVE Audited
  OBVIOUS
<1>1. Shaped(Script[route], A, C) /\ Len(Script[route]) \in Nat
  BY Way DEF Init
<1> QED
  BY <1>1 DEF Init, Audited, Shaped

\* The place a step is taken at.
LEMMA AtStep ==
    ASSUME Audited, NEW steps, Reaches(steps)
    PROVE  /\ answer = "none" /\ at \in 1..Len(Script[route]) /\ at \in Nat
           /\ Len(Script[route]) \in Nat /\ A \in Nat /\ C \in Nat
           /\ 3 < C /\ C < Len(Script[route])
           /\ Script[route][at] \in steps
           /\ Script[route][at] \in {"create", "opened"} <=> at <= 3
           /\ Script[route][at] = "artifact" <=> at = A
           /\ Script[route][at] = "built" => at = A + 1 /\ A # 0
           /\ Script[route][at] \in FileSteps \union {"store"} => at < C
           /\ Script[route][at] \in {"close", "abort"} <=> at = C
<1>1. /\ answer = "none" /\ at \in 1..Len(Script[route]) /\ Script[route][at] \in steps
      /\ Len(Script[route]) \in Nat /\ Shaped(Script[route], A, C)
  BY Way DEF Reaches, Audited
<1>2. at <= 3 => Script[route][at] \in {"create", "opened"}
  <2>1. at <= 3 => at = 1 \/ at = 2 \/ at = 3
    BY <1>1
  <2> QED
    BY <1>1, <2>1 DEF Shaped
<1> QED
  BY <1>1, <1>2 DEF Shaped

\* A step that goes on to the next, and does not lose anything on the way.
LEMMA Onward ==
    ASSUME Audited, NEW steps, Reaches(steps), at' = at + 1,
           UNCHANGED <<route, session, incomplete, run, result, disk, answer>>,
           session = "ok" /\ at > 2 => known',
           known' => at > 2,
           Script[route][at] # "store",
           incomplete \/ Script[route][at] \notin FileSteps \union {"close", "abort"}
    PROVE  Audited'
<1>1. route' = route /\ A' = A /\ C' = C
  BY DEF A, C
<1>2. /\ at \in Nat /\ at' \in 1..(Len(Script[route]) + 1) /\ Len(Script[route]) \in Nat
      /\ \A i \in 1..Len(Script[route]) : i < at' => i < at \/ i = at
  BY AtStep
<1>3. /\ ~incomplete => C # at
      /\ answer = "none" /\ (at' > 3 <=> at > 2) /\ at' > at
  BY AtStep
<1>4. /\ UNCHANGED <<session, incomplete, run, result, files, refs, listed, answer>>
  BY DEF disk
<1>5. /\ session' = "broken" \/ incomplete' => at' > 3
      /\ session' = "ok" /\ at' > 3 => known'
      /\ known' => at' > 3
  BY <1>2, <1>3, <1>4 DEF Audited
<1>6. ~incomplete' => \A i \in 1..Len(Script[route]) :
         i < at' /\ Script[route][i] \in FileSteps => Script[route][i] \in files'
  BY <1>2, <1>4 DEF Audited
<1>7. \A i \in 1..Len(Script[route]) : i < at' /\ Script[route][i] = "store" => result'
  BY <1>2, <1>4 DEF Audited
<1>8. /\ ~incomplete' /\ C < at' /\ Script[route][C] = "close" => run' = "completed"
      /\ run' = "completed" => C < at'
      /\ refs' # {} => A < at'
  BY <1>2, <1>3, <1>4, AtStep DEF Audited
<1> QED
  BY <1>1, <1>2, <1>3, <1>4, <1>5, <1>6, <1>7, <1>8 DEF Audited

\* The two commits of the opening events, told apart by the rows that are there.
LEMMA OpeningRows ==
    ASSUME Audited, Listed, Reaches({"opened"})
    PROVE  (Len(events) = 1) <=> at = 3
<1>1. /\ session = "ok" /\ ~incomplete /\ at \in {2, 3}
      /\ Script[route][1] = "create" /\ Script[route][2] = "opened"
  <2>1. at <= 3 /\ at \in Nat /\ at # 0 /\ Script[route][at] = "opened"
    BY AtStep
  <2>2. Script[route][1] = "create" /\ Script[route][2] = "opened"
    BY Way DEF Audited, Shaped
  <2>3. at # 1
    BY <2>1, <2>2
  <2> QED
    BY <2>1, <2>2, <2>3 DEF Audited
<1>2. PICK n \in Nat : n + 1 = at /\ Len(events) = Number(EventSteps, n)
  BY <1>1 DEF Listed, Recorded, Dropped, Holds
<1>3. /\ Number(EventSteps, 0) = 0
      /\ Number(EventSteps, 1) = 0 /\ Number(EventSteps, 2) = 1
  <2>1. Number(EventSteps, 0) = 0
    <3>1. {i \in 1..0 : Script[route][i] \in EventSteps} = {}
      OBVIOUS
    <3> QED
      BY <3>1, FS_EmptySet DEF Number
  <2>2. Number(EventSteps, 0 + 1) = 0
    BY <2>1, <1>1, NumberNext DEF EventSteps
  <2>3. Number(EventSteps, 1) = 0
    BY <2>2
  <2>4. Number(EventSteps, 1 + 1) = 1
    BY <2>3, <1>1, NumberNext DEF EventSteps
  <2> QED
    BY <2>1, <2>3, <2>4
<1> QED
  BY <1>1, <1>2, <1>3

LEMMA AuditedStep == Audited /\ Listed /\ [Next]_vars => Audited'
<1> SUFFICES ASSUME Audited, Listed, [Next]_vars PROVE Audited'
  OBVIOUS
<1>0. route' = route /\ A' = A /\ C' = C
  <2>1. route' = route
    BY DEF Next, vars, CreateRun, Opened, StartFails, SkipAudit, Record, RecordFails, Close,
           CloseFails, Load, Call, CallRaises, StoreResult, StoreFails, WriteTemp, Rename,
           FileFails, Answer, Crash
  <2> QED
    BY <2>1 DEF A, C
<1>1. CASE CreateRun
  <2>1. Reaches({"create"})
    BY <1>1 DEF CreateRun
  <2>2. /\ at' = at + 1 /\ run' = "running"
        /\ UNCHANGED <<session, known, incomplete, result, files, refs, listed, answer>>
    BY <1>1 DEF CreateRun, GoOn, disk
  <2>3. at <= 3 /\ at # 3
    <3>1. Script[route][3] = "opened"
      BY Way DEF Audited, Shaped
    <3> QED
      BY <2>1, <3>1, AtStep
  <2>4. \A i \in 1..Len(Script[route]) : i < at' => i < at \/ i = at
    BY <2>1, <2>2, AtStep
  <2> QED
    BY <1>0, <2>1, <2>2, <2>3, <2>4, AtStep DEF Audited, FileSteps
<1>2. CASE Opened
  <2>1. Reaches({"opened"})
    BY <1>2 DEF Opened
  <2>2. /\ known' = (Len(events) = 1) /\ at' = at + 1
        /\ UNCHANGED <<route, session, incomplete, run, result, disk, answer>>
    BY <1>2 DEF Opened, GoOn
  <2>3. (Len(events) = 1) <=> at = 3
    BY <2>1, OpeningRows
  <2>4. known' <=> at = 3
    BY <2>2, <2>3, Zenon
  <2>5. at <= 3 /\ Script[route][at] = "opened"
    BY <2>1, AtStep
  <2>6. at > 2 <=> at = 3
    BY <2>1, <2>5, AtStep
  <2>7. Script[route][at] \notin FileSteps \union {"store", "close", "abort"}
    BY <2>5 DEF FileSteps
  <2>8. (session = "ok" /\ at > 2 => known') /\ (known' => at > 2)
    BY <2>4, <2>6, Zenon
  <2> QED
    BY <2>1, <2>2, <2>7, <2>8, Onward
<1>3. CASE StartFails
  <2>1. Reaches({"create", "opened"})
    BY <1>3 DEF StartFails
  <2>2. /\ at' = 4 /\ session' = "broken" /\ incomplete' = TRUE
        /\ UNCHANGED <<known, run, result, files, refs, listed, answer>>
    BY <1>3 DEF StartFails, Opening, disk
  <2>3. \A i \in 1..Len(Script[route]) : i < 4 => Script[route][i] \in {"create", "opened"}
    <3>1. \A i \in 1..Len(Script[route]) : i < 4 => i = 1 \/ i = 2 \/ i = 3
      BY <2>1, AtStep
    <3>2. /\ Script[route][1] = "create" /\ Script[route][2] = "opened"
          /\ Script[route][3] = "opened"
      BY Way DEF Audited, Shaped
    <3> QED
      BY <3>1, <3>2
  <2>4. at <= 3 /\ 4 <= Len(Script[route])
    BY <2>1, AtStep
  <2> QED
    BY <1>0, <2>1, <2>2, <2>3, <2>4, AtStep DEF Audited
<1>4. CASE SkipAudit
  <2>1. /\ Reaches(AuditSteps) /\ at > 3 /\ ~known /\ at' = at + 1
        /\ UNCHANGED <<route, session, known, incomplete, run, result, disk, answer>>
    BY <1>4 DEF SkipAudit, Opening, GoOn
  <2>2. answer = "none" /\ Script[route][at] \in AuditSteps
    BY <2>1 DEF Reaches
  <2>3. Script[route][at] # "store"
    BY <2>2 DEF AuditSteps, EventSteps, FileSteps
  <2>4. incomplete /\ session = "broken"
    BY <2>1, <2>2 DEF Audited
  <2>5. (session = "ok" /\ at > 2 => known') /\ (known' => at > 2)
    BY <2>1, <2>4
  <2> QED
    BY <2>1, <2>3, <2>4, <2>5, Onward
<1>5. CASE Record
  <2>1. /\ Reaches(EventSteps) /\ known /\ session = "ok" /\ at' = at + 1
        /\ UNCHANGED <<route, session, known, incomplete, run, result, disk, answer>>
    BY <1>5 DEF Record, Audits, GoOn
  <2>2. Script[route][at] \in EventSteps
    BY <2>1 DEF Reaches
  <2>3. Script[route][at] \notin FileSteps \union {"store", "close", "abort"}
    BY <2>2 DEF EventSteps, FileSteps
  <2>4. at > 2 /\ known'
    BY <2>1, AtStep DEF Audited
  <2> QED
    BY <2>1, <2>3, <2>4, Onward
<1>6. CASE RecordFails
  <2>1. /\ Reaches(EventSteps) /\ known /\ at' = at + 1
        /\ session' = "broken" /\ incomplete' = TRUE
        /\ UNCHANGED <<known, run, result, files, refs, listed, answer>>
    BY <1>6 DEF RecordFails, Audits, GoOn, disk
  <2>2. \A i \in 1..Len(Script[route]) : i < at' => i < at \/ i = at
    BY <2>1, AtStep
  <2>3. Script[route][at] # "store" /\ at > 3
    BY <2>1, AtStep DEF EventSteps, Audited
  <2> QED
    BY <1>0, <2>1, <2>2, <2>3, AtStep DEF Audited
<1>7. CASE Close
  <2>1. /\ Reaches({"close", "abort"}) /\ known /\ session = "ok" /\ at' = at + 1
        /\ run' = IF Script[route][at] = "close" THEN "completed" ELSE "failed"
        /\ UNCHANGED <<session, known, incomplete, result, files, refs, listed, answer>>
    BY <1>7 DEF Close, Audits, GoOn, disk
  <2>2. \A i \in 1..Len(Script[route]) : i < at' => i < at \/ i = at
    BY <2>1, AtStep
  <2>3. Script[route][at] \notin FileSteps \union {"store"} /\ at = C
    BY <2>1, AtStep DEF FileSteps
  <2> QED
    BY <1>0, <2>1, <2>2, <2>3, AtStep DEF Audited
<1>8. CASE CloseFails
  <2>1. /\ Reaches({"close", "abort"}) /\ known /\ at' = at + 2
        /\ session' = "broken" /\ incomplete' = TRUE
        /\ UNCHANGED <<known, run, result, files, refs, listed, answer>>
    BY <1>8 DEF CloseFails, Audits, disk
  <2>2. \A i \in 1..Len(Script[route]) : i < at' => i < at \/ i = at \/ i = at + 1
    BY <2>1, AtStep
  <2>3. Script[route][at] # "store" /\ at = C /\ Script[route][at + 1] # "store"
    <3>1. at = C /\ Script[route][at] # "store"
      BY <2>1, AtStep
    <3>2. \A i \in 1..Len(Script[route]) : Script[route][i] = "store" => i < C
      BY Way DEF Audited, Shaped
    <3>3. C + 1 \in 1..Len(Script[route]) /\ ~(C + 1 < C)
      BY <2>1, AtStep
    <3> QED
      BY <3>1, <3>2, <3>3
  <2>4. at > 3 /\ at' \in 1..(Len(Script[route]) + 1) /\ at \in Nat
    BY <2>1, <2>3, AtStep
  <2> QED
    BY <1>0, <2>1, <2>2, <2>3, <2>4, AtStep DEF Audited
<1>9. CASE Load \/ Call
  <2>1. /\ Reaches({"load", "call"})
        /\ UNCHANGED <<route, session, known, incomplete, run, result, disk>>
        /\ \/ at' = at + 1 /\ UNCHANGED answer
           \/ at' = at /\ answer' = "error"
    BY <1>9 DEF Load, Call, Reaches, Raise, GoOn
  <2>2. CASE at' = at + 1 /\ UNCHANGED answer
    <3>1. Script[route][at] \in {"load", "call"}
      BY <2>1 DEF Reaches
    <3>2. Script[route][at] \notin FileSteps \union {"store", "close", "abort"}
      BY <3>1 DEF FileSteps
    <3>3. at > 3 /\ at > 2
      BY <2>1, <3>1, AtStep
    <3>4. (session = "ok" /\ at > 2 => known') /\ (known' => at > 2)
      BY <2>1, <3>3 DEF Audited
    <3> QED
      BY <2>1, <2>2, <3>2, <3>4, Onward
  <2>3. CASE at' = at /\ answer' = "error"
    BY <1>0, <2>1, <2>3, AtStep DEF Audited, disk
  <2> QED
    BY <2>1, <2>2, <2>3
<1>10. CASE CallRaises
  BY <1>0, <1>10 DEF CallRaises, Raise, Audited, disk
<1>11. CASE StoreResult
  <2>1. /\ Reaches({"store"}) /\ session = "ok" /\ at' = at + 1 /\ result' = TRUE
        /\ UNCHANGED <<session, known, incomplete, run, files, refs, listed, answer>>
    BY <1>11 DEF StoreResult, GoOn, disk
  <2>2. \A i \in 1..Len(Script[route]) : i < at' => i < at \/ i = at
    BY <2>1, AtStep
  <2>3. Script[route][at] \notin FileSteps /\ at < C /\ at > 3
    BY <2>1, AtStep DEF FileSteps
  <2> QED
    BY <1>0, <2>1, <2>2, <2>3, AtStep DEF Audited
<1>12. CASE StoreFails
  <2>1. /\ Reaches({"store"}) /\ session' = "broken" /\ answer' = "error"
        /\ UNCHANGED <<at, known, incomplete, run, result, files, refs, listed>>
    BY <1>12 DEF StoreFails, Raise, disk
  <2>2. at > 3
    BY <2>1, AtStep
  <2> QED
    BY <1>0, <2>1, <2>2 DEF Audited
<1>13. CASE WriteTemp
  BY <1>0, <1>13 DEF WriteTemp, Audited
<1>14. CASE Rename
  <2>1. /\ Reaches(FileSteps) /\ known /\ at' = at + 1
        /\ files' = files \union {Script[route][at]}
        /\ \/ Script[route][at] = "manifest" /\ listed' = refs /\ UNCHANGED refs
           \/ /\ Script[route][at] # "manifest"
              /\ refs' = refs \union {"artifact"} /\ UNCHANGED listed
        /\ UNCHANGED <<session, known, incomplete, run, result, answer>>
    BY <1>14 DEF Rename, Audits, GoOn
  <2>2. \A i \in 1..Len(Script[route]) : i < at' => i < at \/ i = at
    BY <2>1, AtStep
  <2>3. Script[route][at] \in FileSteps /\ Script[route][at] # "store" /\ at < C /\ at > 3
    BY <2>1, AtStep DEF FileSteps
  <2>4. Script[route][at] = "artifact" <=> at = A
    BY <2>1, AtStep
  <2>5. files' \subseteq FileSteps /\ refs' \union listed' \subseteq {"artifact"} \intersect files'
    <3>1. files' \subseteq FileSteps /\ files \subseteq files'
      BY <2>1, <2>3 DEF Audited
    <3>2. Script[route][at] # "manifest" => "artifact" \in files'
      BY <2>1, <2>3 DEF FileSteps
    <3> QED
      BY <2>1, <3>1, <3>2 DEF Audited
  <2>6. /\ at \in Nat /\ A \in Nat /\ C \in Nat /\ answer = "none"
        /\ run # "completed" /\ ~(C < at')
    BY <2>1, <2>3, AtStep DEF Audited
  <2>7. refs' # {} => A < at'
    <3>1. CASE Script[route][at] = "manifest"
      BY <2>1, <2>6, <3>1 DEF Audited
    <3>2. CASE Script[route][at] # "manifest"
      <4>1. at = A
        BY <2>3, <2>4, <3>2 DEF FileSteps
      <4> QED
        BY <2>1, <2>6, <4>1
    <3> QED
      BY <3>1, <3>2
  <2>8. ~incomplete' => \A i \in 1..Len(Script[route]) :
           i < at' /\ Script[route][i] \in FileSteps => Script[route][i] \in files'
    BY <2>1, <2>2 DEF Audited
  <2>9. \A i \in 1..Len(Script[route]) : i < at' /\ Script[route][i] = "store" => result'
    BY <2>1, <2>2, <2>3 DEF Audited
  <2>10. at' \in 1..(Len(Script[route]) + 1) /\ at' > 3
    BY <2>1, <2>3, AtStep
  <2> QED
    BY <1>0, <2>1, <2>3, <2>5, <2>6, <2>7, <2>8, <2>9, <2>10 DEF Audited
<1>15. CASE FileFails
  <2>1. /\ Reaches(FileSteps) /\ known /\ incomplete' = TRUE
        /\ at' = IF Script[route][at + 1] = "built" THEN at + 2 ELSE at + 1
        /\ UNCHANGED <<session, known, run, result, files, refs, listed, answer>>
    BY <1>15 DEF FileFails, Audits
  <2>2. Script[route][at] # "store" /\ at < C /\ at > 3
    BY <2>1, AtStep DEF FileSteps
  <2>3. \A i \in 1..Len(Script[route]) :
            i < at' => \/ i < at
                       \/ i = at
                       \/ i = at + 1 /\ Script[route][i] = "built"
    BY <2>1, AtStep
  <2>4. at' \in 1..(Len(Script[route]) + 1) /\ at' > at
    BY <2>1, <2>2, AtStep
  <2>5. \A i \in 1..Len(Script[route]) : i < at' /\ Script[route][i] = "store" => result'
    BY <2>1, <2>2, <2>3 DEF Audited
  <2>6. /\ at \in Nat /\ A \in Nat /\ C \in Nat /\ at' \in Nat /\ answer = "none"
        /\ run # "completed"
        /\ refs' # {} => A < at'
    BY <2>1, <2>2, <2>4, AtStep DEF Audited
  <2> QED
    BY <1>0, <2>1, <2>2, <2>4, <2>5, <2>6 DEF Audited
<1>16. CASE Answer
  BY <1>0, <1>16 DEF Answer, Audited, disk
<1>17. CASE Crash \/ UNCHANGED vars
  BY <1>0, <1>17 DEF Crash, vars, Audited, disk
<1> QED
  BY <1>1, <1>2, <1>3, <1>4, <1>5, <1>6, <1>7, <1>8, <1>9, <1>10, <1>11, <1>12, <1>13,
     <1>14, <1>15, <1>16, <1>17 DEF Next

-----------------------------------------------------------------------------
(* The rows against the steps *)

\* A step that writes no row leaves what the rows hold.
LEMMA HoldsKept ==
    ASSUME NEW kinds, NEW n, UNCHANGED <<route, events>>
    PROVE  Holds(kinds, n)' <=> Holds(kinds, n)
  BY DEF Holds, Number

\* A step that is no event of these kinds is already told.
LEMMA HoldsGoOn ==
    ASSUME NEW kinds, NEW n \in Nat, Holds(kinds, n), Script[route][n + 1] \notin kinds
    PROVE  Holds(kinds, n + 1)
<1>1. Number(kinds, n + 1) = Number(kinds, n)
  BY NumberNext
<1>2. \A i \in 1..(n + 1) : i \in 1..n \/ i = n + 1
  OBVIOUS
<1> QED
  BY <1>1, <1>2, Zenon DEF Holds

\* A row for the next step.
LEMMA HoldsRecord ==
    ASSUME NEW kinds, NEW n \in Nat, Holds(kinds, n), Script[route][n + 1] \in kinds,
           events \in Seq(EventSteps), Script[route][n + 1] \in EventSteps,
           events' = Append(events, Script[route][n + 1]), UNCHANGED route
    PROVE  Holds(kinds, n + 1)'
<1> DEFINE row == Script[route][n + 1]
           last == Number(kinds, n)
           next == n + 1
<1>1. Number(kinds, next) = last + 1 /\ last \in Nat
  BY NumberNext, NumberType
<1>2. /\ Len(events) = last
      /\ \A i \in 1..n : Script[route][i] \in kinds =>
            events[Number(kinds, i)] = Script[route][i]
  BY DEF Holds
<1>3. \A i \in 1..n : Script[route][i] \in kinds => Number(kinds, i) \in 1..last
  BY NumberGrows
<1>4. \A i \in 1..next : i \in 1..n \/ i = next
  OBVIOUS
<1>5. row \in EventSteps /\ row = Script[route][next] /\ events' = Append(events, row)
  OBVIOUS
<1>6. \A k : Number(kinds, k)' = Number(kinds, k)
  BY DEF Number
<1> HIDE DEF row, last, next
<1>7. /\ Len(events') = last + 1 /\ events'[last + 1] = row
      /\ \A k \in 1..last : events'[k] = events[k]
  BY <1>1, <1>2, <1>5
<1>8. \A i \in 1..next : Script[route][i] \in kinds =>
         events'[Number(kinds, i)] = Script[route][i]
  BY <1>1, <1>2, <1>3, <1>4, <1>5, <1>7, Zenon
<1>9. Holds(kinds, next)'
  BY <1>1, <1>6, <1>7, <1>8, Zenon DEF Holds, next
<1> QED
  BY <1>9 DEF next

\* Without a PATCH_BUILT among them, the events are the same with it or without.
LEMMA HoldsDrop ==
    ASSUME NEW n \in Nat, Holds(EventSteps, n),
           \A i \in 1..n : Script[route][i] # "built"
    PROVE  Holds(EventSteps \ {"built"}, n)
<1> DEFINE Rest == EventSteps \ {"built"}
<1>1. \A i \in 1..n : Script[route][i] \in Rest <=> Script[route][i] \in EventSteps
  OBVIOUS
<1>2. \A k \in 0..n : Number(Rest, k) = Number(EventSteps, k)
  <2>1. ASSUME NEW k \in 0..n
        PROVE  {i \in 1..k : Script[route][i] \in Rest}
                  = {i \in 1..k : Script[route][i] \in EventSteps}
    <3>1. \A i \in 1..k : i \in 1..n
      OBVIOUS
    <3> QED
      BY <1>1, <3>1
  <2> QED
    BY <2>1 DEF Number
<1>3. n \in 0..n /\ \A i \in 1..n : i \in 0..n
  OBVIOUS
<1> QED
  BY <1>1, <1>2, <1>3 DEF Holds

LEMMA ListedInit == Init => Listed
<1> SUFFICES ASSUME Init PROVE Listed
  OBVIOUS
<1>1. events = <<>> /\ at = 1
  BY DEF Init
<1>2. Number(EventSteps, 0) = 0
  <2>1. {i \in 1..0 : Script[route][i] \in EventSteps} = {}
    OBVIOUS
  <2> QED
    BY <2>1, FS_EmptySet DEF Number
<1>3. Holds(EventSteps, 0)
  BY <1>1, <1>2 DEF Holds
<1>4. Recorded(0) /\ 0 \in Nat
  BY <1>1, <1>3 DEF Recorded
<1> QED
  BY <1>1, <1>4 DEF Listed

\* A step that writes no row and does not go on with a session that is not broken.
LEMMA RowsStay ==
    ASSUME Listed, UNCHANGED <<route, events>>, Dropped => Dropped',
           at \in Nat, at' \in Nat, at <= at',
           session' = "ok" => session = "ok" /\ at' = at
    PROVE  Listed'
<1>1. PICK n \in Nat : Recorded(n)
  BY DEF Listed
<1>2. Recorded(n)'
  BY <1>1, HoldsKept DEF Recorded
<1> QED
  BY <1>2 DEF Listed

\* A step that is no event.
LEMMA RowsGoOn ==
    ASSUME Listed, UNCHANGED <<route, events, session>>, Dropped => Dropped',
           at \in Nat, at' = at + 1, Script[route][at] \notin EventSteps
    PROVE  Listed'
<1>1. CASE session # "ok"
  BY <1>1, RowsStay
<1>2. CASE session = "ok"
  <2>1. PICK n \in Nat : Recorded(n)
    BY DEF Listed
  <2>2. n + 1 = at
    BY <1>2, <2>1 DEF Recorded
  <2>3. Script[route][n + 1] \notin EventSteps /\ Script[route][n + 1] \notin EventSteps \ {"built"}
    BY <2>2
  <2>4. Holds(EventSteps, n) => Holds(EventSteps, n + 1)'
    BY <2>3, HoldsGoOn, HoldsKept
  <2>5. Holds(EventSteps \ {"built"}, n) => Holds(EventSteps \ {"built"}, n + 1)'
    BY <2>3, HoldsGoOn, HoldsKept
  <2>6. Recorded(n + 1)'
    BY <2>1, <2>2, <2>4, <2>5 DEF Recorded
  <2> QED
    BY <2>6 DEF Listed
<1> QED
  BY <1>1, <1>2

\* A step that is an event, and is told.
LEMMA RowAdded ==
    ASSUME Listed, session = "ok", UNCHANGED <<route, session>>, Dropped => Dropped',
           at \in Nat, at' = at + 1, Script[route][at] \in EventSteps,
           events' = Append(events, Script[route][at]),
           Dropped => Script[route][at] # "built"
    PROVE  Listed'
<1>1. PICK n \in Nat : Recorded(n)
  BY DEF Listed
<1>2. n + 1 = at
  BY <1>1 DEF Recorded
<1>3. events \in Seq(EventSteps) /\ events' \in Seq(EventSteps)
  BY DEF Listed
<1>4. Script[route][n + 1] \in EventSteps /\ events' = Append(events, Script[route][n + 1])
  BY <1>2
<1>5. Holds(EventSteps, n) => Holds(EventSteps, n + 1)'
  BY <1>3, <1>4, HoldsRecord
<1>6. ASSUME Dropped, Holds(EventSteps \ {"built"}, n)
      PROVE  Holds(EventSteps \ {"built"}, n + 1)'
  <2>1. Script[route][n + 1] \in EventSteps \ {"built"}
    BY <1>2, <1>4, <1>6
  <2> QED
    BY <1>3, <1>4, <1>6, <2>1, HoldsRecord
<1>7. Recorded(n + 1)'
  BY <1>1, <1>2, <1>5, <1>6 DEF Recorded
<1> QED
  BY <1>3, <1>7 DEF Listed

LEMMA ListedStep == Audited /\ Listed /\ [Next]_vars => Listed'
<1> SUFFICES ASSUME Audited, Listed, [Next]_vars PROVE Listed'
  OBVIOUS
<1>0. /\ at \in Nat /\ A \in Nat
      /\ \A steps : Reaches(steps) =>
            /\ Script[route][at] \in steps
            /\ Script[route][at] = "artifact" <=> at = A
            /\ Script[route][at] = "built" => at = A + 1
  <2>1. at \in Nat /\ A \in Nat
    BY Way DEF Audited, Shaped
  <2> QED
    BY <2>1, AtStep
<1>1. UNCHANGED route => A' = A
  BY DEF A
<1>2. CASE CreateRun
  <2>1. /\ Reaches({"create"}) /\ at' = at + 1
        /\ UNCHANGED <<route, events, session, incomplete, refs>>
    BY <1>2 DEF CreateRun, GoOn, disk
  <2> QED
    BY <1>0, <1>1, <2>1, RowsGoOn DEF Dropped, EventSteps
<1>3. CASE Opened
  <2>1. /\ Reaches({"opened"}) /\ at' = at + 1 /\ events' = Append(events, "opened")
        /\ UNCHANGED <<route, session, incomplete, refs>>
    BY <1>3 DEF Opened, GoOn, disk
  <2>2. session = "ok" /\ Script[route][at] = "opened"
    <3>1. at <= 3 /\ at \in Nat
      BY <2>1, AtStep
    <3> QED
      BY <1>0, <2>1, <3>1 DEF Audited
  <2> QED
    BY <1>0, <1>1, <2>1, <2>2, RowAdded DEF Dropped, EventSteps
<1>4. CASE StartFails
  <2>1. /\ Reaches({"create", "opened"}) /\ at' = 4 /\ session' = "broken" /\ incomplete' = TRUE
        /\ UNCHANGED <<route, events, refs>>
    BY <1>4 DEF StartFails, Opening, disk
  <2>2. at <= at'
    BY <2>1, AtStep
  <2> QED
    BY <1>0, <1>1, <2>1, <2>2, RowsStay DEF Dropped
<1>5. CASE SkipAudit
  <2>1. /\ Reaches(AuditSteps) /\ at > 3 /\ ~known /\ at' = at + 1
        /\ UNCHANGED <<route, events, session, incomplete, refs>>
    BY <1>5 DEF SkipAudit, Opening, GoOn, disk
  <2>2. session = "broken"
    BY <2>1 DEF Audited
  <2> QED
    BY <1>0, <1>1, <2>1, <2>2, RowsStay DEF Dropped
<1>6. CASE Record
  <2>1. /\ Reaches(EventSteps) /\ session = "ok" /\ at' = at + 1
        /\ events' = Append(events, Script[route][at])
        /\ UNCHANGED <<route, session, incomplete, refs>>
    BY <1>6 DEF Record, Audits, GoOn, disk
  <2>2. Dropped => Script[route][at] # "built"
    BY <1>0, <2>1 DEF Dropped
  <2> QED
    BY <1>0, <1>1, <2>1, <2>2, RowAdded DEF Dropped
<1>7. CASE RecordFails \/ CloseFails
  <2>1. /\ at' \in {at + 1, at + 2} /\ session' = "broken" /\ incomplete' = TRUE
        /\ UNCHANGED <<route, events, refs>>
    BY <1>7 DEF RecordFails, CloseFails, GoOn, disk
  <2> QED
    BY <1>0, <1>1, <2>1, RowsStay DEF Dropped
<1>8. CASE Close \/ StoreResult
  <2>1. /\ Reaches({"close", "abort", "store"}) /\ at' = at + 1
        /\ UNCHANGED <<route, events, session, incomplete, refs>>
    BY <1>8 DEF Close, StoreResult, Audits, Reaches, GoOn, disk
  <2> QED
    BY <1>0, <1>1, <2>1, RowsGoOn DEF Dropped, EventSteps
<1>9. CASE Load \/ Call
  <2>1. /\ Reaches({"load", "call"})
        /\ at' = at + 1 \/ at' = at
        /\ UNCHANGED <<route, events, session, incomplete, refs>>
    BY <1>9 DEF Load, Call, Reaches, GoOn, disk
  <2>2. CASE at' = at
    BY <1>0, <1>1, <2>1, <2>2, RowsStay DEF Dropped
  <2>3. CASE at' = at + 1
    <3>1. Script[route][at] \in {"load", "call"}
      BY <1>9 DEF Load, Call, Reaches
    <3> QED
      BY <1>0, <1>1, <2>1, <2>3, <3>1, RowsGoOn DEF Dropped, EventSteps
  <2> QED
    BY <2>1, <2>2, <2>3
<1>10. CASE CallRaises \/ WriteTemp \/ Answer \/ Crash \/ UNCHANGED vars
  <2>1. UNCHANGED <<route, at, events, session, incomplete, refs>>
    BY <1>10 DEF CallRaises, WriteTemp, Answer, Crash, vars, disk
  <2> QED
    BY <1>0, <1>1, <2>1, RowsStay DEF Dropped
<1>11. CASE StoreFails
  <2>1. session' = "broken" /\ UNCHANGED <<route, at, events, incomplete, refs>>
    BY <1>11 DEF StoreFails, disk
  <2> QED
    BY <1>0, <1>1, <2>1, RowsStay DEF Dropped
<1>12. CASE Rename
  <2>1. /\ Reaches(FileSteps) /\ at' = at + 1
        /\ Script[route][at] = "manifest" => UNCHANGED refs
        /\ UNCHANGED <<route, events, session, incomplete>>
    BY <1>12 DEF Rename, Audits, GoOn
  <2>2. Script[route][at] \in FileSteps
    BY <1>0, <2>1
  <2>3. Dropped => Dropped'
    <3>1. Dropped => Script[route][at] = "manifest"
      BY <1>0, <2>1, <2>2 DEF Dropped, FileSteps
    <3> QED
      BY <1>0, <1>1, <2>1, <3>1 DEF Dropped
  <2>4. Script[route][at] \notin EventSteps
    BY <2>2 DEF EventSteps, FileSteps
  <2> QED
    BY <1>0, <2>1, <2>3, <2>4, RowsGoOn
<1>13. CASE FileFails
  <2>1. /\ Reaches(FileSteps) /\ incomplete' = TRUE
        /\ at' = IF Script[route][at + 1] = "built" THEN at + 2 ELSE at + 1
        /\ UNCHANGED <<route, events, session, refs>>
    BY <1>13 DEF FileFails, Audits, disk
  <2>2. Script[route][at] \notin EventSteps
    BY <1>0, <2>1 DEF EventSteps, FileSteps
  <2>3. Dropped => Dropped'
    BY <1>0, <1>1, <2>1 DEF Dropped
  <2>4. CASE Script[route][at + 1] # "built"
    BY <1>0, <2>1, <2>2, <2>3, <2>4, RowsGoOn
  <2>5. CASE session # "ok"
    BY <1>0, <2>1, <2>3, <2>5, RowsStay
  <2>6. CASE session = "ok" /\ Script[route][at + 1] = "built"
    <3>1. /\ at = A /\ \A i \in 1..at : Script[route][i] # "built"
      <4>1. /\ Shaped(Script[route], A, C) /\ Len(Script[route]) \in Nat
        BY Way DEF Audited
      <4>2. at < C /\ C < Len(Script[route]) /\ C \in Nat
        BY <2>1, AtStep DEF FileSteps
      <4>3. at + 1 \in 1..Len(Script[route])
        BY <1>0, <4>1, <4>2
      <4>4. at + 1 = A + 1
        BY <2>6, <4>1, <4>3 DEF Shaped
      <4>5. at = A
        BY <1>0, <4>4
      <4>6. ASSUME NEW i \in 1..at PROVE Script[route][i] # "built"
        <5>1. i \in 1..Len(Script[route]) /\ i # A + 1
          BY <1>0, <4>1, <4>2, <4>5
        <5> QED
          BY <4>1, <5>1 DEF Shaped
      <4> QED
        BY <4>5, <4>6
    <3>2. refs = {} /\ ~Dropped
      BY <1>0, <3>1 DEF Audited, Dropped
    <3>3. PICK n \in Nat : Recorded(n)
      BY DEF Listed
    <3>4. n + 1 = at /\ Holds(EventSteps, n)
      BY <2>6, <3>2, <3>3 DEF Recorded
    <3>5. Holds(EventSteps \ {"built"}, n)
      <4>1. \A i \in 1..n : Script[route][i] # "built"
        BY <1>0, <3>1, <3>4
      <4> QED
        BY <3>4, <4>1, HoldsDrop
    <3>6. Holds(EventSteps \ {"built"}, n + 1)
      BY <2>2, <3>4, <3>5, HoldsGoOn
    <3>7. Holds(EventSteps \ {"built"}, n + 2)
      <4>1. n + 1 \in Nat /\ (n + 1) + 1 = n + 2 /\ n + 2 = at + 1
        BY <3>4
      <4>2. Script[route][n + 2] \notin EventSteps \ {"built"}
        BY <2>6, <4>1
      <4> QED
        BY <3>6, <4>1, <4>2, HoldsGoOn
    <3>8. Holds(EventSteps \ {"built"}, n + 2)'
      BY <2>1, <3>7, HoldsKept
    <3>9. Dropped' /\ n + 2 < at' /\ n + 2 \in Nat
      BY <1>0, <1>1, <2>1, <2>6, <3>1, <3>2, <3>4 DEF Dropped
    <3>10. n + 2 + 1 = at'
      BY <2>1, <2>6, <3>4
    <3>11. Recorded(n + 2)'
      BY <3>8, <3>9, <3>10 DEF Recorded
    <3> QED
      BY <2>1, <3>9, <3>11 DEF Listed
  <2> QED
    BY <2>4, <2>5, <2>6
<1> QED
  BY <1>2, <1>3, <1>4, <1>5, <1>6, <1>7, <1>8, <1>9, <1>10, <1>11, <1>12, <1>13 DEF Next

-----------------------------------------------------------------------------
(* Theorems *)

LEMMA Kept == Spec => [](Flags /\ Audited /\ Listed)
<1>1. Init => Flags /\ Audited /\ Listed
  BY FlagsInit, AuditedInit, ListedInit
<1>2. Flags /\ Audited /\ Listed /\ [Next]_vars => (Flags /\ Audited /\ Listed)'
  BY FlagsStep, AuditedStep, ListedStep
<1> QED
  BY <1>1, <1>2, PTL DEF Spec

\* The request, its session, its rows and its files have their types, and a session that
\* is to be rolled back has marked the answer still to come (AuditScope,
\* integration.py:55).
THEOREM TypeCorrect == Spec => []TypeOK
<1>1. Audited /\ Listed =>
         /\ route \in Routes
         /\ at \in 1..(Len(Script[route]) + 1)
         /\ session \in {"ok", "broken"}
         /\ run \in {"absent", "running", "completed", "failed"}
         /\ events \in Seq(EventSteps)
         /\ files \subseteq FileSteps
         /\ refs \union listed \subseteq {"artifact"}
         /\ answer \in {"none", "ok", "refused", "error", "lost"}
         /\ session = "broken" /\ answer = "none" => incomplete
  BY DEF Audited, Listed
<1>2. Flags /\ Audited /\ Listed => TypeOK
  BY <1>1, Zenon DEF Flags, TypeOK
<1> QED
  BY <1>2, Kept, PTL

\* Whatever fails and wherever the server stops, the rows are a beginning of the
\* events of the request, each under its own number; a PATCH_BUILT is passed over only
\* when the patch file could not be written (RunRecorder.record, recorder.py:36). It
\* rests on Recorded: the session nobody rolls back writes no row after the one that
\* failed.
THEOREM NoRowMissing == Spec => []NoHole
<1>1. Audited /\ Listed => NoHole
  <2> SUFFICES ASSUME Audited, Listed PROVE NoHole
    OBVIOUS
  <2>1. PICK n \in Nat : Recorded(n)
    BY DEF Listed
  <2>2. n \in 0..Len(Script[route])
    <3>1. Len(Script[route]) \in Nat /\ at \in 1..(Len(Script[route]) + 1) /\ n < at
      BY <2>1, Way DEF Audited, Recorded
    <3> QED
      BY <3>1
  <2>3. \/ Holds(EventSteps, n)
        \/ refs = {} /\ Holds(EventSteps \ {"built"}, n)
    BY <2>1 DEF Recorded, Dropped
  <2> QED
    BY <2>2, <2>3 DEF NoHole
<1> QED
  BY <1>1, Kept, PTL

\* An answer that is not marked is telling the truth: the run is closed, and every event
\* and file of the request is there (AuditScope.response_fields, integration.py:55).
THEOREM UnmarkedIsWhole == Spec => []AnswerIsHonest
<1>1. Audited /\ Listed => AnswerIsHonest
  <2> SUFFICES ASSUME Audited, Listed, answer = "ok", ~incomplete
               PROVE  /\ run = "completed"
                      /\ Holds(EventSteps, Len(Script[route]))
                      /\ ToSet(Script[route]) \intersect FileSteps \subseteq files
    BY DEF AnswerIsHonest
  <2>1. /\ Shaped(Script[route], A, C) /\ Script[route][C] = "close"
        /\ Len(Script[route]) \in Nat /\ at = Len(Script[route]) + 1
        /\ DOMAIN Script[route] = 1..Len(Script[route])
    BY Way DEF Audited
  <2>2. run = "completed"
    <3>1. C < at
      BY <2>1 DEF Shaped
    <3> QED
      BY <2>1, <3>1 DEF Audited
  <2>3. Holds(EventSteps, Len(Script[route]))
    <3>1. PICK n \in Nat : Recorded(n)
      BY DEF Listed
    <3>2. n + 1 = at /\ Holds(EventSteps, n)
      BY <3>1 DEF Audited, Recorded, Dropped
    <3>3. n = Len(Script[route])
      BY <2>1, <3>2
    <3> QED
      BY <3>2, <3>3
  <2>4. ToSet(Script[route]) \intersect FileSteps \subseteq files
    <3>1. \A i \in 1..Len(Script[route]) : Script[route][i] \in FileSteps => Script[route][i] \in files
      <4>1. \A i \in 1..Len(Script[route]) : i < at
        BY <2>1
      <4> QED
        BY <4>1 DEF Audited
    <3> QED
      BY <2>1, <3>1 DEF ToSet
  <2> QED
    BY <2>2, <2>3, <2>4
<1> QED
  BY <1>1, Kept, PTL

\* A run is completed only after its result is stored (analyze, main.py:668, and
\* recorder.py:54).
THEOREM CompletedAfterResult == Spec => []CompletedIsStored
<1>1. Audited => CompletedIsStored
  <2> SUFFICES ASSUME Audited, run = "completed", "store" \in ToSet(Script[route])
               PROVE  result
    BY DEF CompletedIsStored
  <2>1. /\ Shaped(Script[route], A, C) /\ Len(Script[route]) \in Nat
        /\ DOMAIN Script[route] = 1..Len(Script[route])
    BY Way DEF Audited
  <2>2. PICK i \in 1..Len(Script[route]) : Script[route][i] = "store"
    BY <2>1 DEF ToSet
  <2>3. i < C /\ C < at /\ at \in Nat /\ C \in Nat /\ i \in Nat
    BY <2>1, <2>2 DEF Audited, Shaped
  <2>4. i < at
    BY <2>3
  <2> QED
    BY <2>2, <2>4 DEF Audited
<1> QED
  BY <1>1, Kept, PTL

\* A manifest lists only files that are there, whole, wherever the server stops
\* (put_bytes, artifacts.py:43).
THEOREM ManifestKept == Spec => []ManifestVerifies
<1>1. Audited => ManifestVerifies
  BY DEF Audited, ManifestVerifies
<1> QED
  BY <1>1, Kept, PTL
=============================================================================
