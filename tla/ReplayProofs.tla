---------------------------- MODULE ReplayProofs ----------------------------
(***************************************************************************)
(* Theorems about Replay, for any commits, fixture files, drafts and       *)
(* tests, and any number of runs and faults.                               *)
(***************************************************************************)
EXTENDS Replay, SequenceTheorems, FiniteSetTheorems, TLAPS

-----------------------------------------------------------------------------
(* Sequences and the current case *)

LEMMA GrowSeq ==
    ASSUME NEW s, s \in Seq(ToSet(s)), NEW x
    PROVE  /\ Append(s, x) \in Seq(ToSet(Append(s, x)))
           /\ Len(s) \in Nat /\ Len(Append(s, x)) = Len(s) + 1
           /\ \A i \in 1..Len(s) : Append(s, x)[i] = s[i]
           /\ Append(s, x)[Len(s) + 1] = x
<1> DEFINE T == ToSet(s) \union {x}
<1>1. s \in Seq(T) /\ x \in T
  BY SeqMonotonic
<1>2. /\ Append(s, x) \in Seq(T) /\ Len(s) \in Nat /\ Len(Append(s, x)) = Len(s) + 1
      /\ \A i \in 1..Len(s) : Append(s, x)[i] = s[i]
      /\ Append(s, x)[Len(s) + 1] = x
  BY <1>1, AppendProperties
<1>3. Append(s, x) \in Seq(ToSet(Append(s, x)))
  BY <1>2, SeqOfRange DEF ToSet, Range
<1> QED
  BY <1>2, <1>3

LEMMA NoSeq == \A s : s = <<>> => s \in Seq(ToSet(s)) /\ Len(s) = 0
<1> SUFFICES ASSUME NEW s, s = <<>> PROVE s \in Seq(ToSet(s)) /\ Len(s) = 0
  OBVIOUS
<1> DEFINE T == ToSet(s)
<1> HIDE DEF T
<1>1. s \in Seq(T)
  OBVIOUS
<1> QED
  BY <1>1 DEF T

\* Where the command is between the start of a case and its outcome.
InCase == {"check", "enter", "draft", "index", "model", "apply", "golden", "detect",
           "remove", "prune", "rmtree", "leave", "answer"}
\* Where the case has a temporary root.
Rooted == InCase \ {"check", "enter"}

GotFields == {"applyOk", "golden", "files", "replacements", "retrieved", "failure",
              "draft", "searched"}

\* While a case is on, there is a fixture it is of.
Shape ==
    /\ setup.fixtures \in Seq(ToSet(setup.fixtures))
    /\ outcomes \in Seq(ToSet(outcomes))
    /\ pc \in InCase \union {"down", "report"}
    /\ Len(outcomes) <= Len(setup.fixtures)
    /\ pc \in InCase => Len(outcomes) < Len(setup.fixtures)
    /\ DOMAIN got = GotFields
    /\ got.failure \in {"none", "pipeline_failed", "cleanup_failed"}
    /\ trouble \in {"none", "setup", "raised"} /\ problems \in BOOLEAN

\* What a case leaves in the memory of the command.
CaseEnds(failure, answer, checks) ==
    /\ outcomes' \in Seq(ToSet(outcomes')) /\ Len(outcomes') = Len(outcomes) + 1
    /\ \A i \in 1..Len(outcomes) : outcomes'[i] = outcomes[i]
    /\ LET o == outcomes'[Len(outcomes) + 1]
       IN  /\ o.failure = failure /\ o.answer = answer /\ o.checks = checks
           /\ o.expected = Fixture.expected
           /\ o.files = got.files /\ o.replacements = got.replacements
           /\ o.applyOk = got.applyOk /\ o.golden = got.golden
    /\ pc' \in {"check", "report"}
    /\ pc' = "check" => Len(outcomes) + 1 < Len(setup.fixtures)
    /\ tmp' = 0 /\ got' = Nothing /\ trouble' = "none" /\ problems' = FALSE

LEMMA FinishEnds ==
    ASSUME Shape, pc \in InCase,
           NEW failure, NEW answer, NEW checks, Finish(failure, answer, checks)
    PROVE  CaseEnds(failure, answer, checks)
<1> DEFINE o == [case_id |-> Fixture.case_id,
                 expected |-> Fixture.expected, answer |-> answer,
                 checks |-> checks, files |-> got.files,
                 replacements |-> got.replacements,
                 retrieved |-> got.retrieved, applyOk |-> got.applyOk,
                 golden |-> got.golden, failure |-> failure]
<1>1. /\ o.failure = failure /\ o.answer = answer /\ o.checks = checks
      /\ o.expected = Fixture.expected
      /\ o.files = got.files /\ o.replacements = got.replacements
      /\ o.applyOk = got.applyOk /\ o.golden = got.golden
  OBVIOUS
<1>2. /\ outcomes' = Append(outcomes, o)
      /\ pc' = IF Len(outcomes) + 1 = Len(setup.fixtures) THEN "report" ELSE "check"
      /\ tmp' = 0 /\ got' = Nothing /\ trouble' = "none" /\ problems' = FALSE
  BY DEF Finish, Outcome
<1> HIDE DEF o
<1>3. /\ outcomes' \in Seq(ToSet(outcomes')) /\ Len(outcomes') = Len(outcomes) + 1
      /\ Len(outcomes) \in Nat
      /\ \A i \in 1..Len(outcomes) : outcomes'[i] = outcomes[i]
      /\ outcomes'[Len(outcomes) + 1] = o
  BY <1>2, GrowSeq DEF Shape
<1>4. Len(outcomes) < Len(setup.fixtures) /\ Len(setup.fixtures) \in Nat
  BY DEF Shape
<1> QED
  BY <1>1, <1>2, <1>3, <1>4 DEF CaseEnds

\* The answer is the last step of a case. The failure of the pipeline or of the
\* cleanup stays; without one, and with an answer that could be read, the
\* outcome has the answer and the checks of the fixture.
AnswerOutcome(failure, answer, checks) ==
    \/ /\ failure = got.failure
       /\ failure = "none" =>
            /\ answer = ExtractAnswerDiff(Base, Commits[Fixture.answer], Fixture)
            /\ checks = CheckExpected(Commits[Fixture.answer], Fixture.expected)
    \/ got.failure = "none" /\ failure = "answer_diff_failed"

LEMMA AnswerEnds ==
    ASSUME Answer
    PROVE  /\ pc = "answer" /\ UNCHANGED <<original, disk, cache, run, setup, stored>>
           /\ faults' = faults \/ Fault
           /\ \E failure, answer, checks :
                /\ Finish(failure, answer, checks)
                /\ AnswerOutcome(failure, answer, checks)
<1> DEFINE answer == ExtractAnswerDiff(Base, Commits[Fixture.answer], Fixture)
           checks == CheckExpected(Commits[Fixture.answer], Fixture.expected)
           failed == IF got.failure = "none" THEN "answer_diff_failed" ELSE got.failure
<1>1. pc = "answer" /\ UNCHANGED <<original, disk, cache, run, setup, stored>>
  BY Zenon DEF Answer
<1>2. \/ Finish(failed, NoAnswer, <<>>) /\ Fault
      \/ Finish(failed, answer, <<>>) /\ Fault
      \/ Finish(got.failure, answer, checks) /\ (faults' = faults \/ Fault)
  BY DEF Answer, NoFault
<1>3. \A a, c : AnswerOutcome(failed, a, c)
  BY DEF AnswerOutcome
<1>4. AnswerOutcome(got.failure, answer, checks)
  BY Zenon DEF AnswerOutcome
<1> HIDE DEF answer, checks, failed
<1> QED
  BY <1>1, <1>2, <1>3, <1>4

\* The other steps that end a case name the failure.
LEMMA EarlyEnds ==
    ASSUME NEW failure, FinishEarly(failure)
    PROVE  /\ Finish(failure, NoAnswer, <<>>)
           /\ UNCHANGED <<original, disk, cache, run, setup, stored>>
  BY DEF FinishEarly

\* Each step by what it does to the case: it ends it early, ends it with the
\* answer, drops all outcomes, or goes on with it.
LEMMA CaseSteps ==
    ASSUME [Next]_vars
    PROVE  \/ Refuse \/ Start
           \/ \E failure \in {"repo_unavailable", "dirty_worktree", "commit_not_found",
                              "worktree_failed"} :
                 FinishEarly(failure) /\ pc \in {"check", "enter", "leave"}
           \/ Answer
           \/ /\ pc' = "down" /\ outcomes' = <<>> /\ tmp' = 0 /\ got' = Nothing
              /\ UNCHANGED <<original, disk, cache, run, setup, stored>>
              /\ trouble' \in {"none", trouble} /\ problems' = FALSE
           \/ UNCHANGED <<setup, outcomes>>
  BY DEF Next, vars, Case, Pipeline, Draft, Cleanup, Report, CheckFails, Check, EnterFails,
         Enter, Stub, PrepareIndex, IndexOne, IndexEnd, Model, PipelineFails, ApplyDraft,
         Golden, Detect, Raise, RemoveWorktree, Prune, RemoveTree, LeaveOnError, Leave,
         AnswerRaises, WriteFile, Kill, TmpCleared, EditOriginal, command, body

LEMMA NothingShaped ==
    /\ DOMAIN Nothing = GotFields /\ Nothing.failure = "none"
    /\ Nothing.searched = {} /\ Nothing.files = {} /\ Nothing.replacements = {}
    /\ Nothing.applyOk = "none" /\ Nothing.golden = "none"
  BY DEF Nothing, GotFields

LEMMA ShapeInit == Init => Shape
<1> SUFFICES ASSUME Init PROVE Shape
  OBVIOUS
<1>1. setup.fixtures = <<>> /\ outcomes = <<>> /\ pc = "down" /\ got = Nothing
  BY DEF Init, NoSetup
<1>2. trouble = "none" /\ problems = FALSE
  BY DEF Init
<1>3. setup.fixtures \in Seq(ToSet(setup.fixtures)) /\ Len(setup.fixtures) = 0
  BY <1>1, NoSeq
<1>4. outcomes \in Seq(ToSet(outcomes)) /\ Len(outcomes) = 0
  BY <1>1, NoSeq
<1>5. DOMAIN got = GotFields /\ got.failure = "none"
  BY <1>1, NothingShaped
<1>6. pc \in InCase \union {"down", "report"} /\ pc \notin InCase
  BY <1>1 DEF InCase
<1>7. Len(outcomes) <= Len(setup.fixtures)
  BY <1>3, <1>4
<1>8. problems \in BOOLEAN
  BY <1>2
<1> QED
  BY <1>2, <1>3, <1>4, <1>5, <1>6, <1>7, <1>8, Zenon DEF Shape

LEMMA LoadedFixtures ==
    ASSUME NEW file \in FixtureFiles
    PROVE  LoadYaml(file).fixtures \in Seq(ToSet(LoadYaml(file).fixtures))
  BY ReplayAssumption

LEMMA ShapeStep == Shape /\ [Next]_vars => Shape'
<1> SUFFICES ASSUME Shape, [Next]_vars PROVE Shape'
  OBVIOUS
<1>0. Len(outcomes) \in Nat /\ Len(setup.fixtures) \in Nat
  BY LenProperties DEF Shape
<1>1. CASE Refuse
  BY <1>1, NoSeq DEF Refuse, Shape, NoSetup, body, InCase
<1>2. CASE Start
  <2>1. PICK file \in FixtureFiles :
           /\ setup'.fixtures = LoadYaml(file).fixtures
           /\ pc' = IF LoadYaml(file).fixtures = <<>> THEN "report" ELSE "check"
    BY <1>2 DEF Start
  <2>2. setup'.fixtures \in Seq(ToSet(setup'.fixtures))
    BY <2>1, LoadedFixtures
  <2>3. outcomes' = <<>> /\ UNCHANGED body
    BY <1>2 DEF Start
  <2>4. Len(setup'.fixtures) \in Nat /\ (setup'.fixtures # <<>> => Len(setup'.fixtures) > 0)
    BY <2>2
  <2> QED
    BY <2>1, <2>2, <2>3, <2>4, NoSeq DEF Shape, body, InCase
<1>3. ASSUME NEW failure, NEW answer, NEW checks, Finish(failure, answer, checks),
             pc \in InCase, UNCHANGED setup
      PROVE  Shape'
  <2>1. CaseEnds(failure, answer, checks)
    BY <1>3, FinishEnds
  <2>2. Len(outcomes) + 1 <= Len(setup.fixtures)
    BY <1>0, <1>3 DEF Shape
  <2> QED
    BY <2>1, <2>2, <1>3, NothingShaped DEF CaseEnds, Shape, InCase
<1>4. ASSUME pc' = "down", outcomes' = <<>>, got' = Nothing, UNCHANGED setup,
             trouble' \in {"none", trouble}, problems' = FALSE
      PROVE  Shape'
  <2>1. outcomes' \in Seq(ToSet(outcomes')) /\ Len(outcomes') = 0
    BY <1>4, NoSeq
  <2>2. Len(outcomes') <= Len(setup'.fixtures)
    BY <1>0, <1>4, <2>1
  <2>3. DOMAIN got' = GotFields /\ got'.failure = "none"
    BY <1>4, NothingShaped
  <2>4. pc' \in InCase \union {"down", "report"} /\ pc' \notin InCase
    BY <1>4 DEF InCase
  <2>5. problems' \in BOOLEAN /\ trouble' \in {"none", "setup", "raised"}
    BY <1>4 DEF Shape
  <2> QED
    BY <1>4, <2>1, <2>2, <2>3, <2>4, <2>5, Zenon DEF Shape
<1>5. CASE UNCHANGED <<setup, outcomes>>
  <2> USE <1>5 DEF Shape, InCase
  <2>1. CASE Check \/ Enter \/ PrepareIndex \/ IndexOne \/ IndexEnd
    BY <2>1 DEF Check, Enter, PrepareIndex, IndexOne, IndexEnd, body
  <2>2. CASE Stub
    <3>1. /\ pc = "draft" /\ pc' = "apply" /\ UNCHANGED <<trouble, problems>>
          /\ DOMAIN got' = DOMAIN got /\ got'.failure = got.failure
      BY <2>2 DEF Stub, GotFields
    <3> QED
      BY <3>1
  <2>3. CASE Model
    <3>1. /\ pc = "model" /\ pc' = "apply" /\ UNCHANGED <<trouble, problems>>
          /\ DOMAIN got' = DOMAIN got /\ got'.failure = got.failure
      BY <2>3 DEF Model, GotFields
    <3> QED
      BY <3>1
  <2>4. CASE PipelineFails
    BY <2>4 DEF PipelineFails, GotFields
  <2>5. CASE ApplyDraft
    <3>1. /\ pc = "apply" /\ pc' = "golden" /\ UNCHANGED <<trouble, problems>>
          /\ DOMAIN got' = DOMAIN got /\ got'.failure = got.failure
      BY <2>5 DEF ApplyDraft, GotFields
    <3> QED
      BY <3>1
  <2>6. CASE Golden
    <3>1. /\ pc = "golden" /\ pc' = "detect" /\ UNCHANGED <<trouble, problems>>
          /\ DOMAIN got' = DOMAIN got /\ got'.failure = got.failure
      BY <2>6 DEF Golden, GotFields
    <3> QED
      BY <3>1
  <2>7. CASE Detect
    <3>1. /\ pc = "detect" /\ pc' = "remove" /\ UNCHANGED <<trouble, problems>>
          /\ DOMAIN got' = DOMAIN got /\ got'.failure = got.failure
      BY <2>7 DEF Detect, GotFields
    <3> QED
      BY <3>1
  <2>8. CASE Raise \/ RemoveWorktree \/ Prune \/ RemoveTree
    BY <2>8 DEF Raise, RemoveWorktree, Prune, RemoveTree
  <2>9. CASE Leave
    BY <2>9 DEF Leave, GotFields
  <2>10. CASE WriteFile
    BY <2>10 DEF WriteFile, body
  <2>11. CASE TmpCleared \/ EditOriginal \/ UNCHANGED vars
    BY <2>11 DEF TmpCleared, EditOriginal, vars, body
  <2>12. CASE Answer
    <3>1. PICK failure, answer, checks : Finish(failure, answer, checks)
      BY <2>12, AnswerEnds
    <3>2. CaseEnds(failure, answer, checks)
      BY <3>1, <2>12, AnswerEnds, FinishEnds
    <3> QED
      BY <3>2, NothingShaped DEF CaseEnds
  <2>13. CASE CheckFails \/ EnterFails \/ LeaveOnError \/ Kill \/ AnswerRaises
    <3>1. ASSUME NEW failure, FinishEarly(failure), pc \in InCase PROVE Shape'
      BY <3>1, <1>3, EarlyEnds
    <3> QED
      BY <3>1, <1>4, <2>13
         DEF CheckFails, EnterFails, LeaveOnError, Kill, AnswerRaises
  <2> QED
    BY <2>1, <2>2, <2>3, <2>4, <2>5, <2>6, <2>7, <2>8, <2>9, <2>10, <2>11, <2>12,
       <2>13, <1>1, <1>2 DEF Next, Case, Pipeline, Draft, Cleanup, Report
<1>6. CASE Answer
  BY <1>6, <1>3, AnswerEnds DEF InCase
<1>7. ASSUME NEW failure, FinishEarly(failure), pc \in InCase PROVE Shape'
  BY <1>7, <1>3, EarlyEnds
<1> QED
  BY <1>1, <1>2, <1>4, <1>5, <1>6, <1>7, CaseSteps DEF InCase

LEMMA AlwaysShaped == Spec => []Shape
  BY ShapeInit, ShapeStep, PTL DEF Spec

-----------------------------------------------------------------------------
(* No document of a later commit *)

\* The file texts an index directory holds came from the commit its key names, and
\* only the worktree of that commit, as it was spread out, is ever read for them.
LookBack ==
    /\ \A key \in DOMAIN cache : Texts(cache[key]) \subseteq Files(Commits[key[2]])
    /\ pc \in {"draft", "index", "model"} => work = Base
    /\ pc \in {"index", "model"} => IndexKey(Fixture) \in DOMAIN cache
    /\ pc \in {"down", "report", "check", "enter", "draft", "index", "model"}
           => got.searched = {}
    /\ pc \in {"apply", "golden", "detect"} => Texts(got.searched) \subseteq Files(Base)

\* An empty index has no text.
LEMMA NoTexts == Texts({}) = {}
  BY DEF Texts

\* One document more has one text more.
LEMMA TextsGrow ==
    \A docs, next : Texts(docs \union {next}) = Texts(docs) \union {<<next[1], next[2]>>}
  BY Zenon DEF Texts

LEMMA LookBackInit == Init => LookBack
<1> SUFFICES ASSUME Init PROVE LookBack
  OBVIOUS
<1>1. cache = <<>> /\ pc = "down" /\ got = Nothing
  BY DEF Init
<1>2. DOMAIN cache = {}
  BY <1>1
<1> QED
  BY <1>1, <1>2, NothingShaped DEF LookBack

LEMMA LookBackStep == Shape /\ LookBack /\ [Next]_vars => LookBack'
<1> SUFFICES ASSUME Shape, LookBack, [Next]_vars PROVE LookBack'
  OBVIOUS
<1>1. CASE UNCHANGED <<setup, outcomes>>
  <2>0. Fixture' = Fixture /\ Base' = Base /\ IndexKey(Fixture)' = IndexKey(Fixture)
    BY <1>1 DEF Fixture, Base, IndexKey
  <2>1. CASE Check
    BY <2>1 DEF Check, body, LookBack
  <2>2. CASE Enter
    BY <2>2, <2>0 DEF Enter, LookBack
  <2>3. CASE Stub
    <3>1. /\ pc = "draft" /\ pc' = "apply" /\ UNCHANGED cache
          /\ got'.searched = got.searched
      BY <2>3 DEF Stub, Shape, GotFields
    <3>2. Texts(got'.searched) = {}
      BY <3>1, NoTexts DEF LookBack
    <3> QED
      BY <3>1, <3>2, <2>0 DEF LookBack
  <2>4. CASE PrepareIndex
    <3>1. UNCHANGED body /\ pc = "draft" /\ pc' \in {"model", "index"}
      BY <2>4 DEF PrepareIndex
    <3>2. CASE IndexKey(Fixture) \in DOMAIN cache
      BY <2>4, <2>0, <3>1, <3>2 DEF PrepareIndex, LookBack, body
    <3>3. CASE IndexKey(Fixture) \notin DOMAIN cache
      <4> DEFINE here == IndexKey(Fixture)
      <4>1. cache' = [key \in DOMAIN cache \union {here} |->
                          IF key = here THEN {} ELSE cache[key]]
        BY <2>4, <3>3 DEF PrepareIndex
      <4>2. here' = here
        BY <2>0
      <4> HIDE DEF here
      <4>3. \A key \in DOMAIN cache' : Texts(cache'[key]) \subseteq Files(Commits[key[2]])
        BY <4>1, NoTexts DEF LookBack
      <4>4. here \in DOMAIN cache'
        BY <4>1
      <4> QED
        BY <4>2, <4>3, <4>4, <2>0, <3>1 DEF LookBack, body, here
    <3> QED
      BY <3>2, <3>3
  <2>5. CASE IndexOne
    <3> DEFINE here == IndexKey(Fixture)
    <3>1. PICK next \in ToIndex : cache' = [cache EXCEPT ![here] = @ \union {next}]
      BY <2>5 DEF IndexOne
    <3>2. UNCHANGED <<pc, body>> /\ pc = "index"
      BY <2>5 DEF IndexOne
    <3>3. work = Commits[here[2]] /\ here \in DOMAIN cache
      BY <3>2 DEF LookBack, Base, IndexKey
    <3>4. PICK p \in DOMAIN work : next = <<p, work[p], Harvest(dictionary, tree)>>
      BY DEF ToIndex, Documents
    <3> HIDE DEF here
    <3>5. /\ DOMAIN cache' = DOMAIN cache
          /\ \A key \in DOMAIN cache :
                cache'[key] = IF key = here THEN cache[key] \union {next} ELSE cache[key]
      BY <3>1
    <3>6. Texts(cache[here] \union {next}) \subseteq Files(Commits[here[2]])
      <4>1. next[1] = p /\ next[2] = work[p]
        BY <3>4
      <4>2. Texts(cache[here] \union {next}) = Texts(cache[here]) \union {<<next[1], next[2]>>}
        BY TextsGrow
      <4> QED
        BY <4>1, <4>2, <3>3, <3>4 DEF LookBack, Files
    <3>7. \A key \in DOMAIN cache' : Texts(cache'[key]) \subseteq Files(Commits[key[2]])
      BY <3>3, <3>5, <3>6 DEF LookBack
    <3> QED
      BY <2>0, <3>2, <3>5, <3>7 DEF LookBack, body
  <2>6. CASE IndexEnd
    BY <2>6, <2>0 DEF IndexEnd, LookBack, body
  <2>7. CASE Model
    <3>1. /\ pc = "model" /\ pc' = "apply" /\ UNCHANGED cache
          /\ got'.searched = Indexed
      BY <2>7 DEF Model, Shape, GotFields
    <3>2. Texts(Indexed) \subseteq Files(Base)
      BY <3>1 DEF LookBack, Indexed, IndexKey, Base
    <3> QED
      BY <3>1, <3>2, <2>0 DEF LookBack
  <2>8. CASE PipelineFails
    BY <2>8 DEF PipelineFails, LookBack
  <2>9. CASE ApplyDraft
    <3>1. /\ pc = "apply" /\ pc' = "golden" /\ UNCHANGED cache
          /\ got'.searched = got.searched
      BY <2>9 DEF ApplyDraft, Shape, GotFields
    <3> QED
      BY <3>1, <2>0 DEF LookBack
  <2>10. CASE Golden
    <3>1. /\ pc = "golden" /\ pc' = "detect" /\ UNCHANGED cache
          /\ got'.searched = got.searched
      BY <2>10 DEF Golden, Shape, GotFields
    <3> QED
      BY <3>1, <2>0 DEF LookBack
  <2>11. CASE Detect \/ Raise \/ RemoveWorktree \/ Prune \/ RemoveTree \/ Leave
    <3>1. pc' \in {"remove", "prune", "rmtree", "leave", "answer"} /\ UNCHANGED cache
      BY <2>11 DEF Detect, Raise, RemoveWorktree, Prune, RemoveTree, Leave
    <3> QED
      BY <3>1 DEF LookBack
  <2>12. CASE WriteFile \/ TmpCleared \/ EditOriginal \/ UNCHANGED vars
    <3>1. /\ UNCHANGED <<cache, body>>
          /\ \/ UNCHANGED pc
             \/ pc = "report" /\ pc' \in {"down", "report"}
      BY <2>12 DEF WriteFile, TmpCleared, EditOriginal, vars, body
    <3> QED
      BY <3>1, <2>0 DEF LookBack, body
  <2>13. CASE Refuse \/ Start
    BY <2>13 DEF Refuse, Start, LookBack, body
  <2>14. CASE Answer
    <3>1. PICK failure, answer, checks : Finish(failure, answer, checks)
      BY <2>14, AnswerEnds
    <3>2. CaseEnds(failure, answer, checks) /\ UNCHANGED cache
      BY <3>1, <2>14, AnswerEnds, FinishEnds DEF InCase, Shape, disk
    <3> QED
      BY <3>2, NothingShaped DEF CaseEnds, LookBack
  <2>15. CASE CheckFails \/ EnterFails \/ LeaveOnError \/ Kill \/ AnswerRaises
    <3>1. /\ pc' \in {"down", "check", "report"} /\ UNCHANGED cache
          /\ got' = Nothing
      BY <2>15 DEF CheckFails, EnterFails, LeaveOnError, Kill, AnswerRaises, FinishEarly,
                   Finish, Outcome
    <3> QED
      BY <3>1, NothingShaped DEF LookBack
  <2> QED
    BY <2>1, <2>2, <2>3, <2>4, <2>5, <2>6, <2>7, <2>8, <2>9, <2>10, <2>11, <2>12,
       <2>13, <2>14, <2>15 DEF Next, Case, Pipeline, Draft, Cleanup, Report
<1>2. CASE Refuse \/ Start
  <2>1. /\ UNCHANGED <<cache, body>>
        /\ pc = "down" /\ pc' \in {"down", "check", "report"}
    BY <1>2 DEF Refuse, Start
  <2> QED
    BY <2>1 DEF LookBack, body
<1>3. ASSUME NEW failure, NEW answer, NEW checks, Finish(failure, answer, checks),
             UNCHANGED cache
      PROVE  LookBack'
  <2>1. pc' \in {"check", "report"} /\ got' = Nothing
    BY <1>3 DEF Finish, Outcome
  <2> QED
    BY <1>3, <2>1, NothingShaped DEF LookBack
<1>4. CASE pc' = "down" /\ got' = Nothing /\ UNCHANGED cache
  BY <1>4, NothingShaped DEF LookBack
<1>5. CASE Answer
  BY <1>5, <1>3, AnswerEnds
<1>6. ASSUME NEW failure, FinishEarly(failure) PROVE LookBack'
  BY <1>6, <1>3, EarlyEnds
<1> QED
  BY <1>1, <1>2, <1>4, <1>5, <1>6, CaseSteps

\* prepare_index, replay_index_key: the file texts searched for a case are those of the
\* commit before the change, whatever runs and fixture files there were before. The
\* names in the headers and the places from the cache files are no part of it.
THEOREM NeverAhead == Spec => []NoLookAhead
<1>1. LookBack => NoLookAhead
  BY DEF LookBack, NoLookAhead
<1> QED
  BY ShapeInit, ShapeStep, LookBackInit, LookBackStep, <1>1, PTL DEF Spec

-----------------------------------------------------------------------------
(* What a case leaves behind *)

\* How far the cleanup is, step by step, if none of its steps has failed. What an
\* outcome without a failure of the cleanup says rests on all three.
Cleared ==
    /\ pc \in {"prune", "rmtree", "leave"} /\ ~problems => tmp \notin works
    /\ pc \in {"rmtree", "leave"} /\ ~problems => entries \subseteq works
    /\ pc = "leave" /\ ~problems => tmp \notin dirs
    /\ pc = "answer" /\ got.failure # "cleanup_failed"
           => tmp \notin works \union dirs /\ entries \subseteq works

LEMMA ClearedInit == Init => Cleared
  BY DEF Init, Cleared

LEMMA ClearedStep == Shape /\ Cleared /\ [Next]_vars => Cleared'
<1> SUFFICES ASSUME Shape, Cleared, [Next]_vars PROVE Cleared'
  OBVIOUS
<1>1. CASE RemoveWorktree
  <2>1. /\ pc = "remove" /\ pc' = "prune" /\ UNCHANGED <<dirs, tmp>>
        /\ ~problems' => tmp \notin works'
    <3>1. pc = "remove" /\ pc' = "prune" /\ UNCHANGED <<dirs, tmp>>
      BY <1>1 DEF RemoveWorktree
    <3>2. \/ works' = works \ {tmp}
          \/ problems' = (problems \/ tmp \in works) /\ UNCHANGED works
          \/ problems' = TRUE
      BY <1>1, Zenon DEF RemoveWorktree
    <3> QED
      BY <3>1, <3>2, Zenon
  <2> QED
    BY <2>1, Zenon DEF Cleared
<1>2. CASE Prune
  <2>1. /\ pc = "prune" /\ pc' = "rmtree" /\ UNCHANGED <<dirs, works, tmp>>
        /\ \/ entries' = entries \intersect works /\ UNCHANGED problems
           \/ problems' = TRUE
    BY <1>2, Zenon DEF Prune
  <2> QED
    BY <2>1, Zenon DEF Cleared
<1>3. CASE RemoveTree
  <2>1. /\ pc = "rmtree" /\ pc' = "leave" /\ UNCHANGED <<entries, tmp>>
        /\ works' = works \ {tmp}
        /\ \/ dirs' = dirs \ {tmp} /\ UNCHANGED problems
           \/ problems' = TRUE
    BY <1>3, Zenon DEF RemoveTree
  <2> QED
    BY <2>1, Zenon DEF Cleared
<1>4. CASE Leave
  <2>1. /\ pc = "leave" /\ pc' = "answer" /\ UNCHANGED <<disk, tmp>>
        /\ problems => got'.failure = "cleanup_failed"
    <3>1. pc = "leave" /\ pc' = "answer" /\ UNCHANGED <<disk, tmp>>
      BY <1>4 DEF Leave
    <3>2. got' = [got EXCEPT !.failure = IF problems THEN "cleanup_failed" ELSE @]
      BY <1>4 DEF Leave
    <3>3. problems => got'.failure = "cleanup_failed"
      BY <3>2 DEF Shape, GotFields
    <3> QED
      BY <3>1, <3>3
  <2> QED
    BY <2>1 DEF Cleared, disk
<1>5. ASSUME NEW failure, NEW answer, NEW checks, Finish(failure, answer, checks)
      PROVE  pc' \in {"check", "report"}
  BY <1>5 DEF Finish, Outcome
<1>6. CASE CheckFails \/ EnterFails \/ LeaveOnError \/ Kill \/ AnswerRaises
  <2>1. pc' \in {"down", "check", "report"}
    BY <1>6, <1>5, EarlyEnds
       DEF CheckFails, EnterFails, LeaveOnError, Kill, AnswerRaises
  <2> QED
    BY <2>1 DEF Cleared
<1>7. CASE Answer
  BY <1>7, <1>5, AnswerEnds DEF Cleared
<1>8. CASE Refuse \/ Start \/ TmpCleared
  <2>1. pc' \in {"down", "check", "report"}
    BY <1>8 DEF Refuse, Start, TmpCleared
  <2> QED
    BY <2>1 DEF Cleared
<1>9. CASE Check \/ Enter \/ Pipeline \/ Draft \/ WriteFile \/ EditOriginal
  <2>1. pc' \in {"enter", "draft", "index", "model", "apply", "golden", "detect", "remove",
                 "check", "down", "report"}
    BY <1>9 DEF Check, Enter, Pipeline, Stub, PrepareIndex, IndexOne, IndexEnd, Model,
                PipelineFails, Draft, ApplyDraft, Golden, Detect, Raise, WriteFile,
                EditOriginal
  <2> QED
    BY <2>1 DEF Cleared
<1>10. CASE UNCHANGED vars
  BY <1>10 DEF vars, Cleared
<1> QED
  BY <1>1, <1>2, <1>3, <1>4, <1>6, <1>7, <1>8, <1>9, <1>10
     DEF Next, Case, Cleanup, Report

\* One more outcome, with a failure that is not one of the worktree: it is the answer
\* that ended the case, and the cleanup was through.
LEMMA OutcomeOfAnswer ==
    ASSUME Shape, [Next]_vars, Len(outcomes') > Len(outcomes),
           outcomes'[Len(outcomes')].failure \in
               {"none", "pipeline_failed", "answer_diff_failed"}
    PROVE  Answer /\ got.failure # "cleanup_failed"
<1>0. Len(outcomes) \in Nat
  BY LenProperties DEF Shape
<1>1. ~Refuse /\ ~Start /\ outcomes' # <<>> /\ ~UNCHANGED outcomes
  <2>1. outcomes' # <<>>
    BY <1>0, NoSeq
  <2> QED
    BY <1>0, <2>1 DEF Refuse, Start
<1>2. ASSUME NEW failure, NEW answer, NEW checks, Finish(failure, answer, checks),
             pc \in InCase
      PROVE  outcomes'[Len(outcomes')].failure = failure
  BY <1>2, FinishEnds DEF CaseEnds
<1>3. ASSUME NEW failure, FinishEarly(failure), pc \in {"check", "enter", "leave"},
             failure \in {"repo_unavailable", "dirty_worktree", "commit_not_found",
                          "worktree_failed"}
      PROVE  FALSE
  BY <1>2, <1>3, EarlyEnds DEF InCase
<1>4. Answer
  BY <1>1, <1>3, CaseSteps
<1>5. got.failure # "cleanup_failed"
  <2>1. PICK failure, answer, checks :
            Finish(failure, answer, checks) /\ AnswerOutcome(failure, answer, checks)
    BY <1>4, AnswerEnds
  <2>2. outcomes'[Len(outcomes')].failure = failure
    BY <1>2, <1>4, <2>1, AnswerEnds DEF InCase
  <2> QED
    BY <2>1, <2>2 DEF AnswerOutcome
<1> QED
  BY <1>4, <1>5

\* _cleanup, replay_worktree: a case whose outcome names no failure of the worktree or
\* of its cleanup has left nothing on the disk and nothing in the repository.
THEOREM CleanCases == Spec => CleanCaseLeavesNothing
<1>1. Shape /\ Cleared /\ [Next]_vars
      => [LET o == outcomes'[Len(outcomes')] IN
          /\ Len(outcomes') > Len(outcomes)
          /\ o.failure \in {"none", "pipeline_failed", "answer_diff_failed"}
          => /\ tmp \notin entries' \union dirs' \union works'
             /\ entries' \subseteq works']_vars
  <2> SUFFICES ASSUME Shape, Cleared, [Next]_vars, Len(outcomes') > Len(outcomes),
                      outcomes'[Len(outcomes')].failure \in
                          {"none", "pipeline_failed", "answer_diff_failed"}
               PROVE  /\ tmp \notin entries' \union dirs' \union works'
                      /\ entries' \subseteq works'
    OBVIOUS
  <2>1. Answer /\ got.failure # "cleanup_failed"
    BY OutcomeOfAnswer
  <2>2. pc = "answer" /\ UNCHANGED disk
    BY <2>1, AnswerEnds
  <2> QED
    BY <2>1, <2>2 DEF Cleared, disk
<1> QED
  BY <1>1, ShapeInit, ShapeStep, ClearedInit, ClearedStep, PTL
     DEF Spec, CleanCaseLeavesNothing

-----------------------------------------------------------------------------
(* What the report shows *)

LEMMA SafeIsAllowed == \A mode : SafeAlways \subseteq AllowedArtifacts(mode)
  BY DEF SafeAlways, AllowedArtifacts, ArtifactKind

\* A field is in the payload of a case only if its kind is allowed.
LEMMA PayloadAllowed ==
    ASSUME NEW o, NEW allowed, SafeAlways \subseteq allowed,
           NEW field \in CasePayload(o, allowed)
    PROVE  field[2] \in allowed
<1>1. ASSUME NEW name, field \in PathFields(name, allowed) PROVE field[2] \in allowed
  BY <1>1 DEF PathFields, SafeAlways
<1>2. CASE field \in MetricsPayload
  BY <1>2 DEF MetricsPayload, SafeAlways
<1>3. CASE field \in ReplacementEntry(allowed)
  BY <1>1, <1>3 DEF ReplacementEntry, SafeAlways
<1>4. CASE field \in CheckEntry(allowed)
  BY <1>1, <1>4 DEF CheckEntry, SafeAlways
<1>5. CASE "diff_structure" \in allowed /\ field \in FileEntry(allowed)
  BY <1>1, <1>5 DEF FileEntry
<1>6. CASE /\ "diff_body" \in allowed
           /\ field \in {<<"generated_diff", "diff_body">>, <<"answer_diff", "diff_body">>}
  BY <1>6
<1>7. CASE "golden_output" \in allowed /\ field = <<"golden_output", "golden_output">>
  BY <1>7
<1>8. \/ field \in MetricsPayload \/ field \in ReplacementEntry(allowed)
      \/ field \in CheckEntry(allowed)
      \/ \E name : field \in PathFields(name, allowed)
      \/ "diff_structure" \in allowed /\ field \in FileEntry(allowed)
      \/ /\ "diff_body" \in allowed
         /\ field \in {<<"generated_diff", "diff_body">>, <<"answer_diff", "diff_body">>}
      \/ "golden_output" \in allowed /\ field = <<"golden_output", "golden_output">>
  <2> DEFINE Answers == UNION {o.answer[part] : part \in DOMAIN o.answer}
             Structure == IF "diff_structure" \notin allowed THEN {}
                          ELSE (IF Answers = {} THEN {} ELSE FileEntry(allowed))
                               \union (IF o.files = {} THEN {}
                                       ELSE PathFields("generated_files", allowed))
             Expected == IF o.expected = <<>> THEN {} ELSE ReplacementEntry(allowed)
             Checks == IF o.checks = <<>> THEN {} ELSE CheckEntry(allowed)
             Retrieved == IF o.retrieved = <<>> THEN {} ELSE PathFields("retrieved", allowed)
             Body == IF "diff_body" \in allowed
                     THEN {<<"generated_diff", "diff_body">>, <<"answer_diff", "diff_body">>}
                     ELSE {}
             Output == IF "golden_output" \in allowed /\ o.golden # "none"
                       THEN {<<"golden_output", "golden_output">>} ELSE {}
  <2>1. CasePayload(o, allowed) = MetricsPayload \union Expected \union Checks
              \union Retrieved \union Structure \union Body \union Output
    BY DEF CasePayload
  <2>2. CASE field \in Structure
    BY <2>2, Zenon
  <2>3. CASE field \in Expected \union Checks \union Retrieved
    BY <2>3, Zenon
  <2>4. CASE field \in Body
    BY <2>4, Zenon
  <2>5. CASE field \in Output
    BY <2>5, Zenon
  <2> HIDE DEF Answers, Structure, Expected, Checks, Retrieved, Body, Output
  <2> QED
    BY <2>1, <2>2, <2>3, <2>4, <2>5
<1> QED
  BY <1>1, <1>2, <1>3, <1>4, <1>5, <1>6, <1>7, <1>8

\* What the strictest of some modes allows, each of them allows.
LEMMA StrictestAllows ==
    ASSUME NEW modes \in SUBSET PrivacyMode, NEW mode \in modes
    PROVE  AllowedArtifacts(StrictestPrivacyMode(modes)) \subseteq AllowedArtifacts(mode)
<1> DEFINE strictest == StrictestPrivacyMode(modes)
<1>1. /\ Strictness["full"] = 0 /\ Strictness["redacted"] = 1
      /\ Strictness["metadata_only"] = 2
  BY DEF Strictness
<1>2. \E m \in modes : \A other \in modes : Strictness[other] <= Strictness[m]
  <2>1. CASE "metadata_only" \in modes
    BY <1>1, <2>1 DEF PrivacyMode
  <2>2. CASE "metadata_only" \notin modes /\ "redacted" \in modes
    BY <1>1, <2>2 DEF PrivacyMode
  <2>3. CASE "metadata_only" \notin modes /\ "redacted" \notin modes
    BY <1>1, <2>3 DEF PrivacyMode
  <2> QED
    BY <2>1, <2>2, <2>3
<1>3. strictest \in modes /\ Strictness[mode] <= Strictness[strictest]
  BY <1>2 DEF StrictestPrivacyMode
<1> HIDE DEF strictest
<1>4. strictest \in PrivacyMode /\ mode \in PrivacyMode
  BY <1>3
<1>5. AllowedArtifacts(strictest) \subseteq AllowedArtifacts(mode)
  <2>1. CASE mode = "full"
    BY <2>1 DEF AllowedArtifacts, ArtifactKind, SafeAlways
  <2>2. CASE strictest = "metadata_only"
    BY <2>2 DEF AllowedArtifacts, ArtifactKind, SafeAlways
  <2>3. CASE strictest = mode
    BY <2>3
  <2>4. mode = "full" \/ strictest = "metadata_only" \/ strictest = mode
    BY <1>1, <1>3, <1>4 DEF PrivacyMode
  <2> QED
    BY <2>1, <2>2, <2>3, <2>4
<1> QED
  BY <1>5 DEF strictest

\* What the loader lets through has one of the modes.
LEMMA LoadedModes ==
    ASSUME NEW file, Loaded(file), NEW i \in 1..Len(LoadYaml(file).fixtures)
    PROVE  LoadYaml(file).fixtures[i].privacy_mode \in PrivacyMode
<1>1. ASSUME NEW raws, NEW j \in 1..Len(raws), LoadErrors(raws, FALSE, {}) = {}
      PROVE  raws[j].privacy_mode \in PrivacyMode
  <2>1. CaseErrors(raws[j]) = {}
    <3> DEFINE Of(k) == CaseErrors(raws[k]) \union MissingErrors(raws[k], FALSE, {})
                        \union Error(raws[k].schema_version # "1", "schema_version")
                        \union Error(\E l \in 1..(k - 1) : raws[l].case_id = raws[k].case_id,
                                     "duplicate case_id")
    <3>1. LoadErrors(raws, FALSE, {}) = UNION {Of(k) : k \in 1..Len(raws)}
      BY Zenon DEF LoadErrors
    <3>2. CaseErrors(raws[j]) \subseteq Of(j)
      BY Zenon
    <3> HIDE DEF Of
    <3>3. Of(j) = {}
      BY <1>1, <3>1, Zenon
    <3> QED
      BY <3>2, <3>3
  <2>2. ExecutionErrors(raws[j]) = {}
    BY <2>1 DEF CaseErrors
  <2>3. Error(raws[j].privacy_mode \notin PrivacyMode, "privacy_mode") = {}
    BY <2>2 DEF ExecutionErrors
  <2> QED
    BY <2>3 DEF Error
<1>2. CASE file.form = "list"
  <2>1. /\ LoadYaml(file).fixtures = file.cases
        /\ LoadYaml(file).errors = LoadErrors(file.cases, FALSE, {})
    BY <1>2 DEF LoadYaml
  <2> QED
    BY <2>1, <1>1 DEF Loaded
<1>3. CASE file.form = "single"
  <2>1. /\ LoadYaml(file).fixtures = <<file.case>>
        /\ LoadYaml(file).errors = LoadErrors(<<file.case>>, FALSE, {})
    BY <1>3 DEF LoadYaml
  <2> QED
    BY <2>1, <1>1 DEF Loaded
<1>4. CASE file.form # "list" /\ file.form # "single"
  BY <1>4 DEF LoadYaml, Loaded
<1> QED
  BY <1>2, <1>3, <1>4

\* What is in the first file of the report was allowed by the mode of the run, and
\* without an override that mode is no looser than that of any case.
Private ==
    /\ stored \in Seq(ToSet(stored))
    /\ setup.overridden \in BOOLEAN
    /\ stored # <<>> =>
          /\ \A i \in 1..Len(stored[1].cases) : i \in 1..Len(setup.fixtures)
          /\ \A i \in 1..Len(stored[1].cases) : \A field \in stored[1].cases[i].stored :
                field[2] \in AllowedArtifacts(setup.mode)
    /\ ~setup.overridden =>
          \A i \in 1..Len(setup.fixtures) :
              AllowedArtifacts(setup.mode)
                  \subseteq AllowedArtifacts(setup.fixtures[i].privacy_mode)

LEMMA PrivateImplies == Private => ReportIsPrivate
  BY DEF Private, ReportIsPrivate

LEMMA PrivateInit == Init => Private
<1> SUFFICES ASSUME Init PROVE Private
  OBVIOUS
<1>1. stored = <<>> /\ setup.fixtures = <<>> /\ setup.overridden = FALSE
  BY DEF Init, NoSetup
<1>2. stored \in Seq(ToSet(stored)) /\ Len(setup.fixtures) = 0
  BY <1>1, NoSeq
<1>3. setup.overridden \in BOOLEAN
  BY <1>1
<1> QED
  BY <1>1, <1>2, <1>3 DEF Private

\* The report of a mode shows what the mode allows.
LEMMA ReportAllowed ==
    ASSUME NEW os, os \in Seq(ToSet(os)), NEW mode
    PROVE  LET cases == BuildReport(os, mode).cases
           IN  /\ Len(cases) = Len(os)
               /\ \A i \in 1..Len(os) : \A field \in cases[i].stored :
                     field[2] \in AllowedArtifacts(mode)
<1> DEFINE Entry(o) == [case_id |-> o.case_id, failure |-> o.failure,
                        passed |-> ComputeMetrics(o).passed,
                        stored |-> CasePayload(o, AllowedArtifacts(mode))]
           cases == [i \in 1..Len(os) |-> Entry(os[i])]
<1>1. BuildReport(os, mode).cases = cases
  BY DEF BuildReport
<1>2. \A o : Entry(o).stored = CasePayload(o, AllowedArtifacts(mode))
  OBVIOUS
<1> HIDE DEF Entry
<1>3. Len(os) \in Nat
  BY LenProperties
<1>4. Len(cases) = Len(os)
  BY <1>3
<1>5. \A i \in 1..Len(os) : cases[i] = Entry(os[i])
  OBVIOUS
<1> HIDE DEF cases
<1>6. \A i \in 1..Len(os) : \A field \in cases[i].stored :
          field[2] \in AllowedArtifacts(mode)
  BY <1>2, <1>5, SafeIsAllowed, PayloadAllowed
<1> QED
  BY <1>1, <1>4, <1>6

LEMMA PrivateStep == Shape /\ Private /\ [Next]_vars => Private'
<1> SUFFICES ASSUME Shape, Private, [Next]_vars PROVE Private'
  OBVIOUS
<1>1. CASE Refuse
  <2>1. /\ stored' = <<>> /\ setup'.fixtures = <<>> /\ setup'.overridden = FALSE
    BY <1>1 DEF Refuse, NoSetup
  <2>2. stored' \in Seq(ToSet(stored')) /\ Len(setup'.fixtures) = 0
    BY <2>1, NoSeq
  <2>3. setup'.overridden \in BOOLEAN
    BY <2>1
  <2> QED
    BY <2>1, <2>2, <2>3 DEF Private
<1>2. CASE Start
  <2> DEFINE Modes(file) == {LoadYaml(file).fixtures[i].privacy_mode :
                                i \in 1..Len(LoadYaml(file).fixtures)}
  <2>0. PICK file \in FixtureFiles, pipeline \in Pipelines, override \in {"none", "redacted"} :
            /\ Loaded(file)
            /\ setup' = [fixtures |-> LoadYaml(file).fixtures, pipeline |-> pipeline,
                         mode |-> IF override # "none" THEN override
                                  ELSE StrictestPrivacyMode(Modes(file)),
                         overridden |-> override # "none"]
    BY <1>2, Zenon DEF Start
  <2> HIDE DEF Modes
  <2>1. /\ Loaded(file)
        /\ setup'.fixtures = LoadYaml(file).fixtures
        /\ setup'.overridden = (override # "none")
        /\ setup'.mode = IF override # "none" THEN override
                         ELSE StrictestPrivacyMode(Modes(file))
    BY <2>0
  <2> DEFINE fixtures == setup'.fixtures
             modes == {fixtures[i].privacy_mode : i \in 1..Len(fixtures)}
  <2>2. modes \in SUBSET PrivacyMode
    BY <2>1, LoadedModes
  <2>3. ~setup'.overridden => setup'.mode = StrictestPrivacyMode(modes)
    BY <2>1, Zenon DEF Modes
  <2>4. \A i \in 1..Len(fixtures) : fixtures[i].privacy_mode \in modes
    OBVIOUS
  <2> HIDE DEF modes
  <2>5. ~setup'.overridden =>
            \A i \in 1..Len(fixtures) :
                AllowedArtifacts(setup'.mode)
                    \subseteq AllowedArtifacts(fixtures[i].privacy_mode)
    BY <2>2, <2>3, <2>4, StrictestAllows
  <2>6. setup'.overridden \in BOOLEAN
    BY <2>1, Zenon
  <2>7. stored' = <<>> /\ stored' \in Seq(ToSet(stored'))
    BY <1>2, NoSeq DEF Start
  <2> QED
    BY <2>5, <2>6, <2>7 DEF Private
<1>3. CASE WriteFile
  <2>1. UNCHANGED setup /\ pc = "report"
    BY <1>3 DEF WriteFile
  <2>2. PICK content : /\ stored' = Append(stored, content)
                       /\ stored = <<>> => content = BuildReport(outcomes, setup.mode)
    <3>1. ReportFiles[1] = "replay_report.json"
      BY DEF ReportFiles
    <3>2. stored = <<>> => Len(stored) + 1 = 1
      BY NoSeq
    <3>3. \A os, mode, overridden :
             FileContent("replay_report.json", os, mode, overridden) = BuildReport(os, mode)
      BY DEF FileContent
    <3>4. stored' = Append(stored, FileContent(ReportFiles[Len(stored) + 1], outcomes,
                                               setup.mode, setup.overridden))
      BY <1>3 DEF WriteFile
    <3> QED
      BY <3>1, <3>2, <3>3, <3>4
  <2>3. /\ stored' \in Seq(ToSet(stored')) /\ Len(stored) \in Nat
        /\ \A i \in 1..Len(stored) : stored'[i] = stored[i]
        /\ stored'[Len(stored) + 1] = content
    BY <2>2, GrowSeq DEF Private
  <2>4. CASE stored = <<>>
    <3>1. stored'[1] = BuildReport(outcomes, setup.mode)
      BY <2>2, <2>3, <2>4, NoSeq
    <3>2. Len(outcomes) <= Len(setup.fixtures) /\ Len(outcomes) \in Nat
          /\ Len(setup.fixtures) \in Nat
      BY LenProperties DEF Shape
    <3> QED
      BY <2>1, <2>3, <3>1, <3>2, ReportAllowed DEF Private, Shape
  <2>5. CASE stored # <<>>
    <3>1. stored'[1] = stored[1]
      BY <2>3, <2>5, EmptySeq DEF Private
    <3> QED
      BY <2>1, <2>3, <2>5, <3>1 DEF Private
  <2> QED
    BY <2>4, <2>5
<1>4. CASE UNCHANGED <<setup, stored>>
  BY <1>4 DEF Private
<1>5. Refuse \/ Start \/ WriteFile \/ UNCHANGED <<setup, stored>>
  BY DEF Next, vars, Case, Pipeline, Draft, Cleanup, Report, CheckFails, Check, EnterFails,
         Enter, Stub, PrepareIndex, IndexOne, IndexEnd, Model, PipelineFails, ApplyDraft,
         Golden, Detect, Raise, RemoveWorktree, Prune, RemoveTree, LeaveOnError, Leave,
         FinishEarly, Answer, AnswerRaises, Kill, TmpCleared, EditOriginal, command
<1> QED
  BY <1>1, <1>2, <1>3, <1>4, <1>5

\* strictest_privacy_mode, _case_payload: without an override nobody's case is shown in
\* a looser mode than the one its own fixture asks for.
THEOREM NobodyShownMore == Spec => []ReportIsPrivate
  BY ShapeInit, ShapeStep, PrivateInit, PrivateStep, PrivateImplies, PTL DEF Spec

-----------------------------------------------------------------------------
(* What a verdict rests on *)

Known(fixture) == fixture.base \in DOMAIN Commits /\ fixture.answer \in DOMAIN Commits

LEMMA KnownCommits == CommitsExist => Known(Fixture)
<1> SUFFICES ASSUME CommitsExist, NEW rev \in {Fixture.base, Fixture.answer}
             PROVE  rev \in DOMAIN Commits
  BY DEF Known
<1>1. RunGit(RevParse, IF rev \in DOMAIN Commits THEN "ok" ELSE "nonzero", TRUE) = "ok"
  BY DEF CommitsExist
<1>2. \A end : RunGit(RevParse, end, TRUE) = "ok" => end = "ok"
  BY Zenon DEF RunGit
<1> QED
  BY <1>1, <1>2

LEMMA GoldenSays == \A tokens, end : RunGolden(tokens, end) # "none"
<1> SUFFICES ASSUME NEW tokens, NEW end PROVE RunGolden(tokens, end) # "none"
  OBVIOUS
<1>1. CASE tokens = <<>>
  BY <1>1 DEF RunGolden
<1>2. CASE tokens # <<>> /\ ~ValidGolden(tokens)
  BY <1>2 DEF RunGolden
<1>3. CASE tokens # <<>> /\ ValidGolden(tokens)
  BY <1>3 DEF RunGolden
<1> QED
  BY <1>1, <1>2, <1>3

\* What the outcome of a case says of its fixture and of the repository.
Sound(o, f) ==
    /\ o.expected = f.expected
    /\ o.applyOk # "yes" => o.files = {} /\ o.replacements = {}
    /\ o.failure = "none" =>
          /\ Known(f)
          /\ o.golden # "none"
          /\ o.answer = ExtractAnswerDiff(Commits[f.base], Commits[f.answer], f)
          /\ o.checks = CheckExpected(Commits[f.answer], f.expected)

\* Every outcome is sound, because of what holds on the way to it: the commits of the
\* case are there, a draft that was not applied has changed nothing, and a case without
\* a failure went through its tests.
Earned ==
    /\ \A i \in 1..Len(setup.fixtures) :
          setup.fixtures[i].expected \in Seq(ToSet(setup.fixtures[i].expected))
    /\ pc \in Rooted \union {"enter"} => Known(Fixture)
    /\ pc \in {"down", "report", "check", "enter", "draft", "index", "model", "apply"}
          => got.files = {} /\ got.replacements = {}
    /\ got.applyOk # "yes" => got.files = {} /\ got.replacements = {}
    /\ pc = "detect" => got.golden # "none"
    /\ pc \in {"remove", "prune", "rmtree", "leave", "answer"}
          /\ trouble = "none" /\ got.failure = "none" => got.golden # "none"
    /\ pc = "answer" => trouble = "none"
    /\ \A i \in 1..Len(outcomes) : Sound(outcomes[i], setup.fixtures[i])

LEMMA EarnedInit == Init => Earned
<1> SUFFICES ASSUME Init PROVE Earned
  OBVIOUS
<1>1. /\ setup.fixtures = <<>> /\ outcomes = <<>> /\ pc = "down" /\ got = Nothing
  BY DEF Init, NoSetup
<1>2. Len(setup.fixtures) = 0 /\ Len(outcomes) = 0
  BY <1>1, NoSeq
<1> QED
  BY <1>1, <1>2, NothingShaped DEF Earned, Rooted, InCase

LEMMA LoadedExpected ==
    ASSUME NEW file \in FixtureFiles, NEW i \in 1..Len(LoadYaml(file).fixtures)
    PROVE  LoadYaml(file).fixtures[i].expected
               \in Seq(ToSet(LoadYaml(file).fixtures[i].expected))
  BY ReplayAssumption

LEMMA EarnedStep == Shape /\ Earned /\ [Next]_vars => Earned'
<1> SUFFICES ASSUME Shape, Earned, [Next]_vars PROVE Earned'
  OBVIOUS
<1>0. Len(outcomes) \in Nat /\ Len(setup.fixtures) \in Nat
  BY LenProperties DEF Shape
<1>1. CASE Refuse
  <2>1. /\ outcomes' = <<>> /\ setup'.fixtures = <<>>
        /\ pc = "down" /\ UNCHANGED <<pc, got>>
    BY <1>1 DEF Refuse, NoSetup, body
  <2>2. Len(outcomes') = 0 /\ Len(setup'.fixtures) = 0
    BY <2>1, NoSeq
  <2> QED
    BY <2>1, <2>2 DEF Earned, Rooted, InCase
<1>2. CASE Start
  <2>1. PICK file \in FixtureFiles : setup'.fixtures = LoadYaml(file).fixtures
    BY <1>2 DEF Start
  <2>2. /\ outcomes' = <<>> /\ UNCHANGED body
        /\ pc = "down" /\ pc' \in {"check", "report"}
    BY <1>2 DEF Start
  <2>3. Len(outcomes') = 0
    BY <2>2, NoSeq
  <2>4. \A i \in 1..Len(setup'.fixtures) :
           setup'.fixtures[i].expected \in Seq(ToSet(setup'.fixtures[i].expected))
    BY <2>1, LoadedExpected
  <2> QED
    BY <2>2, <2>3, <2>4 DEF Earned, Rooted, InCase, body
<1>3. CASE UNCHANGED <<setup, outcomes>>
  <2>0. Fixture' = Fixture /\ Base' = Base
    BY <1>3 DEF Fixture, Base
  <2> USE <1>3, <2>0 DEF Earned, Rooted, InCase
  <2>1. CASE Check
    BY <2>1, KnownCommits DEF Check, body
  <2>2. CASE Enter
    BY <2>2 DEF Enter
  <2>3. CASE Stub
    <3>1. /\ pc = "draft" /\ pc' = "apply"
          /\ got'.applyOk = got.applyOk /\ got'.files = got.files
          /\ got'.replacements = got.replacements
      BY <2>3 DEF Stub, Shape, GotFields
    <3> QED
      BY <3>1
  <2>4. CASE PrepareIndex \/ IndexOne \/ IndexEnd
    BY <2>4 DEF PrepareIndex, IndexOne, IndexEnd, body
  <2>5. CASE Model
    <3>1. /\ pc = "model" /\ pc' = "apply"
          /\ got'.applyOk = got.applyOk /\ got'.files = got.files
          /\ got'.replacements = got.replacements
      BY <2>5 DEF Model, Shape, GotFields
    <3> QED
      BY <3>1
  <2>6. CASE PipelineFails
    <3>1. /\ pc \in {"index", "model"} /\ pc' = "remove"
          /\ got'.applyOk = got.applyOk /\ got'.files = got.files
          /\ got'.replacements = got.replacements /\ got'.failure = "pipeline_failed"
      BY <2>6 DEF PipelineFails, Shape, GotFields
    <3> QED
      BY <3>1
  <2>7. CASE ApplyDraft
    <3>1. /\ pc = "apply" /\ pc' = "golden"
          /\ got'.files = got.files /\ got'.replacements = got.replacements
      BY <2>7 DEF ApplyDraft, Shape, GotFields
    <3> QED
      BY <3>1
  <2>8. CASE Golden
    <3>1. PICK result : result # "none" /\ got' = [got EXCEPT !.golden = result]
      BY <2>8, GoldenSays DEF Golden
    <3>2. /\ pc = "golden" /\ pc' = "detect" /\ got'.golden # "none"
          /\ got'.applyOk = got.applyOk /\ got'.files = got.files
          /\ got'.replacements = got.replacements
      BY <2>8, <3>1 DEF Golden, Shape, GotFields
    <3> QED
      BY <3>2
  <2>9. CASE Detect
    <3>1. \/ UNCHANGED got
          \/ /\ got.applyOk = "yes"
             /\ \E files, replacements :
                   got' = [got EXCEPT !.files = files, !.replacements = replacements]
      BY <2>9, Zenon DEF Detect
    <3>2. pc = "detect" /\ pc' = "remove" /\ UNCHANGED trouble
      BY <2>9 DEF Detect
    <3>3. got'.golden = got.golden /\ got'.applyOk = got.applyOk
      BY <3>1 DEF Shape, GotFields
    <3>4. got'.applyOk # "yes" => UNCHANGED got
      BY <3>1, <3>3
    <3> QED
      BY <3>2, <3>3, <3>4
  <2>10. CASE Raise \/ RemoveWorktree \/ Prune \/ RemoveTree
    BY <2>10 DEF Raise, RemoveWorktree, Prune, RemoveTree
  <2>11. CASE Leave
    <3>1. /\ pc = "leave" /\ pc' = "answer" /\ trouble = "none" /\ UNCHANGED trouble
          /\ got'.applyOk = got.applyOk /\ got'.files = got.files
          /\ got'.replacements = got.replacements /\ got'.golden = got.golden
      BY <2>11 DEF Leave, Shape, GotFields
    <3>2. got'.failure = "none" => got.failure = "none"
      BY <2>11 DEF Leave, Shape, GotFields
    <3> QED
      BY <3>1, <3>2
  <2>12. CASE WriteFile
    BY <2>12 DEF WriteFile, body
  <2>13. CASE TmpCleared \/ EditOriginal \/ UNCHANGED vars
    BY <2>13 DEF TmpCleared, EditOriginal, vars, body
  <2>14. CASE Answer \/ CheckFails \/ EnterFails \/ LeaveOnError \/ Kill \/ AnswerRaises
    <3>1. pc' \in {"down", "check", "report"} /\ got' = Nothing
      <4>1. ASSUME NEW failure, NEW answer, NEW checks, Finish(failure, answer, checks)
            PROVE  pc' \in {"check", "report"} /\ got' = Nothing
        BY <4>1 DEF Finish, Outcome
      <4>2. CASE Answer
        BY <4>1, <4>2, AnswerEnds
      <4>3. CASE CheckFails \/ EnterFails \/ LeaveOnError \/ Kill \/ AnswerRaises
        BY <4>1, <4>3, EarlyEnds
           DEF CheckFails, EnterFails, LeaveOnError, Kill, AnswerRaises
      <4> QED
        BY <2>14, <4>2, <4>3
    <3> QED
      BY <3>1, NothingShaped
  <2> QED
    BY <2>1, <2>2, <2>3, <2>4, <2>5, <2>6, <2>7, <2>8, <2>9, <2>10, <2>11, <2>12, <2>13,
       <2>14, <1>1, <1>2 DEF Next, Case, Pipeline, Draft, Cleanup, Report
<1>4. ASSUME NEW failure, NEW answer, NEW checks, Finish(failure, answer, checks),
             pc \in InCase, UNCHANGED setup,
             failure = "none" =>
                /\ Known(Fixture) /\ got.golden # "none"
                /\ answer = ExtractAnswerDiff(Base, Commits[Fixture.answer], Fixture)
                /\ checks = CheckExpected(Commits[Fixture.answer], Fixture.expected)
      PROVE  Earned'
  <2>1. CaseEnds(failure, answer, checks)
    BY <1>4, FinishEnds
  <2> DEFINE o == outcomes'[Len(outcomes) + 1]
  <2>2. Sound(o, Fixture)
    BY <1>4, <2>1 DEF CaseEnds, Sound, Earned, Base
  <2>3. Sound(outcomes'[Len(outcomes) + 1], setup'.fixtures[Len(outcomes) + 1])
    BY <2>2, <1>4 DEF Fixture
  <2> HIDE DEF o
  <2>4. \A i \in 1..Len(outcomes') : Sound(outcomes'[i], setup'.fixtures[i])
    <3> SUFFICES ASSUME NEW i \in 1..Len(outcomes')
                 PROVE  Sound(outcomes'[i], setup'.fixtures[i])
      OBVIOUS
    <3>1. CASE i = Len(outcomes) + 1
      BY <2>3, <3>1
    <3>2. CASE i \in 1..Len(outcomes)
      BY <2>1, <3>2, <1>4 DEF CaseEnds, Earned
    <3> QED
      BY <1>0, <2>1, <3>1, <3>2 DEF CaseEnds
  <2>5. (\A i \in 1..Len(outcomes) : Sound(outcomes[i], setup.fixtures[i]))'
    BY <2>4
  <2> QED
    BY <2>1, <2>5, <1>4, NothingShaped DEF CaseEnds, Earned, Rooted, InCase
<1>5. CASE Answer
  <2>1. PICK failure, answer, checks :
            Finish(failure, answer, checks) /\ AnswerOutcome(failure, answer, checks)
    BY <1>5, AnswerEnds
  <2>2. pc = "answer" /\ UNCHANGED setup
    BY <1>5, AnswerEnds
  <2>3. Known(Fixture) /\ trouble = "none" /\ (got.failure = "none" => got.golden # "none")
    BY <2>2 DEF Earned, Rooted, InCase
  <2>4. failure = "none" =>
            /\ got.failure = "none"
            /\ answer = ExtractAnswerDiff(Base, Commits[Fixture.answer], Fixture)
            /\ checks = CheckExpected(Commits[Fixture.answer], Fixture.expected)
    BY <2>1 DEF AnswerOutcome
  <2> QED
    BY <2>1, <2>2, <2>3, <2>4, <1>4 DEF InCase
<1>6. ASSUME NEW failure, FinishEarly(failure), pc \in {"check", "enter", "leave"},
             failure \in {"repo_unavailable", "dirty_worktree", "commit_not_found",
                          "worktree_failed"}
      PROVE  Earned'
  BY <1>6, <1>4, EarlyEnds DEF InCase
<1>7. CASE pc' = "down" /\ outcomes' = <<>> /\ got' = Nothing /\ UNCHANGED setup
  <2>1. Len(outcomes') = 0
    BY <1>7, NoSeq
  <2> QED
    BY <1>7, <2>1, NothingShaped DEF Earned, Rooted, InCase
<1> QED
  BY <1>1, <1>2, <1>3, <1>5, <1>6, <1>7, CaseSteps

\* A rate over a finite set is full only if the set is covered.
LEMMA FullCoverage ==
    ASSUME NEW relevant, IsFiniteSet(relevant), NEW patched,
           Full(FileCoverage(relevant, patched))
    PROVE  relevant \subseteq patched
<1>1. Cardinality(relevant) \in Nat
  BY FS_CardinalityType
<1>2. CASE Cardinality(relevant) = 0
  BY <1>2, FS_EmptySet
<1>3. CASE Cardinality(relevant) # 0
  <2>1. Cardinality(relevant \intersect patched) = Cardinality(relevant)
    BY <1>3, Full(FileCoverage(relevant, patched)) DEF Full, FileCoverage, Rate
  <2>2. relevant \intersect patched \subseteq relevant
    OBVIOUS
  <2>3. relevant \intersect patched = relevant
    BY <2>1, <2>2, FS_Subset
  <2> QED
    BY <2>3
<1> QED
  BY <1>2, <1>3

LEMMA FiniteScope ==
    ASSUME NEW f, Known(f)
    PROVE  IsFiniteSet(ExtractAnswerDiff(Commits[f.base], Commits[f.answer], f).in_scope)
<1> DEFINE base == Commits[f.base]
           answer == Commits[f.answer]
<1>1. IsFiniteSet(DOMAIN base) /\ IsFiniteSet(DOMAIN answer)
  BY ReplayAssumption DEF Known
<1>2. IsFiniteSet(DOMAIN base \union DOMAIN answer)
  BY <1>1, FS_Union
<1>3. AnswerFiles(base, answer) \subseteq DOMAIN base \union DOMAIN answer
  BY DEF AnswerFiles, Changed
<1>4. \A files : ClassifyChanges(files, f).in_scope \subseteq files
  BY DEF ClassifyChanges
<1>5. ExtractAnswerDiff(base, answer, f).in_scope \subseteq DOMAIN base \union DOMAIN answer
  BY <1>3, <1>4 DEF ExtractAnswerDiff
<1> QED
  BY <1>2, <1>5, FS_Subset

\* _verdict, compute_metrics: of a sound outcome, passed means that it was earned.
LEMMA SoundPassed ==
    ASSUME NEW o, NEW f, Sound(o, f), f.expected \in Seq(ToSet(f.expected)),
           ComputeMetrics(o).passed
    PROVE  LET inScope == ExtractAnswerDiff(Commits[f.base], Commits[f.answer], f).in_scope
           IN  /\ o.failure = "none"
               /\ \A j \in 1..Len(f.expected) :
                       CheckOk(CheckOne(Commits[f.answer], f.expected[j]))
               /\ inScope \subseteq o.files
               /\ o.golden \in {"passed", "skipped"}
               /\ o.applyOk # "yes" => f.expected = <<>> /\ inScope = {}
<1> DEFINE inScope == ExtractAnswerDiff(Commits[f.base], Commits[f.answer], f).in_scope
           keys == GeneratedKeys(o.replacements)
           coverage == FileCoverage(o.answer.in_scope, o.files)
<1>0. /\ o.failure = "none"
      /\ \A i \in 1..Len(o.checks) : CheckOk(o.checks[i])
      /\ Full(ReplacementRate(o.expected, keys))
      /\ Full(coverage)
      /\ o.golden \in GoldenOk
  BY DEF ComputeMetrics, Verdict
<1>1. /\ Known(f) /\ o.golden # "none"
      /\ o.answer.in_scope = inScope
      /\ o.checks = CheckExpected(Commits[f.answer], f.expected)
      /\ o.expected = f.expected
      /\ o.applyOk # "yes" => o.files = {} /\ o.replacements = {}
  BY <1>0 DEF Sound
<1>2. Len(f.expected) \in Nat
  BY LenProperties
<1>3. \A j \in 1..Len(f.expected) : CheckOk(CheckOne(Commits[f.answer], f.expected[j]))
  <2> DEFINE Of(item) == CheckOne(Commits[f.answer], item)
             checks == [i \in 1..Len(f.expected) |-> Of(f.expected[i])]
  <2>1. o.checks = checks
    BY <1>1 DEF CheckExpected
  <2> HIDE DEF Of
  <2>2. Len(checks) = Len(f.expected)
    BY <1>2
  <2>3. \A j \in 1..Len(f.expected) : checks[j] = Of(f.expected[j])
    OBVIOUS
  <2> HIDE DEF checks
  <2>4. \A j \in 1..Len(f.expected) : CheckOk(Of(f.expected[j]))
    BY <1>0, <2>1, <2>2, <2>3
  <2> QED
    BY <2>4 DEF Of
<1>4. inScope \subseteq o.files
  BY <1>0, <1>1, FiniteScope, FullCoverage
<1>5. o.golden \in {"passed", "skipped"}
  BY <1>0, <1>1 DEF GoldenOk
<1>6. ASSUME o.applyOk # "yes" PROVE f.expected = <<>> /\ inScope = {}
  <2>1. inScope = {}
    BY <1>1, <1>4, <1>6
  <2>2. keys = {}
    BY <1>1, <1>6 DEF GeneratedKeys
  <2>3. {i \in 1..Len(f.expected) : ReplacementKey(f.expected[i]) \in keys} = {}
    BY <2>2
  <2>4. ReplacementRate(f.expected, keys) = Rate(0, Len(f.expected))
    BY <2>3, FS_EmptySet DEF ReplacementRate
  <2>5. Len(f.expected) = 0
    BY <1>0, <1>1, <1>2, <2>4 DEF Rate, Full
  <2> QED
    BY <2>1, <2>5, EmptySeq
<1> HIDE DEF keys, coverage
<1> QED
  BY <1>0, <1>3, <1>4, <1>5, <1>6

\* _verdict, compute_metrics: a case that passes was earned, whatever was drafted, and
\* whatever failed on the way.
THEOREM PassIsEarned == Spec => []PassedIsEarned
<1>1. Shape /\ Earned => PassedIsEarned
  <2> SUFFICES ASSUME Shape, Earned, NEW i \in 1..Len(outcomes)
               PROVE  LET o == outcomes[i]
                          f == setup.fixtures[i]
                          inScope == ExtractAnswerDiff(Commits[f.base],
                                                       Commits[f.answer], f).in_scope
                      IN  ComputeMetrics(o).passed =>
                          /\ o.failure = "none"
                          /\ \A j \in 1..Len(f.expected) :
                                  CheckOk(CheckOne(Commits[f.answer], f.expected[j]))
                          /\ inScope \subseteq o.files
                          /\ o.golden \in {"passed", "skipped"}
                          /\ o.applyOk # "yes" => f.expected = <<>> /\ inScope = {}
    BY DEF PassedIsEarned
  <2>1. Sound(outcomes[i], setup.fixtures[i])
    BY DEF Earned
  <2>2. i \in 1..Len(setup.fixtures)
    BY LenProperties DEF Shape
  <2>3. setup.fixtures[i].expected \in Seq(ToSet(setup.fixtures[i].expected))
    BY <2>2 DEF Earned
  <2> QED
    BY <2>1, <2>3, SoundPassed
<1> QED
  BY <1>1, ShapeInit, ShapeStep, EarnedInit, EarnedStep, PTL DEF Spec

-----------------------------------------------------------------------------
(* The names of the temporary roots *)

LEMMA LeastOf ==
    ASSUME NEW T, T \subseteq Nat, T # {}
    PROVE  \E least \in T : \A n \in T : least <= n
<1>1. IsWellFoundedOn(OpToRel(<, Nat), Nat)
  BY NatLessThanWellFounded
<1>2. PICK least \in T : \A n \in T : <<n, least>> \notin OpToRel(<, Nat)
  BY <1>1, WFMin
<1>3. \A n \in T : ~(n < least)
  BY <1>2 DEF OpToRel
<1>4. \A n \in T : least <= n
  BY <1>3
<1> QED
  BY <1>4

\* A name that is free, no greater than the number of those in use and one.
LEMMA NameIsFree ==
    ASSUME NEW S, S \subseteq Nat \ {0}, IsFiniteSet(S)
    PROVE  \E n \in 1..(Cardinality(S) + 1) : n \notin S /\ 1..(n - 1) \subseteq S
<1> DEFINE bound == Cardinality(S) + 1
           free == (Nat \ {0}) \ S
<1>1. Cardinality(S) \in Nat
  BY FS_CardinalityType
<1>2. PICK k \in 1..bound : k \notin S
  <2>1. Cardinality(1..bound) = bound
    BY <1>1, FS_Interval
  <2>2. ~(1..bound \subseteq S)
    BY <1>1, <2>1, FS_Subset
  <2> QED
    BY <2>2
<1>3. PICK n \in free : \A m \in free : n <= m
  <2>1. k \in free
    BY <1>1, <1>2
  <2>2. free \subseteq Nat /\ free # {}
    BY <2>1
  <2> HIDE DEF free
  <2> QED
    BY <2>2, LeastOf
<1>4. n \in 1..bound
  BY <1>1, <1>2, <1>3
<1>5. 1..(n - 1) \subseteq S
  <2> SUFFICES ASSUME NEW m \in 1..(n - 1), m \notin S PROVE FALSE
    OBVIOUS
  <2>1. m \in free /\ m < n
    BY <1>4, <1>1
  <2> QED
    BY <1>3, <2>1
<1> QED
  BY <1>3, <1>4, <1>5

\* The roots that earlier cases have left, and the one this case is going to leave:
\* a step of its cleanup has failed already.
InUse == entries \union dirs
Left == InUse \ {tmp}
Owed == IF problems THEN 1 ELSE 0

\* Every root that is left has cost a fault, so the names stay within the bound.
Numbered ==
    /\ works \subseteq dirs
    /\ InUse \subseteq 1..(MaxFaults + 1)
    /\ tmp \in {0} \union 1..(MaxFaults + 1)
    /\ (tmp # 0) <=> pc \in Rooted
    /\ faults \in 0..MaxFaults
    /\ problems \in BOOLEAN
    /\ problems => pc \in Rooted
    /\ pc = "answer" /\ ~problems => tmp \notin InUse
    /\ Cardinality(Left) + Owed <= faults

LEMMA InUseFinite ==
    ASSUME Numbered
    PROVE  /\ IsFiniteSet(InUse) /\ IsFiniteSet(Left)
           /\ Cardinality(InUse) \in Nat /\ Cardinality(Left) \in Nat
           /\ Cardinality(InUse) <= Cardinality(Left) + 1
           /\ tmp \notin InUse => Left = InUse
<1>1. IsFiniteSet(1..(MaxFaults + 1))
  BY FS_Interval, ReplayAssumption
<1>2. IsFiniteSet(InUse)
  BY <1>1, FS_Subset DEF Numbered
<1>3. Cardinality(InUse) \in Nat
  BY <1>2, FS_CardinalityType
<1>4. IsFiniteSet(Left)
      /\ Cardinality(Left) = IF tmp \in InUse THEN Cardinality(InUse) - 1
                             ELSE Cardinality(InUse)
  BY <1>2, FS_RemoveElement DEF Left
<1>5. Cardinality(Left) \in Nat
  BY <1>4, FS_CardinalityType
<1>6. tmp \notin InUse => Left = InUse
  BY DEF Left
<1> QED
  BY <1>2, <1>3, <1>4, <1>5, <1>6

LEMMA NumberedInit == Init => Numbered
<1> SUFFICES ASSUME Init PROVE Numbered
  OBVIOUS
<1>1. /\ entries = {} /\ dirs = {} /\ works = {} /\ tmp = 0 /\ pc = "down"
      /\ problems = FALSE /\ faults = 0
  BY DEF Init
<1>2. Left = {} /\ InUse = {} /\ Owed = 0
  BY <1>1 DEF Left, InUse, Owed
<1>3. Cardinality(Left) = 0
  BY <1>2, FS_EmptySet
<1>4. MaxFaults \in Nat
  BY ReplayAssumption
<1>5. problems \in BOOLEAN /\ ~problems
  BY <1>1
<1>6. pc \notin Rooted /\ pc # "answer"
  BY <1>1 DEF Rooted, InCase
<1>7. Cardinality(Left) + Owed <= faults /\ faults \in 0..MaxFaults
  BY <1>1, <1>2, <1>3, <1>4
<1>8. /\ works \subseteq dirs /\ InUse \subseteq 1..(MaxFaults + 1)
      /\ tmp = 0
  BY <1>1, <1>2
<1> QED
  BY <1>5, <1>6, <1>7, <1>8 DEF Numbered

\* Steps of the cleanup: things are taken away, and a fault is paid for what stays.
LEMMA CleanupNumbered ==
    ASSUME Numbered,
           entries' \subseteq entries, dirs' \subseteq dirs, works' \subseteq dirs',
           UNCHANGED tmp, pc \in Rooted <=> pc' \in Rooted, pc' # "answer",
           problems' \in BOOLEAN, problems' => pc' \in Rooted,
           \/ UNCHANGED problems /\ (faults' = faults \/ Fault)
           \/ Fault
    PROVE  Numbered'
<1>1. InUse' \subseteq InUse /\ Left' \subseteq Left
  BY DEF InUse, Left
<1>2. Cardinality(Left') \in Nat /\ Cardinality(Left') <= Cardinality(Left)
  BY <1>1, InUseFinite, FS_Subset, FS_CardinalityType
<1>3. MaxFaults \in Nat /\ faults \in Nat /\ faults' \in 0..MaxFaults
  BY ReplayAssumption DEF Numbered, Fault
<1>4. Cardinality(Left') + Owed' <= faults'
  <2>1. CASE UNCHANGED problems
    BY <1>2, <1>3, <2>1, InUseFinite DEF Numbered, Owed, Fault
  <2>2. CASE Fault
    BY <1>2, <1>3, <2>2, InUseFinite DEF Numbered, Owed, Fault
  <2> QED
    BY <2>1, <2>2
<1>5. Cardinality(Left)' + Owed' <= faults'
  BY <1>4
<1> QED
  BY <1>1, <1>3, <1>5 DEF Numbered

\* The end of a case or of the command: what is still there has been paid for.
LEMMA EndNumbered ==
    ASSUME Numbered, UNCHANGED disk, tmp' = 0, pc' \notin Rooted, problems' = FALSE,
           \/ Fault
           \/ faults' = faults /\ (~problems => tmp \notin InUse)
    PROVE  Numbered'
<1>1. InUse' = InUse /\ UNCHANGED <<dirs, works>>
  BY DEF InUse, disk
<1>2. Left' = InUse /\ Owed' = 0
  BY <1>1, ReplayAssumption DEF Left, Owed, Numbered
<1>3. MaxFaults \in Nat /\ faults \in Nat /\ faults' \in 0..MaxFaults
  BY ReplayAssumption DEF Numbered, Fault
<1>4. Cardinality(InUse) <= faults'
  <2>1. CASE Fault
    BY <1>3, <2>1, InUseFinite DEF Numbered, Owed, Fault
  <2>2. CASE faults' = faults /\ problems
    BY <1>3, <2>2, InUseFinite DEF Numbered, Owed
  <2>3. CASE faults' = faults /\ ~problems /\ tmp \notin InUse
    BY <1>3, <2>3, InUseFinite DEF Numbered, Owed
  <2> QED
    BY <2>1, <2>2, <2>3
<1>5. Cardinality(Left)' + Owed' <= faults'
  BY <1>2, <1>4, InUseFinite
<1>6. pc' # "answer"
  BY DEF Rooted, InCase
<1> QED
  BY <1>1, <1>3, <1>5, <1>6 DEF Numbered

\* Steps that leave the disk alone.
LEMMA SameNumbered ==
    ASSUME Numbered, UNCHANGED <<disk, tmp, problems>>,
           pc \in Rooted <=> pc' \in Rooted, pc' = "answer" => pc = "answer",
           faults' = faults \/ Fault
    PROVE  Numbered'
<1>1. InUse' = InUse /\ Left' = Left /\ Owed' = Owed /\ UNCHANGED <<dirs, works>>
  BY DEF InUse, Left, Owed, disk
<1>2. MaxFaults \in Nat /\ faults \in Nat /\ faults' \in 0..MaxFaults /\ faults <= faults'
  BY ReplayAssumption DEF Numbered, Fault
<1>3. Cardinality(Left)' + Owed' <= faults'
  BY <1>1, <1>2, InUseFinite DEF Numbered, Owed
<1> QED
  BY <1>1, <1>2, <1>3 DEF Numbered

LEMMA EnterNumbered == ASSUME Shape, Numbered, Enter PROVE Numbered'
<1>1. /\ pc = "enter" /\ pc' \in {"draft", "remove"} /\ tmp' = FreeName
      /\ dirs' = dirs \union {FreeName} /\ UNCHANGED problems
      /\ \/ UNCHANGED <<works, entries>>
         \/ works' = works \union {FreeName} /\ entries' = entries \union {FreeName}
      /\ faults' = faults \/ Fault
  BY Zenon DEF Enter, NoFault
<1>2. tmp = 0 /\ ~problems /\ Owed = 0
  BY <1>1 DEF Numbered, Rooted, InCase, Owed
<1>3. tmp \notin InUse /\ Left = InUse
  BY <1>2, InUseFinite, ReplayAssumption DEF Numbered
<1>4. InUse \subseteq Nat \ {0}
  BY ReplayAssumption DEF Numbered
<1>5. \E n \in 1..(Cardinality(InUse) + 1) : n \notin InUse /\ 1..(n - 1) \subseteq InUse
  BY <1>4, InUseFinite, NameIsFree
<1>6. FreeName \in 1..(Cardinality(InUse) + 1) /\ FreeName \notin InUse
  <2>1. InUse = dirs \union entries
    BY DEF InUse
  <2>2. FreeName = CHOOSE n \in 1..(Cardinality(InUse) + 1) :
                       n \notin InUse /\ 1..(n - 1) \subseteq InUse
    BY <2>1 DEF FreeName
  <2> QED
    BY <1>5, <2>2
<1>7. Cardinality(InUse) <= MaxFaults /\ Cardinality(InUse) \in Nat
  BY <1>2, <1>3, InUseFinite, ReplayAssumption DEF Numbered
<1>8. FreeName \in 1..(MaxFaults + 1) /\ FreeName # 0
  BY <1>6, <1>7, ReplayAssumption
<1>9. InUse' = InUse \union {FreeName} /\ Left' = Left /\ Owed' = Owed
  BY <1>1, <1>3, <1>6 DEF InUse, Left, Owed
<1>10. MaxFaults \in Nat /\ faults \in Nat /\ faults' \in 0..MaxFaults /\ faults <= faults'
  BY <1>1, ReplayAssumption DEF Numbered, Fault
<1>11. Cardinality(Left)' + Owed' <= faults'
  BY <1>2, <1>9, <1>10, InUseFinite DEF Numbered
<1>12. works' \subseteq dirs'
  BY <1>1 DEF Numbered
<1>13. pc' \in Rooted /\ pc' # "answer"
  BY <1>1 DEF Rooted, InCase
<1> QED
  BY <1>1, <1>2, <1>8, <1>9, <1>10, <1>11, <1>12, <1>13 DEF Numbered

LEMMA NumberedStep == Shape /\ Cleared /\ Numbered /\ [Next]_vars => Numbered'
<1> SUFFICES ASSUME Shape, Cleared, Numbered, [Next]_vars PROVE Numbered'
  OBVIOUS
<1> USE DEF Rooted, InCase
<1>1. CASE Enter
  BY <1>1, EnterNumbered
<1>2. CASE \/ Refuse \/ Start \/ Check \/ Stub \/ PrepareIndex \/ IndexOne \/ IndexEnd
           \/ Model \/ PipelineFails \/ Raise \/ WriteFile \/ EditOriginal
           \/ UNCHANGED vars
  <2>1. /\ UNCHANGED <<disk, tmp, problems>>
        /\ pc \in Rooted <=> pc' \in Rooted
        /\ pc' = "answer" => pc = "answer"
    BY <1>2 DEF Refuse, Start, Check, Stub, PrepareIndex, IndexOne, IndexEnd, Model,
                PipelineFails, Raise, WriteFile, EditOriginal, vars, body, disk
  <2>2. faults' = faults \/ Fault
    BY <1>2, Zenon
       DEF Refuse, Start, Check, Stub, PrepareIndex, IndexOne, IndexEnd, Model,
           PipelineFails, Raise, WriteFile, EditOriginal, vars, NoFault
  <2> QED
    BY <2>1, <2>2, SameNumbered
<1>3. CASE ApplyDraft \/ Golden \/ Detect
  <2>1. /\ UNCHANGED <<disk, tmp, problems>> /\ pc \in Rooted /\ pc' \in Rooted
        /\ pc' # "answer"
    BY <1>3 DEF ApplyDraft, Golden, Detect
  <2>2. faults' = faults \/ Fault
    BY <1>3, Zenon DEF ApplyDraft, Golden, Detect, NoFault
  <2> QED
    BY <2>1, <2>2, SameNumbered
<1>4. CASE RemoveWorktree
  <2>1. /\ pc = "remove" /\ pc' = "prune" /\ UNCHANGED <<dirs, tmp>>
        /\ entries' \in {entries, entries \ {tmp}} /\ works' \in {works, works \ {tmp}}
    BY <1>4, Zenon DEF RemoveWorktree
  <2>2. \/ UNCHANGED problems /\ faults' = faults
        \/ problems' = (problems \/ tmp \in works) /\ Fault
        \/ problems' = TRUE /\ Fault
    BY <1>4, Zenon DEF RemoveWorktree, NoFault
  <2>3. problems' \in BOOLEAN
    BY <2>2, Zenon DEF Shape
  <2>4. \/ UNCHANGED problems /\ faults' = faults
        \/ Fault
    BY <2>2
  <2> QED
    BY <2>1, <2>3, <2>4, CleanupNumbered DEF Numbered
<1>5. CASE Prune
  <2>1. /\ pc = "prune" /\ pc' = "rmtree" /\ UNCHANGED <<dirs, works, tmp>>
        /\ \/ entries' = entries \intersect works /\ UNCHANGED problems /\ faults' = faults
           \/ entries' = entries /\ problems' = TRUE /\ Fault
    BY <1>5, Zenon DEF Prune, NoFault
  <2>2. problems' \in BOOLEAN
    BY <2>1, Zenon DEF Shape
  <2>3. \/ UNCHANGED problems /\ faults' = faults
        \/ Fault
    BY <2>1
  <2> QED
    BY <2>1, <2>2, <2>3, CleanupNumbered DEF Numbered
<1>6. CASE RemoveTree
  <2>1. /\ pc = "rmtree" /\ pc' = "leave" /\ UNCHANGED <<entries, tmp>>
        /\ works' = works \ {tmp}
        /\ \/ dirs' = dirs \ {tmp} /\ UNCHANGED problems /\ faults' = faults
           \/ dirs' = dirs /\ problems' = TRUE /\ Fault
    BY <1>6, Zenon DEF RemoveTree, NoFault
  <2>2. problems' \in BOOLEAN
    BY <2>1, Zenon DEF Shape
  <2>3. \/ UNCHANGED problems /\ faults' = faults
        \/ Fault
    BY <2>1
  <2>4. works' \subseteq dirs' /\ dirs' \subseteq dirs
    BY <2>1 DEF Numbered
  <2> QED
    BY <2>1, <2>2, <2>3, <2>4, CleanupNumbered
<1>7. CASE Leave
  <2>1. /\ pc = "leave" /\ pc' = "answer" /\ UNCHANGED <<disk, tmp, problems, faults>>
    BY <1>7 DEF Leave
  <2>2. ~problems => tmp \notin InUse
    BY <2>1 DEF Cleared, InUse
  <2>3. InUse' = InUse /\ Left' = Left /\ Owed' = Owed /\ UNCHANGED <<dirs, works>>
    BY <2>1 DEF InUse, Left, Owed, disk
  <2>4. Cardinality(Left)' + Owed' <= faults'
    BY <2>1, <2>3 DEF Numbered
  <2> QED
    BY <2>1, <2>2, <2>3, <2>4 DEF Numbered
<1>8. CASE Answer \/ CheckFails \/ EnterFails \/ LeaveOnError \/ Kill \/ AnswerRaises
  <2>1. ASSUME NEW failure, NEW answer, NEW checks, Finish(failure, answer, checks)
        PROVE  pc' \in {"check", "report"} /\ tmp' = 0 /\ problems' = FALSE
    BY <2>1 DEF Finish, Outcome
  <2>2. /\ tmp' = 0 /\ pc' \in {"down", "check", "report"} /\ problems' = FALSE
        /\ UNCHANGED disk
    <3>1. CASE Answer
      BY <3>1, <2>1, AnswerEnds
    <3>2. CASE CheckFails \/ EnterFails \/ LeaveOnError \/ Kill \/ AnswerRaises
      BY <3>2, <2>1, EarlyEnds
         DEF CheckFails, EnterFails, LeaveOnError, Kill, AnswerRaises
    <3> QED
      BY <1>8, <3>1, <3>2
  <2>3. faults' = faults \/ Fault
    <3>1. CASE Answer
      BY <3>1, AnswerEnds
    <3>2. CASE CheckFails \/ EnterFails \/ LeaveOnError \/ Kill \/ AnswerRaises
      BY <3>2 DEF CheckFails, EnterFails, LeaveOnError, Kill, AnswerRaises, NoFault
    <3> QED
      BY <1>8, <3>1, <3>2
  <2>4. CASE Fault
    BY <2>2, <2>4, EndNumbered
  <2>5. CASE faults' = faults
    <3>1. pc \in {"check", "enter", "leave", "answer"} \/ Fault
      BY <1>8, AnswerEnds DEF CheckFails, EnterFails, LeaveOnError, Kill, AnswerRaises
    <3>2. CASE pc \in {"check", "enter"}
      <4>1. tmp = 0
        BY <3>2 DEF Numbered
      <4>2. tmp \notin InUse
        BY <4>1, ReplayAssumption DEF Numbered
      <4> QED
        BY <2>2, <2>5, <4>2, EndNumbered
    <3>3. CASE pc = "leave"
      <4>1. ~problems => tmp \notin InUse
        BY <3>3 DEF Cleared, InUse
      <4> QED
        BY <2>2, <2>5, <4>1, EndNumbered
    <3>4. CASE pc = "answer"
      <4>1. ~problems => tmp \notin InUse
        BY <3>4 DEF Numbered
      <4> QED
        BY <2>2, <2>5, <4>1, EndNumbered
    <3> QED
      BY <2>4, <3>1, <3>2, <3>3, <3>4
  <2> QED
    BY <2>3, <2>4, <2>5
<1>9. CASE TmpCleared
  <2>1. /\ pc = "down" /\ dirs' = {} /\ works' = {}
        /\ UNCHANGED <<entries, pc, tmp, problems, faults>>
    BY <1>9 DEF TmpCleared, body
  <2>2. problems' \in BOOLEAN /\ ~problems'
    BY <2>1 DEF Numbered
  <2> QED
    BY <2>1, <2>2, CleanupNumbered
<1> QED
  BY <1>1, <1>2, <1>3, <1>4, <1>5, <1>6, <1>7, <1>8, <1>9
     DEF Next, Case, Pipeline, Draft, Cleanup, Report

\* The original is as it was committed or as it was edited, and every outcome names a
\* failure of the list.
Ranged ==
    /\ tree \in {Commits[CheckedOut], Edited}
    /\ run \in 0..MaxRuns
    /\ \A i \in 1..Len(outcomes) : outcomes[i].failure \in Failures

LEMMA RangedInit == Init => Ranged
<1> SUFFICES ASSUME Init PROVE Ranged
  OBVIOUS
<1>1. Len(outcomes) = 0 /\ tree = Commits[CheckedOut] /\ run = 0
  BY NoSeq DEF Init
<1> QED
  BY <1>1, ReplayAssumption DEF Ranged

LEMMA RangedStep == Shape /\ Ranged /\ [Next]_vars => Ranged'
<1> SUFFICES ASSUME Shape, Ranged, [Next]_vars PROVE Ranged'
  OBVIOUS
<1>1. tree' \in {Commits[CheckedOut], Edited} /\ run' \in 0..MaxRuns
  <2>1. tree' \in {tree, Commits[CheckedOut], Edited}
    BY DEF Next, vars, Case, Pipeline, Draft, Cleanup, Report, CheckFails, Check, EnterFails,
           Enter, Stub, PrepareIndex, IndexOne, IndexEnd, Model, PipelineFails, ApplyDraft,
           Golden, Detect, Raise, RemoveWorktree, Prune, RemoveTree, LeaveOnError, Leave,
           FinishEarly, Answer, AnswerRaises, WriteFile, Kill, TmpCleared, EditOriginal,
           Refuse, Start, original
  <2>2. CASE Refuse \/ Start
    <3>1. run < MaxRuns /\ run' = run + 1
      BY <2>2, Zenon DEF Refuse, Start
    <3> QED
      BY <2>1, <3>1, ReplayAssumption DEF Ranged
  <2>3. CASE ~Refuse /\ ~Start
    <3>1. UNCHANGED run
      BY <2>3
         DEF Next, vars, Case, Pipeline, Draft, Cleanup, Report, CheckFails, Check,
             EnterFails, Enter, Stub, PrepareIndex, IndexOne, IndexEnd, Model, PipelineFails,
             ApplyDraft, Golden, Detect, Raise, RemoveWorktree, Prune, RemoveTree,
             LeaveOnError, Leave, FinishEarly, Answer, AnswerRaises, WriteFile, Kill,
             TmpCleared, EditOriginal, command
    <3> QED
      BY <2>1, <3>1 DEF Ranged
  <2> QED
    BY <2>2, <2>3
<1>2. ASSUME NEW failure, NEW answer, NEW checks, Finish(failure, answer, checks),
             pc \in InCase, failure \in Failures
      PROVE  Ranged'
  <2>1. CaseEnds(failure, answer, checks)
    BY <1>2, FinishEnds
  <2>2. Len(outcomes) \in Nat
    BY LenProperties DEF Shape
  <2>3. \A i \in 1..Len(outcomes') : outcomes'[i].failure \in Failures
    <3> SUFFICES ASSUME NEW i \in 1..Len(outcomes')
                 PROVE  outcomes'[i].failure \in Failures
      OBVIOUS
    <3>1. CASE i = Len(outcomes) + 1
      BY <1>2, <2>1, <3>1 DEF CaseEnds
    <3>2. CASE i \in 1..Len(outcomes)
      BY <2>1, <3>2 DEF CaseEnds, Ranged
    <3> QED
      BY <2>1, <2>2, <3>1, <3>2 DEF CaseEnds
  <2> QED
    BY <1>1, <2>3 DEF Ranged
<1>3. CASE Answer
  <2>1. PICK failure, answer, checks :
            Finish(failure, answer, checks) /\ AnswerOutcome(failure, answer, checks)
    BY <1>3, AnswerEnds
  <2>2. failure \in Failures
    BY <2>1 DEF AnswerOutcome, Shape, Failures
  <2> QED
    BY <1>2, <1>3, <2>1, <2>2, AnswerEnds DEF InCase
<1>4. ASSUME NEW failure, FinishEarly(failure), pc \in {"check", "enter", "leave"},
             failure \in {"repo_unavailable", "dirty_worktree", "commit_not_found",
                          "worktree_failed"}
      PROVE  Ranged'
  BY <1>2, <1>4, EarlyEnds DEF InCase, Failures
<1>5. CASE outcomes' = <<>>
  <2>1. Len(outcomes') = 0
    BY <1>5, NoSeq
  <2> QED
    BY <1>1, <2>1 DEF Ranged
<1>6. CASE UNCHANGED outcomes
  BY <1>1, <1>6 DEF Ranged
<1>7. Refuse \/ Start => outcomes' = <<>>
  BY DEF Refuse, Start
<1> QED
  BY <1>3, <1>4, <1>5, <1>6, <1>7, CaseSteps

\* A cache file holds what was harvested from one tree.
OneTree(file) == file = {} \/ \E t : file = {t}

Harvests == OneTree(dictionary) /\ OneTree(locations)

LEMMA HarvestsInit == Init => Harvests
  BY DEF Init, Harvests, OneTree

LEMMA HarvestsStep == Harvests /\ [Next]_vars => Harvests'
<1> SUFFICES ASSUME Harvests, [Next]_vars PROVE Harvests'
  OBVIOUS
<1>1. \A file, root : OneTree(file) => OneTree(Harvest(file, root))
  BY DEF OneTree, Harvest
<1>2. \A file, root, kept : OneTree(file) /\ kept \in Kept(file, root) => OneTree(kept)
  BY <1>1 DEF Kept
<1>3. CASE IndexOne
  <2>1. UNCHANGED locations /\ dictionary' \in Kept(dictionary, tree) \union {dictionary}
    BY <1>3 DEF IndexOne
  <2>2. OneTree(dictionary')
    BY <1>2, <2>1, Zenon DEF Harvests
  <2>3. OneTree(locations')
    BY <2>1 DEF Harvests
  <2> QED
    BY <2>2, <2>3 DEF Harvests
<1>4. CASE Model
  <2>1. dictionary' \in Kept(dictionary, work) /\ locations' \in Kept(locations, work)
    BY <1>4 DEF Model
  <2>2. OneTree(dictionary') /\ OneTree(locations')
    BY <1>2, <2>1, Zenon DEF Harvests
  <2> QED
    BY <2>2 DEF Harvests
<1>5. CASE ~IndexOne /\ ~Model
  <2>1. UNCHANGED <<dictionary, locations>>
    BY <1>5
       DEF Next, vars, original, Case, Pipeline, Draft, Cleanup, Report, CheckFails, Check,
           EnterFails, Enter, Stub, PrepareIndex, IndexEnd, PipelineFails, ApplyDraft,
           Golden, Detect, Raise, RemoveWorktree, Prune, RemoveTree, LeaveOnError, Leave,
           FinishEarly, Answer, AnswerRaises, WriteFile, Kill, TmpCleared, EditOriginal,
           Refuse, Start
  <2> QED
    BY <2>1 DEF Harvests, OneTree
<1> QED
  BY <1>3, <1>4, <1>5

\* Type correctness. What is on the disk and in the repository was numbered by a case
\* of this or an earlier run, and there is at most one root for each thing that went wrong.
THEOREM TypeCorrect == Spec => []TypeOK
<1>1. Shape /\ Numbered /\ Ranged /\ Harvests => TypeOK
  <2> SUFFICES ASSUME Shape, Numbered, Ranged, Harvests PROVE TypeOK
    OBVIOUS
  <2>1. /\ works \subseteq dirs /\ entries \union dirs \subseteq 1..(MaxFaults + 1)
        /\ tmp \in {0} \union 1..(MaxFaults + 1)
        /\ (tmp # 0) <=> pc \in Rooted
        /\ faults \in 0..MaxFaults
    BY DEF Numbered, InUse
  <2>2. Rooted = {"draft", "index", "model", "apply", "golden", "detect",
                  "remove", "prune", "rmtree", "leave", "answer"}
    BY DEF Rooted, InCase
  <2>3. pc \in {"down", "check", "enter", "draft", "index", "model", "apply", "golden",
                "detect", "remove", "prune", "rmtree", "leave", "answer", "report"}
    BY DEF Shape, InCase
  <2>4. Cardinality(dictionary) <= 1 /\ Cardinality(locations) <= 1
    <3>1. ASSUME NEW file, OneTree(file) PROVE Cardinality(file) <= 1
      <4>1. CASE file = {}
        BY <4>1, FS_EmptySet
      <4>2. ASSUME NEW t, file = {t} PROVE Cardinality(file) <= 1
        <5>1. Cardinality({t}) = 1
          BY FS_Singleton
        <5> QED
          BY <4>2, <5>1
      <4> QED
        BY <3>1, <4>1, <4>2 DEF OneTree
    <3> QED
      BY <3>1, Zenon DEF Harvests
  <2> QED
    BY <2>1, <2>2, <2>3, <2>4, Zenon DEF TypeOK, Shape, Ranged
<1> QED
  BY <1>1, ShapeInit, ShapeStep, ClearedInit, ClearedStep, NumberedInit, NumberedStep,
     RangedInit, RangedStep, HarvestsInit, HarvestsStep, PTL DEF Spec
=============================================================================
