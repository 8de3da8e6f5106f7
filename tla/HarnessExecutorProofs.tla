------------------------ MODULE HarnessExecutorProofs ------------------------
(***************************************************************************)
(* Theorems about HarnessExecutor, for any number of steps, attempts and   *)
(* calls.                                                                  *)
(***************************************************************************)
EXTENDS HarnessExecutor, TLAPS

\* The points between the call of the agent and the end of the attempt.
Attempting == {"calling", "charging", "judging", "judged"}

-----------------------------------------------------------------------------
(* Types and costs *)

\* A call is made only below the limit, a price is held only until it is
\* saved, an index.json that cannot be read is met before the attempt is
\* judged, and the executor stops for a reason that phases/index.json may hold.
CostsFollow ==
    /\ pc = "calling" => saved < MaxCost
    /\ pc # "charging" => price = 0
    /\ pc = "charging" => price > 0
    /\ pc \notin {"down", "calling", "charging", "judging"} => readable
    /\ pc \in {"stopping", "reporting"} => verdict \in {"blocked", "error", "halted"}
    /\ charged = saved

Typed == TypeOK /\ CostsFollow

LEMMA TypedInit == Init => Typed
<1> SUFFICES ASSUME Init PROVE Typed
  OBVIOUS
<1>1. status \in [Steps -> Says \union {"pending"}]
  BY DEF Init
<1>2. step \in Steps /\ missing \subseteq Steps /\ attempt \in 1..MaxRetries
  BY HarnessAssumption DEF Init, Steps
<1> QED
  BY <1>1, <1>2 DEF Init, Typed, TypeOK, CostsFollow

\* A call adds its price, which is not saved yet.
LEMMA ReturnTyped == ASSUME Typed, Return PROVE Typed'
<1>1. /\ saved \in Nat /\ cost \in Nat /\ price = 0
      /\ charged = saved
      /\ readable => cost = saved
  BY DEF Typed, TypeOK, CostsFollow, Return
<1>2. /\ price' \in Prices
      /\ cost' = cost + price'
      /\ saved' = saved /\ charged' = charged /\ readable' = readable
  BY DEF Return, index, history
<1>3. /\ cost' \in Nat
      /\ readable' => cost' = saved' + price'
  <2>1. price' \in Nat
    BY <1>2, HarnessAssumption
  <2>2. \A c, p \in Nat : c + p \in Nat
    OBVIOUS
  <2>3. cost' \in Nat
    BY <1>1, <1>2, <2>1, <2>2, Zenon
  <2>4. readable' => cost' = saved' + price'
    BY <1>1, <1>2, Zenon
  <2> QED
    BY <2>3, <2>4
<1>4. /\ pc' \in {"charging", "judging"}
      /\ pc' = "charging" => price' > 0
      /\ pc' # "charging" => price' = 0
  <2>1. price' \in Nat
    BY <1>2, HarnessAssumption
  <2>2. pc' = IF price' > 0 THEN "charging" ELSE "judging"
    BY DEF Return
  <2>3. CASE price' > 0
    BY <2>2, <2>3, Zenon
  <2>4. CASE price' = 0
    BY <2>2, <2>4
  <2> QED
    BY <2>1, <2>3, <2>4
<1>5. UNCHANGED <<missing, status, stamped, phase, report, edits, step, attempt,
                  verdict, cut, blind>>
  BY DEF Return, index, history
<1>6. CostsFollow'
  BY <1>1, <1>2, <1>4 DEF CostsFollow
<1>7. price' \in Prices \union {0} /\ saved' \in Nat /\ charged' \in Nat
  BY <1>1, <1>2 DEF Typed, TypeOK
<1>8. TypeOK'
  BY <1>2, <1>3, <1>4, <1>5, <1>7, Zenon DEF Typed, TypeOK
<1> QED
  BY <1>6, <1>8 DEF Typed

LEMMA TypedStep == Typed /\ [Next]_vars => Typed'
<1> USE HarnessAssumption
        DEF Typed, TypeOK, CostsFollow, Says, index, place, history
<1> SUFFICES ASSUME Typed, [Next]_vars PROVE Typed'
  OBVIOUS
<1>1. CASE Start
  BY <1>1 DEF Start
<1>2. CASE PickStep
  BY <1>2 DEF PickStep
<1>3. CASE AllDone
  BY <1>3 DEF AllDone
<1>4. CASE OverBudget
  BY <1>4 DEF OverBudget
<1>5. CASE Invoke
  BY <1>5 DEF Invoke
<1>6. CASE Return
  BY <1>6, ReturnTyped
<1>7. CASE Charge
  BY <1>7 DEF Charge
<1>8. CASE Judge
  BY <1>8 DEF Judge, Restored, Kinds
<1>9. CASE Pass
  BY <1>9 DEF Pass
<1>10. CASE Block
  BY <1>10 DEF Block
<1>11. CASE Retry
  BY <1>11 DEF Retry, Failed
<1>12. CASE Exhaust
  BY <1>12 DEF Exhaust, Failed
<1>13. CASE CommitStep
  BY <1>13 DEF CommitStep, Staged, Kinds
<1>14. CASE NoDocument
  BY <1>14 DEF NoDocument
<1>15. CASE Escalate
  BY <1>15 DEF Escalate
<1>16. CASE StopPhase
  BY <1>16 DEF StopPhase
<1>17. CASE ClosePhase
  BY <1>17 DEF ClosePhase
<1>18. CASE Finish
  BY <1>18 DEF Finish, Staged, Kinds
<1>19. ASSUME NEW outcome \in Says, AgentSays(outcome) PROVE Typed'
  BY <1>19 DEF AgentSays
<1>20. ASSUME NEW kind \in Kinds, AgentTampers(kind) PROVE Typed'
  BY <1>20 DEF AgentTampers
<1>21. CASE AgentCommits
  BY <1>21 DEF AgentCommits
<1>22. CASE Timeout
  BY <1>22 DEF Timeout
<1>23. CASE Kill
  BY <1>23 DEF Kill
<1>24. CASE DeleteReport
  BY <1>24 DEF DeleteReport
<1>25. ASSUME NEW s \in Steps, Reset(s) PROVE Typed'
  BY <1>25 DEF Reset
<1>26. CASE ChargeFails
  BY <1>26 DEF ChargeFails
<1>27. CASE Collapse
  BY <1>27 DEF Collapse
<1>28. CASE JudgeBlindly
  BY <1>28 DEF JudgeBlindly
<1>29. CASE AgentBreaks
  BY <1>29 DEF AgentBreaks
<1>30. CASE Repair
  BY <1>30 DEF Repair
<1>31. CASE UNCHANGED vars
  BY <1>31 DEF vars
<1> QED
  BY <1>1, <1>2, <1>3, <1>4, <1>5, <1>6, <1>7, <1>8, <1>9, <1>10, <1>11,
     <1>12, <1>13, <1>14, <1>15, <1>16, <1>17, <1>18, <1>19, <1>20, <1>21,
     <1>22, <1>23, <1>24, <1>25, <1>26, <1>27, <1>28, <1>29, <1>30, <1>31
  DEF Next, Work

LEMMA AlwaysTyped == Spec => []Typed
  BY TypedInit, TypedStep, PTL DEF Spec

\* What index.json, phases/index.json and the executor hold is well-formed,
\* and outside of the moment after a call the executor's price is the saved one.
THEOREM TypeCorrect == Spec => []TypeOK
<1>1. Typed => TypeOK
  BY DEF Typed
<1> QED
  BY <1>1, AlwaysTyped, PTL

\* Every price that was saved is in the saved sum, and no call is begun once
\* that sum has reached the limit, however often the executor is stopped and
\* started again and whatever the calls cost.
THEOREM BudgetKept == Spec => []BudgetHolds
<1>1. Typed => BudgetHolds
  BY HarnessAssumption DEF Typed, TypeOK, CostsFollow, BudgetHolds
<1> QED
  BY <1>1, AlwaysTyped, PTL

-----------------------------------------------------------------------------
(* Steps in order, and a completed phase *)

\* A step that has been taken up has completed steps before it.
Prefix ==
    \A s, t \in Steps : s < t /\ status[t] # "pending" => status[s] = "completed"

\* While the executor works at a step, the ones before it are completed and
\* the ones after it untouched.
Frontier ==
    pc \in Attempting \union {"attempt", "committing"} =>
        \A s \in Steps : /\ s < step => status[s] = "completed"
                         /\ s > step => status[s] = "pending"

\* What the loop and the judgement rely on.
Control ==
    /\ pc = "loop" => \A s \in Steps : status[s] \in {"completed", "pending"}
    /\ pc = "attempt" => status[step] = "pending"
    /\ pc = "judged" => verdict \in {status[step], "violation"}
    /\ pc = "committing" => /\ verdict \in {"completed", "error"}
                            /\ verdict = "completed" => status[step] = "completed"
    /\ pc \in {"closing", "finishing"} => \A s \in Steps : status[s] = "completed"

\* A completed step has passed its check, unless its attempt is still open.
Checked ==
    \A s \in Steps :
        status[s] = "completed" =>
            Judged(s) \/ (s = step /\ pc \in Attempting)

\* Once the phase is completed no step is taken up again.
Closed ==
    phase = "completed" =>
        /\ pc \in {"down", "loop", "closing", "finishing"}
        /\ \A s \in Steps : status[s] = "completed"

\* A step that is completed was judged with no edit that git diff lists; an
\* edit of a file that HEAD has is left behind only by an attempt that is open
\* or given up.
Guarded ==
    cut = {} /\ ~blind =>
        /\ pc = "judged" /\ verdict # "violation" => edits \intersect Visible = {}
        /\ pc = "committing" /\ verdict = "completed" => edits \intersect Visible = {}
        /\ pc \in {"closing", "finishing"} => "tracked" \notin edits
        /\ (\A s \in Steps : status[s] = "completed") =>
              pc \in Attempting \/ "tracked" \notin edits

Orderly == Prefix /\ Frontier /\ Control /\ Checked /\ Closed /\ Guarded

LEMMA OrderlyInit == Init => Orderly
  BY DEF Init, Orderly, Prefix, Frontier, Control, Checked, Closed, Guarded, Attempting

\* A step that is taken up and failed stops the next start, so that at the
\* loop every step is completed or pending.
LEMMA NotBlocked ==
    ASSUME Typed, Prefix, ~Blocked
    PROVE  \A s \in Steps : status[s] \in {"completed", "pending"}
<1> SUFFICES ASSUME NEW s \in Steps, status[s] \in {"error", "blocked"} PROVE FALSE
  BY DEF Typed, TypeOK, Says
<1>1. \A later \in Steps : later > s => status[later] = "pending"
  BY DEF Prefix, Steps
<1> QED
  BY <1>1 DEF Blocked

LEMMA OrderlyStep == Typed /\ Orderly /\ [Next]_vars => Orderly'
<1> USE DEF Orderly, Prefix, Frontier, Control, Checked, Closed, Guarded, Judged,
            Attempting, index, place, history, Steps, Visible
<1> SUFFICES ASSUME Typed, Orderly, [Next]_vars PROVE Orderly'
  OBVIOUS
<1>0. /\ status \in [Steps -> Says \union {"pending"}]
      /\ step \in Steps
      /\ Last \in Nat
      /\ pc \in {"stopping", "reporting"} => verdict \in {"blocked", "error", "halted"}
  BY HarnessAssumption DEF Typed, TypeOK, CostsFollow
<1>1. CASE Start
  BY <1>0, <1>1, NotBlocked DEF Start
<1>2. CASE PickStep
  BY <1>0, <1>2 DEF PickStep
<1>3. CASE AllDone
  BY <1>0, <1>3 DEF AllDone
<1>4. CASE OverBudget
  BY <1>0, <1>4 DEF OverBudget
<1>5. CASE Invoke
  BY <1>0, <1>5 DEF Invoke
<1>6. CASE Return
  BY <1>0, <1>6 DEF Return
<1>7. CASE Charge
  BY <1>0, <1>7 DEF Charge
<1>8. CASE Judge
  BY <1>0, <1>8 DEF Judge, Restored, Visible
<1>9. CASE Pass
  BY <1>0, <1>9 DEF Pass
<1>10. CASE Block
  BY <1>0, <1>10 DEF Block
<1>11. CASE Retry
  BY <1>0, <1>11 DEF Retry, Failed
<1>12. CASE Exhaust
  BY <1>0, <1>12 DEF Exhaust, Failed
<1>13. CASE CommitStep
  BY <1>0, <1>13 DEF CommitStep, Staged, Kinds
<1>14. CASE NoDocument
  BY <1>0, <1>14 DEF NoDocument
<1>15. CASE Escalate
  BY <1>0, <1>15 DEF Escalate
<1>16. CASE StopPhase
  BY <1>0, <1>16 DEF StopPhase
<1>17. CASE ClosePhase
  BY <1>0, <1>17 DEF ClosePhase
<1>18. CASE Finish
  BY <1>0, <1>18 DEF Finish, Staged, Kinds
<1>19. ASSUME NEW outcome \in Says, AgentSays(outcome) PROVE Orderly'
  BY <1>0, <1>19 DEF AgentSays
<1>20. ASSUME NEW kind \in Kinds, AgentTampers(kind) PROVE Orderly'
  BY <1>0, <1>20 DEF AgentTampers
<1>21. CASE AgentCommits
  BY <1>0, <1>21 DEF AgentCommits
<1>22. CASE Timeout
  BY <1>0, <1>22 DEF Timeout
<1>23. CASE Kill
  BY <1>0, <1>23 DEF Kill
<1>24. CASE DeleteReport
  BY <1>0, <1>24 DEF DeleteReport
<1>25. ASSUME NEW s \in Steps, Reset(s) PROVE Orderly'
  BY <1>0, <1>25 DEF Reset
<1>26. CASE ChargeFails
  BY <1>0, <1>26 DEF ChargeFails
<1>27. CASE Collapse
  BY <1>0, <1>27 DEF Collapse
<1>28. CASE JudgeBlindly
  BY <1>0, <1>28 DEF JudgeBlindly
<1>29. CASE AgentBreaks
  BY <1>0, <1>29 DEF AgentBreaks
<1>30. CASE Repair
  BY <1>0, <1>30 DEF Repair
<1>31. CASE UNCHANGED vars
  BY <1>0, <1>31 DEF vars
<1> QED
  BY <1>1, <1>2, <1>3, <1>4, <1>5, <1>6, <1>7, <1>8, <1>9, <1>10, <1>11,
     <1>12, <1>13, <1>14, <1>15, <1>16, <1>17, <1>18, <1>19, <1>20, <1>21,
     <1>22, <1>23, <1>24, <1>25, <1>26, <1>27, <1>28, <1>29, <1>30, <1>31
  DEF Next, Work

LEMMA AlwaysOrderly == Spec => []Orderly
  BY AlwaysTyped, OrderlyInit, OrderlyStep, PTL DEF Spec

\* The agent is called for a step only when every earlier one is completed.
THEOREM InOrder == Spec => []StepsInOrder
<1>1. Orderly => StepsInOrder
  BY DEF Orderly, Frontier, StepsInOrder, Attempting
<1> QED
  BY <1>1, AlwaysOrderly, PTL

\* A phase that is marked completed has only completed steps, each of which
\* was judged or had its attempt cut off.
THEOREM CompletedIsDone == Spec => []DonePhaseIsDone
<1>1. Orderly => DonePhaseIsDone
  BY DEF Orderly, Closed, Checked, DonePhaseIsDone, Attempting
<1> QED
  BY <1>1, AlwaysOrderly, PTL

\* As long as no attempt is cut off and git answers, a step that passes is
\* committed without any edit of a protected file that git diff lists, and the
\* end of the phase without one of a file that HEAD has.
THEOREM ProtectedKept == Spec => []ProtectedNotPassed
<1>1. Orderly => ProtectedNotPassed
  BY DEF Orderly, Guarded, ProtectedNotPassed
<1> QED
  BY <1>1, AlwaysOrderly, PTL

=============================================================================
