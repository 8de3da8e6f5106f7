--------------------------- MODULE HarnessExecutor ---------------------------
(***************************************************************************)
(* scripts/execute.py: the unattended run of a phase.  StepExecutor calls  *)
(* an agent for one pending step after the other; the agent edits the      *)
(* working tree and writes the status of its step into the index.json that *)
(* the executor itself reads and writes; the executor judges the attempt,  *)
(* retries, stops with a report for a person, or closes the phase.  The    *)
(* executor may be stopped at any time; a person removes the report,       *)
(* resets a failed step (or forgets to) and starts it again.               *)
(*                                                                         *)
(* Prices are in the unit that index.json rounds them to, and there is a   *)
(* limit on costs; the limit on time may be reached before any attempt.    *)
(***************************************************************************)
EXTENDS Naturals

CONSTANTS
    Last,         \* the steps are 0..Last
    Drafts,       \* steps whose document may not be written yet
    MaxRetries,   \* attempts at a step
    MaxCost,      \* --max-cost
    Prices        \* what a call may cost; 0: its output has no price

Steps == 0..Last

ASSUME HarnessAssumption ==
    /\ Last \in Nat
    /\ Drafts \subseteq Steps
    /\ MaxRetries \in Nat \ {0}
    /\ MaxCost \in Nat \ {0}
    /\ Prices \subseteq Nat

Says == {"completed", "error", "blocked"}

\* Edits of protected files that HEAD does not have: of a file it knows, a new
\* file that is added to git's index, a new one that is not.
Kinds == {"tracked", "staged", "untracked"}

\* What git diff lists.
Visible == {"tracked", "staged"}

VARIABLES
    missing,     \* the steps without their document
    readable,    \* index.json can be read
    status,      \* steps[].status in index.json
    stamped,     \* the steps with completed_at
    saved,       \* total_cost_usd in index.json
    phase,       \* the status in phases/index.json
    report,      \* ESCALATION.md exists
    edits,       \* the kinds of protected edits in the tree
    pc,          \* where the executor is
    step,        \* the step it works at
    attempt,     \* which attempt it is
    cost,        \* _total_cost, in memory
    price,       \* of the call that has just ended, until it is saved
    verdict,     \* what has become of the attempt, or why it stops
    charged,     \* history: the prices that were saved, in sum
    cut,         \* history: steps in whose attempt the executor was stopped
    blind        \* history: git did not answer a check

vars == <<missing, readable, status, stamped, saved, phase, report, edits, pc,
          step, attempt, cost, price, verdict, charged, cut, blind>>

index == <<missing, readable, status, stamped, saved>>
place == <<step, attempt, cost, price>>
history == <<charged, cut, blind>>

Init ==
    /\ missing = Drafts
    /\ readable = TRUE
    /\ status = [s \in Steps |-> "pending"]
    /\ stamped = {}
    /\ saved = 0
    /\ phase = "pending"
    /\ report = FALSE
    /\ edits = {}
    /\ pc = "down"
    /\ step = 0
    /\ attempt = 1
    /\ cost = 0
    /\ price = 0
    /\ verdict = "none"
    /\ charged = 0
    /\ cut = {}
    /\ blind = FALSE

-----------------------------------------------------------------------------
(* Starting *)

\* Mutant: only the last step is looked at.
LastStepFails == status[Last] \in {"error", "blocked"}

\* _check_blockers: from the end, the first step that is not pending.
Blocked ==
    \E s \in Steps :
        /\ status[s] \in {"error", "blocked"}
        /\ \A later \in Steps : later > s => status[later] = "pending"

\* A report, a blocker or an index that cannot be read ends the process
\* without a change.
Start ==
    /\ pc = "down"
    /\ readable
    /\ ~report
    /\ ~Blocked
    /\ pc' = "loop"
    /\ cost' = saved
    /\ verdict' = "none"
    /\ UNCHANGED <<index, phase, report, edits, step, attempt, price, history>>

-----------------------------------------------------------------------------
(* The loop *)

\* Mutant: any pending step.
PickAny ==
    /\ pc = "loop"
    /\ \E s \in Steps : status[s] = "pending" /\ step' = s
    /\ attempt' = 1
    /\ pc' = "attempt"
    /\ UNCHANGED <<index, phase, report, edits, cost, price, verdict, history>>

\* The first pending step.
PickStep ==
    /\ pc = "loop"
    /\ \E s \in Steps :
        /\ status[s] = "pending"
        /\ \A earlier \in Steps : earlier < s => status[earlier] # "pending"
        /\ step' = s
    /\ attempt' = 1
    /\ pc' = "attempt"
    /\ UNCHANGED <<index, phase, report, edits, cost, price, verdict, history>>

\* "All steps completed!"
AllDone ==
    /\ pc = "loop"
    /\ \A s \in Steps : status[s] # "pending"
    /\ pc' = "closing"
    /\ UNCHANGED <<index, phase, report, edits, place, verdict, history>>

\* _budget_exceeded: by cost, or by time at any moment.
OverBudget ==
    /\ pc = "attempt"
    /\ verdict' = "halted"
    /\ pc' = "stopping"
    /\ UNCHANGED <<index, phase, report, edits, place, history>>

Invoke ==
    /\ pc = "attempt"
    /\ cost < MaxCost
    /\ step \notin missing
    /\ pc' = "calling"
    /\ UNCHANGED <<index, phase, report, edits, place, verdict, history>>

\* A step without its document ends the process, without a report.
NoDocument ==
    /\ pc = "attempt"
    /\ cost < MaxCost
    /\ step \in missing
    /\ verdict' = "undocumented"
    /\ pc' = "down"
    /\ UNCHANGED <<index, phase, report, edits, place, history>>

-----------------------------------------------------------------------------
(* The agent, while it is called *)

AgentSays(outcome) ==
    /\ pc = "calling"
    /\ readable
    /\ status' = [status EXCEPT ![step] = outcome]
    /\ UNCHANGED <<missing, readable, stamped, saved, phase, report, edits, pc,
                   place, verdict, history>>

\* It leaves an index.json that cannot be parsed.
AgentBreaks ==
    /\ pc = "calling"
    /\ readable' = FALSE
    /\ UNCHANGED <<missing, status, stamped, saved, phase, report, edits, pc,
                   place, verdict, history>>

AgentTampers(kind) ==
    /\ pc = "calling"
    /\ edits' = edits \union {kind}
    /\ UNCHANGED <<index, phase, report, pc, place, verdict, history>>

\* Rule 7 of the prompt: the agent commits all changes.
AgentCommits ==
    /\ pc = "calling"
    /\ edits' = {}
    /\ UNCHANGED <<index, phase, report, pc, place, verdict, history>>

-----------------------------------------------------------------------------
(* After the call *)

\* The agent ends, and its output may have a price.
Return ==
    /\ pc = "calling"
    /\ price' \in Prices
    /\ cost' = cost + price'
    /\ pc' = IF price' > 0 THEN "charging" ELSE "judging"
    /\ UNCHANGED <<index, phase, report, edits, step, attempt, verdict, history>>

\* It is killed: what it has written stays, its price is not known.
Timeout ==
    /\ pc = "calling"
    /\ pc' = "judging"
    /\ UNCHANGED <<index, phase, report, edits, place, verdict, history>>

\* Mutant: what the last call cost overwrites what all have cost.
ChargeLast ==
    /\ pc = "charging"
    /\ readable
    /\ saved' = price
    /\ charged' = charged + price
    /\ price' = 0
    /\ pc' = "judging"
    /\ UNCHANGED <<missing, readable, status, stamped, phase, report, edits, step,
                   attempt, cost, verdict, cut, blind>>

\* _persist_cost.
Charge ==
    /\ pc = "charging"
    /\ readable
    /\ saved' = cost
    /\ charged' = charged + price
    /\ price' = 0
    /\ pc' = "judging"
    /\ UNCHANGED <<missing, readable, status, stamped, phase, report, edits, step,
                   attempt, cost, verdict, cut, blind>>

\* An index that cannot be parsed is taken for an output without a price.
ChargeFails ==
    /\ pc = "charging"
    /\ ~readable
    /\ price' = 0
    /\ pc' = "judging"
    /\ UNCHANGED <<index, phase, report, edits, step, attempt, cost, verdict,
                   history>>

\* The index is read again for the status: the exception ends the process.
Collapse ==
    /\ pc = "judging"
    /\ ~readable
    /\ verdict' = "broken"
    /\ cut' = cut \union {step}
    /\ pc' = "down"
    /\ UNCHANGED <<index, phase, report, edits, place, charged, blind>>

\* Mutant: the protected files are not looked at.
JudgeUnchecked ==
    /\ pc = "judging"
    /\ readable
    /\ verdict' = status[step]
    /\ pc' = "judged"
    /\ UNCHANGED <<index, phase, report, edits, place, history>>

\* What git checkout HEAD leaves: it does nothing at all for a file that HEAD
\* does not have, and its failure is not noticed.
Restored ==
    {edits} \union (IF "staged" \in edits THEN {} ELSE {edits \ {"tracked"}})

\* The status is read; edits of protected files that git diff lists make the
\* attempt void.
Judge ==
    /\ pc = "judging"
    /\ readable
    /\ \/ /\ edits \intersect Visible = {}
          /\ verdict' = status[step]
          /\ UNCHANGED edits
       \/ /\ edits \intersect Visible # {}
          /\ verdict' = "violation"
          /\ edits' \in Restored
    /\ pc' = "judged"
    /\ UNCHANGED <<index, phase, report, place, history>>

\* A git diff that fails lists nothing.
JudgeBlindly ==
    /\ pc = "judging"
    /\ readable
    /\ verdict' = status[step]
    /\ blind' = TRUE
    /\ pc' = "judged"
    /\ UNCHANGED <<index, phase, report, edits, place, charged, cut>>

Pass ==
    /\ pc = "judged"
    /\ verdict = "completed"
    /\ stamped' = stamped \union {step}
    /\ pc' = "committing"
    /\ UNCHANGED <<missing, readable, status, saved, phase, report, edits, place,
                   verdict, history>>

Block ==
    /\ pc = "judged"
    /\ verdict = "blocked"
    /\ pc' = "stopping"
    /\ UNCHANGED <<index, phase, report, edits, place, verdict, history>>

Failed == pc = "judged" /\ verdict \notin {"completed", "blocked"}

\* Mutant: the index that is written back was read before the call.
RetryWithOldIndex ==
    /\ Failed
    /\ attempt < MaxRetries
    /\ status' = [status EXCEPT ![step] = "pending"]
    /\ saved' = IF saved = 0 THEN 0 ELSE saved - 1
    /\ attempt' = attempt + 1
    /\ pc' = "attempt"
    /\ UNCHANGED <<missing, readable, stamped, phase, report, edits, step, cost,
                   price, verdict, history>>

\* Mutant: an attempt with a status of its own is not counted.
RetryUncounted ==
    /\ Failed
    /\ attempt < MaxRetries
    /\ status' = [status EXCEPT ![step] = "pending"]
    /\ attempt' = IF verdict = "pending" THEN attempt ELSE attempt + 1
    /\ pc' = "attempt"
    /\ UNCHANGED <<missing, readable, stamped, saved, phase, report, edits, step,
                   cost, price, verdict, history>>

Retry ==
    /\ Failed
    /\ attempt < MaxRetries
    /\ status' = [status EXCEPT ![step] = "pending"]
    /\ attempt' = attempt + 1
    /\ pc' = "attempt"
    /\ UNCHANGED <<missing, readable, stamped, saved, phase, report, edits, step,
                   cost, price, verdict, history>>

Exhaust ==
    /\ Failed
    /\ attempt = MaxRetries
    /\ status' = [status EXCEPT ![step] = "error"]
    /\ verdict' = "error"
    /\ pc' = "committing"
    /\ UNCHANGED <<missing, readable, stamped, saved, phase, report, edits, place,
                   history>>

-----------------------------------------------------------------------------
(* Committing, stopping, closing *)

\* git add -A takes what is in the tree; when the commit fails it stays
\* in git's index.
Staged == {IF kind = "untracked" THEN "staged" ELSE kind : kind \in edits}

\* _commit_step; a commit that fails is a warning.
CommitStep ==
    /\ pc = "committing"
    /\ edits' \in {{}, Staged}
    /\ pc' = IF verdict = "error" THEN "stopping" ELSE "loop"
    /\ UNCHANGED <<index, phase, report, place, verdict, history>>

\* ESCALATION.md.
Escalate ==
    /\ pc = "stopping"
    /\ report' = TRUE
    /\ pc' = "reporting"
    /\ UNCHANGED <<index, phase, edits, place, verdict, history>>

\* phases/index.json, and the process ends.
StopPhase ==
    /\ pc = "reporting"
    /\ phase' = verdict
    /\ pc' = "down"
    /\ UNCHANGED <<index, report, edits, place, verdict, history>>

\* _finalize: the phase is completed, then the commit.
ClosePhase ==
    /\ pc = "closing"
    /\ phase' = "completed"
    /\ pc' = "finishing"
    /\ UNCHANGED <<index, report, edits, place, verdict, history>>

Finish ==
    /\ pc = "finishing"
    /\ edits' \in {{}, Staged}
    /\ pc' = "down"
    /\ UNCHANGED <<index, phase, report, place, verdict, history>>

-----------------------------------------------------------------------------
(* The person at the machine *)

\* The executor is killed, in the middle of an attempt or elsewhere.
Kill ==
    /\ pc # "down"
    /\ pc' = "down"
    /\ verdict' = "killed"
    /\ price' = 0
    /\ cut' = IF pc \in {"calling", "charging", "judging", "judged"}
              THEN cut \union {step} ELSE cut
    /\ UNCHANGED <<index, phase, report, edits, step, attempt, cost, charged, blind>>

\* The missing documents are written, and index.json is mended.
Repair ==
    /\ pc = "down"
    /\ missing' = {}
    /\ readable' = TRUE
    /\ UNCHANGED <<status, stamped, saved, phase, report, edits, pc, place, verdict,
                   history>>

\* The report is read and deleted, with or without the cause.
DeleteReport ==
    /\ pc = "down"
    /\ report
    /\ report' = FALSE
    /\ UNCHANGED <<index, phase, edits, pc, place, verdict, history>>

\* "Fix and reset status to 'pending' to retry."
Reset(s) ==
    /\ pc = "down"
    /\ readable
    /\ status[s] \in {"error", "blocked"}
    /\ status' = [status EXCEPT ![s] = "pending"]
    /\ UNCHANGED <<missing, readable, stamped, saved, phase, report, edits, pc,
                   place, verdict, history>>

-----------------------------------------------------------------------------
\* What the executor does on its own.
Work ==
    \/ PickStep
    \/ AllDone
    \/ OverBudget
    \/ Invoke
    \/ NoDocument
    \/ Return
    \/ Charge
    \/ ChargeFails
    \/ Collapse
    \/ Judge
    \/ Pass
    \/ Block
    \/ Retry
    \/ Exhaust
    \/ CommitStep
    \/ Escalate
    \/ StopPhase
    \/ ClosePhase
    \/ Finish

Next ==
    \/ Start
    \/ Work
    \/ \E outcome \in Says : AgentSays(outcome)
    \/ AgentBreaks
    \/ \E kind \in Kinds : AgentTampers(kind)
    \/ AgentCommits
    \/ Timeout
    \/ JudgeBlindly
    \/ Kill
    \/ Repair
    \/ DeleteReport
    \/ \E s \in Steps : Reset(s)

Spec == Init /\ [][Next]_vars

\* A running executor goes on: the call of the agent ends, by its timeout if
\* not before (subprocess.run in _invoke_claude).
FairSpec == Spec /\ WF_vars(Work)

-----------------------------------------------------------------------------
(* Properties *)

TypeOK ==
    /\ missing \subseteq Steps
    /\ readable \in BOOLEAN
    /\ status \in [Steps -> Says \union {"pending"}]
    /\ stamped \subseteq Steps
    /\ saved \in Nat
    /\ phase \in {"pending", "completed", "error", "blocked", "halted"}
    /\ report \in BOOLEAN
    /\ edits \subseteq Kinds
    /\ pc \in {"down", "loop", "attempt", "calling", "charging", "judging",
               "judged", "committing", "stopping", "reporting", "closing",
               "finishing"}
    /\ step \in Steps
    /\ attempt \in 1..MaxRetries
    /\ cost \in Nat
    /\ price \in Prices \union {0}
    /\ verdict \in Says \union {"none", "pending", "violation", "halted", "killed",
                                "broken", "undocumented"}
    /\ charged \in Nat
    /\ cut \subseteq Steps
    /\ blind \in BOOLEAN
    /\ pc # "down" /\ readable => cost = saved + price

\* The executor is past the check of the attempt at s.
Judged(s) == s \in stamped \/ s \in cut

\* A phase is marked completed only when every step is completed and has
\* passed the check of an attempt; a step whose attempt was cut off, by a kill
\* or by an index that could not be read, is the exception (_finalize,
\* execute.py:665, trusts that no step is pending).
DonePhaseIsDone ==
    phase = "completed" =>
        \A s \in Steps : status[s] = "completed" /\ Judged(s)

\* The agent is called for a step only when all earlier ones are completed,
\* however often the run stops, is reset and starts again
\* (_check_blockers, execute.py:498, and the loop, execute.py:645).
StepsInOrder ==
    pc = "calling" => \A s \in Steps : s < step => status[s] = "completed"

\* No write of index.json loses a price that another one has added, and no
\* call is begun once these prices have reached the limit, over all restarts;
\* the last call may exceed it, by all that it costs (_persist_cost,
\* execute.py:275, and _budget_exceeded, execute.py:266).
BudgetHolds ==
    /\ saved = charged
    /\ pc = "calling" => charged < MaxCost

\* An edit of a protected file that git diff lists is never committed with a
\* step that passes, and never with the end of the phase when the file was in
\* HEAD: only with a step that is given up, after a restore that failed
\* (_check_protected_files, execute.py:288).  An attempt that was cut off and
\* a git that did not answer are the exceptions; an edit that the agent
\* commits itself, or a new file, is not seen at all.
ProtectedNotPassed ==
    cut = {} /\ ~blind =>
        /\ pc = "committing" /\ verdict = "completed" => edits \intersect Visible = {}
        /\ pc = "finishing" => "tracked" \notin edits

\* A run ends with the phase completed or with a report, or it was killed,
\* found a step without its document, or an index.json that it could not read
\* (_execute_single_step, execute.py:525).
RunEnds ==
    (pc # "down") ~>
        (pc = "down" /\ \/ phase = "completed"
                        \/ report
                        \/ verdict \in {"killed", "undocumented", "broken"})

=============================================================================
