-------------------------- MODULE ApprovalGateProofs --------------------------
(***************************************************************************)
(* Theorems about ApprovalGate, for every set of changes, proposals, files *)
(* and threads.                                                            *)
(***************************************************************************)
EXTENDS ApprovalGate, TLAPS

LEMMA InitTyped == Init => TypeOK
  BY DEF Init, TypeOK, Jobs, Idle, Phases, Approvals, Status

\* What a request does next, of the same kind as before.
LEMMA JobChanged ==
    ASSUME NEW j \in Jobs, NEW phase \in Phases
    PROVE  /\ \A s \in Sites \union {None}, seen \in SUBSET Proposals :
                 [j EXCEPT !.phase = phase, !.site = s, !.seen = seen] \in Jobs
           /\ \A s \in Sites \union {None}, seen \in SUBSET Proposals, todo \in SUBSET Sites :
                 [j EXCEPT !.phase = phase, !.todo = todo, !.site = s, !.seen = seen] \in Jobs
           /\ \A loaded \in Status \union {None} :
                 [j EXCEPT !.phase = phase, !.loaded = loaded] \in Jobs
BY DEF Jobs

LEMMA StepTyped == TypeOK /\ [Next]_vars => TypeOK'
<1> USE DEF TypeOK, Jobs, Idle, Phases, Approvals, Decided, Status
<1> SUFFICES ASSUME TypeOK, [Next]_vars PROVE TypeOK'
  OBVIOUS
<1>1. ASSUME NEW r \in Requests, NEW c \in Changes, AnalyzeBegin(r, c)
      PROVE TypeOK'
  BY <1>1 DEF AnalyzeBegin, Take, Goes
<1>2. ASSUME NEW r \in Requests, AnalyzeCommit(r) PROVE TypeOK'
  BY <1>2 DEF AnalyzeCommit, Answer, Goes
<1>3. ASSUME NEW r \in Requests, NEW c \in Changes, ApplyBegin(r, c)
      PROVE TypeOK'
  BY <1>3 DEF ApplyBegin, Take, Goes
<1>4. ASSUME NEW r \in Requests, NEW p \in Proposals, ApplyCommit(r, p)
      PROVE TypeOK'
  BY <1>4 DEF ApplyCommit, Answer, Goes, Diffs, Sites
<1>5. ASSUME NEW r \in Requests, GiveUp(r) \/ CommitFails(r) PROVE TypeOK'
  <2>1. Answer(r) /\ UNCHANGED <<status, approval, owner, targets, tree>>
    BY <1>5, Zenon DEF GiveUp, CommitFails
  <2> QED
    BY <2>1 DEF Answer, Goes
<1>6. ASSUME NEW r \in Requests, NEW p \in Proposals, ApproveBegin(r, p)
      PROVE TypeOK'
  BY <1>6 DEF ApproveBegin, Take, Goes
<1>7. ASSUME NEW r \in Requests, NEW s \in Sites, PatchRead(r, s)
      PROVE TypeOK'
  <2> DEFINE now == [job[r] EXCEPT !.phase = "writing",
                                   !.site = s, !.seen = tree[s]]
  <2>1. now \in Jobs
    <3>1. "writing" \in Phases /\ tree[s] \in SUBSET Proposals /\ job[r] \in Jobs
      OBVIOUS
    <3> HIDE DEF TypeOK, Jobs, Phases, Status
    <3> QED
      BY <3>1, JobChanged, Zenon
  <2>2. now.phase = "writing" /\ now.on = job[r].on /\ now.site = s
    BY <1>7 DEF PatchRead
  <2>3. job' = [job EXCEPT ![r] = now]
    BY <1>7 DEF PatchRead, Goes
  <2> HIDE DEF now
  <2> QED
    BY <1>7, <2>1, <2>2, <2>3 DEF PatchRead
<1>8. ASSUME NEW r \in Requests, PatchRefused(r) PROVE TypeOK'
  BY <1>8 DEF PatchRefused, Answer, Goes
<1>9. ASSUME NEW r \in Requests, PatchWrite(r) PROVE TypeOK'
  <2> DEFINE left == job[r].todo \ {job[r].site}
             now == [job[r] EXCEPT
                       !.phase = IF left = {} THEN "patched" ELSE "patching",
                       !.todo = left, !.site = None, !.seen = {}]
  <2>1. now \in Jobs
    <3>1. /\ (IF left = {} THEN "patched" ELSE "patching") \in Phases
          /\ left \in SUBSET Sites /\ None \in Sites \union {None}
          /\ {} \in SUBSET Proposals /\ job[r] \in Jobs
      OBVIOUS
    <3>2. PICK phase \in Phases : phase = IF left = {} THEN "patched" ELSE "patching"
      BY <3>1
    <3>3. now = [job[r] EXCEPT !.phase = phase, !.todo = left, !.site = None, !.seen = {}]
      BY <3>2, Zenon
    <3> HIDE DEF TypeOK, Jobs, Phases, Status
    <3> QED
      BY <3>1, <3>3, JobChanged, Zenon
  <2>2. now.phase \in {"patched", "patching"} /\ now.on = job[r].on
    BY <1>9 DEF PatchWrite
  <2>3. job' = [job EXCEPT ![r] = now]
    BY <1>9 DEF PatchWrite, Goes
  <2>4. tree' \in [Sites -> SUBSET Proposals]
    BY <1>9 DEF PatchWrite
  <2> HIDE DEF now
  <2> QED
    BY <1>9, <2>1, <2>2, <2>3, <2>4 DEF PatchWrite
<1>10. ASSUME NEW r \in Requests, NEW p \in Proposals, RejectBegin(r, p)
       PROVE TypeOK'
  BY <1>10 DEF RejectBegin, Take, Goes
<1>11. ASSUME NEW r \in Requests, LoadChange(r) PROVE TypeOK'
  <2> DEFINE now == [job[r] EXCEPT
                       !.phase = IF @ = "patched" THEN "approving"
                                 ELSE "rejecting",
                       !.loaded = status[owner[job[r].on]]]
  <2>1. now \in Jobs
    <3>1. /\ (IF job[r].phase = "patched" THEN "approving" ELSE "rejecting") \in Phases
          /\ job[r] \in Jobs
      OBVIOUS
    <3>2. status[owner[job[r].on]] \in Status \union {None}
      BY <1>11 DEF LoadChange
    <3>3. PICK phase \in Phases :
             phase = IF job[r].phase = "patched" THEN "approving" ELSE "rejecting"
      BY <3>1
    <3>4. now = [job[r] EXCEPT !.phase = phase, !.loaded = status[owner[job[r].on]]]
      BY <3>3, Zenon
    <3> HIDE DEF TypeOK, Jobs, Phases, Status
    <3> QED
      BY <3>1, <3>2, <3>4, JobChanged, Zenon
  <2>2. now.phase \in {"approving", "rejecting"} /\ now.on = job[r].on
    BY <1>11 DEF LoadChange
  <2>3. job' = [job EXCEPT ![r] = now]
    BY <1>11 DEF LoadChange, Goes
  <2> HIDE DEF now
  <2> QED
    BY <1>11, <2>1, <2>2, <2>3 DEF LoadChange
<1>12. ASSUME NEW r \in Requests, ApproveCommit(r) PROVE TypeOK'
  BY <1>12 DEF ApproveCommit, Decide, Answer, Goes, Outcome
<1>13. ASSUME NEW r \in Requests, RejectCommit(r) PROVE TypeOK'
  BY <1>13 DEF RejectCommit, Decide, Answer, Goes, Outcome
<1>14. CASE Crash
  BY <1>14 DEF Crash
<1>15. CASE UNCHANGED vars
  BY <1>15 DEF vars
<1> QED
  BY <1>1, <1>2, <1>3, <1>4, <1>5, <1>6, <1>7, <1>8, <1>9, <1>10, <1>11,
     <1>12, <1>13, <1>14, <1>15 DEF Next, Step

\* The rows, the files and what the threads hold are well-formed: a change
\* has one of the four statuses, every proposal row belongs to a change and a
\* thread past the draft check works on a row that exists.
THEOREM TypeCorrect == Spec => []TypeOK
  BY InitTyped, StepTyped, PTL DEF Spec

-----------------------------------------------------------------------------
(* A change that waits for a decision has a draft *)

\* No thread is about to decide p without writing the status of its change.
LiveDraft(p) ==
    /\ approval[p] = "draft"
    /\ \A r \in Requests :
        job[r].on = p =>
            /\ job[r].phase = "approving" => job[r].loaded # "done"
            /\ job[r].phase = "rejecting" => job[r].loaded # "reviewing"

\* The inductive form of PendingHasDraft.
PendingHasLiveDraft ==
    \A c \in Changes : status[c] = "pending_apply" =>
        \E p \in Proposals : owner[p] = c /\ LiveDraft(p)

LEMMA LiveInit == Init => PendingHasLiveDraft
  BY DEF Init, PendingHasLiveDraft

\* A live draft of a change stays live, or the change stops waiting for it.
LEMMA LiveStep == TypeOK /\ PendingHasLiveDraft /\ [Next]_vars
                    => PendingHasLiveDraft'
<1> SUFFICES ASSUME TypeOK, PendingHasLiveDraft, [Next]_vars,
                    NEW c \in Changes, status'[c] = "pending_apply"
             PROVE  \E p \in Proposals : owner'[p] = c /\ LiveDraft(p)'
  BY DEF PendingHasLiveDraft
\* Unless apply creates one, the draft that was live before the step is the
\* one that is live after it.
<1> DEFINE Witness == status[c] = "pending_apply" =>
                        \E p \in Proposals : owner[p] = c /\ LiveDraft(p)
<1>0. Witness
  BY DEF PendingHasLiveDraft
<1>1. ASSUME NEW r \in Requests,
             \/ \E d \in Changes : AnalyzeBegin(r, d) \/ ApplyBegin(r, d)
             \/ \E p \in Proposals : ApproveBegin(r, p) \/ RejectBegin(r, p)
             \/ GiveUp(r) \/ CommitFails(r)
             \/ PatchRefused(r)
      PROVE  \E p \in Proposals : owner'[p] = c /\ LiveDraft(p)'
  <2>1. UNCHANGED <<status, approval, owner>>
    BY <1>1 DEF AnalyzeBegin, ApplyBegin, ApproveBegin, RejectBegin, GiveUp, CommitFails,
                PatchRefused
  <2>2. /\ job'[r].phase \notin {"approving", "rejecting"}
        /\ \A q \in Requests \ {r} : job'[q] = job[q]
    <3>1. ASSUME NEW phase \in Phases \ {"approving", "rejecting"},
                 NEW on, NEW todo, Take(r, phase, on, todo)
          PROVE  /\ job'[r].phase \notin {"approving", "rejecting"}
                 /\ \A q \in Requests \ {r} : job'[q] = job[q]
      BY <3>1 DEF Take, Goes, Idle, TypeOK
    <3>2. CASE Answer(r)
      BY <3>2 DEF Answer, Goes, Idle, TypeOK
    <3> QED
      BY <1>1, <3>1, <3>2 DEF AnalyzeBegin, ApplyBegin, ApproveBegin,
         RejectBegin, GiveUp, CommitFails, PatchRefused, Phases
  <2> QED
    BY <1>0, <2>1, <2>2 DEF LiveDraft, TypeOK
<1>2. ASSUME NEW r \in Requests, AnalyzeCommit(r)
      PROVE  \E p \in Proposals : owner'[p] = c /\ LiveDraft(p)'
  BY <1>0, <1>2 DEF AnalyzeCommit, Answer, Goes, Idle, LiveDraft, TypeOK, Jobs
<1>3. ASSUME NEW r \in Requests, NEW p \in Proposals, ApplyCommit(r, p)
      PROVE  \E q \in Proposals : owner'[q] = c /\ LiveDraft(q)'
  <2>1. /\ job' = [job EXCEPT ![r] = Idle]
        /\ approval' = [approval EXCEPT ![p] = "draft"]
        /\ owner' = [owner EXCEPT ![p] = job[r].on]
        /\ status' = [status EXCEPT ![job[r].on] = "pending_apply"]
        /\ approval[p] = "absent"
    BY <1>3 DEF ApplyCommit, Answer, Goes
  <2>2. \A q \in Requests : job[q].phase \in {"approving", "rejecting"}
                              => job[q].on # p
    BY <2>1 DEF TypeOK
  <2>3. CASE job[r].on = c
    <3>1. owner'[p] = c /\ LiveDraft(p)'
      BY <2>1, <2>2, <2>3 DEF LiveDraft, TypeOK, Idle
    <3> QED
      BY <3>1
  <2>4. CASE job[r].on # c
    <3>1. status[c] = "pending_apply"
      BY <2>1, <2>4 DEF TypeOK
    <3>2. PICK q \in Proposals : owner[q] = c /\ LiveDraft(q)
      BY <1>0, <3>1
    <3>3. q # p
      BY <2>1, <3>2 DEF LiveDraft
    <3>4. owner'[q] = c /\ LiveDraft(q)'
      BY <2>1, <3>2, <3>3 DEF LiveDraft, TypeOK, Idle
    <3> QED
      BY <3>4
  <2> QED
    BY <2>3, <2>4
<1>4. ASSUME NEW r \in Requests, NEW s \in Sites, PatchRead(r, s)
      PROVE  \E p \in Proposals : owner'[p] = c /\ LiveDraft(p)'
  <2>1. /\ job'[r].phase = "writing"
        /\ \A q \in Requests \ {r} : job'[q] = job[q]
    BY <1>4 DEF PatchRead, Goes, TypeOK, Jobs
  <2> QED
    BY <1>0, <1>4, <2>1 DEF PatchRead, LiveDraft, TypeOK
<1>5. ASSUME NEW r \in Requests, PatchWrite(r)
      PROVE  \E p \in Proposals : owner'[p] = c /\ LiveDraft(p)'
  <2>1. /\ job'[r].phase \in {"patched", "patching"}
        /\ \A q \in Requests \ {r} : job'[q] = job[q]
    BY <1>5 DEF PatchWrite, Goes, TypeOK, Jobs
  <2> QED
    BY <1>0, <1>5, <2>1 DEF PatchWrite, LiveDraft, TypeOK
\* The status that is loaded is the one that is there: a change that waits is
\* loaded as waiting.
<1>6. ASSUME NEW r \in Requests, LoadChange(r)
      PROVE  \E p \in Proposals : owner'[p] = c /\ LiveDraft(p)'
  <2>1. /\ job'[r].on = job[r].on
        /\ job'[r].loaded = status[owner[job[r].on]]
        /\ \A q \in Requests \ {r} : job'[q] = job[q]
    BY <1>6 DEF LoadChange, Goes, TypeOK, Jobs
  <2>2. UNCHANGED <<status, approval, owner>>
    BY <1>6 DEF LoadChange
  <2>3. PICK p \in Proposals : owner[p] = c /\ LiveDraft(p)
    BY <1>0, <2>2
  <2>4. job'[r].on = p => job'[r].loaded = "pending_apply"
    BY <2>1, <2>2, <2>3
  <2>5. owner'[p] = c /\ LiveDraft(p)'
    BY <2>1, <2>2, <2>3, <2>4 DEF LiveDraft, TypeOK
  <2> QED
    BY <2>5
\* A decision that leaves the status alone is on a draft that was not live.
<1>7. ASSUME NEW r \in Requests, NEW decision \in Decided,
             Decide(r, decision), job[r].on \in Proposals,
             approval[job[r].on] # "absent",
             job[r].phase = IF decision = "approved" THEN "approving"
                            ELSE "rejecting"
      PROVE  \E p \in Proposals : owner'[p] = c /\ LiveDraft(p)'
  <2> DEFINE p == job[r].on
  <2>1. /\ approval' = [approval EXCEPT ![p] = decision]
        /\ owner' = owner
        /\ job' = [job EXCEPT ![r] = Idle]
        /\ status' = IF job[r].loaded = Outcome(decision) THEN status
                     ELSE [status EXCEPT ![owner[p]] = Outcome(decision)]
    BY <1>7 DEF Decide, Answer, Goes
  <2>2. Outcome(decision) = IF decision = "approved" THEN "done"
                            ELSE "reviewing"
    BY DEF Outcome
  <2>3. owner[p] = c => job[r].loaded = Outcome(decision)
    BY <1>7, <2>1, <2>2 DEF TypeOK
  <2>4. status[c] = "pending_apply"
    BY <2>1, <2>2, <2>3 DEF TypeOK
  <2>5. PICK q \in Proposals : owner[q] = c /\ LiveDraft(q)
    BY <1>0, <2>4
  <2>6. q # p
    BY <1>7, <2>2, <2>3, <2>5 DEF LiveDraft, Decided
  <2>7. owner'[q] = c /\ LiveDraft(q)'
    BY <2>1, <2>5, <2>6 DEF LiveDraft, TypeOK, Idle
  <2> QED
    BY <2>7
<1>8. ASSUME NEW r \in Requests, ApproveCommit(r) \/ RejectCommit(r)
      PROVE  \E p \in Proposals : owner'[p] = c /\ LiveDraft(p)'
  BY <1>7, <1>8 DEF ApproveCommit, RejectCommit, Decided, TypeOK
<1>9. CASE Crash
  BY <1>0, <1>9 DEF Crash, LiveDraft, Idle
<1>10. CASE UNCHANGED vars
  BY <1>0, <1>10 DEF vars, LiveDraft
<1> QED
  BY <1>1, <1>2, <1>3, <1>4, <1>5, <1>6, <1>8, <1>9, <1>10 DEF Next, Step

\* A change that is shown as waiting has a draft to decide on, in every
\* interleaving of analyze, apply, approve, reject and crashes.
THEOREM PendingDraftExists == Spec => []PendingHasDraft
<1>1. PendingHasLiveDraft => PendingHasDraft
  BY DEF PendingHasLiveDraft, PendingHasDraft, LiveDraft
<1> QED
  BY <1>1, LiveInit, LiveStep, TypeCorrect, PTL DEF Spec

-----------------------------------------------------------------------------
(* An approved proposal has its patch on disk *)

\* A lone operator has at most one request open.
Exclusive ==
    Serial => \A r, q \in Requests : InFlight(r) /\ InFlight(q) => r = q

\* The mock adapter writes a proposal's patch to the proposal's own file.
OwnSites ==
    Adapter = "mock" =>
        /\ \A p \in Proposals : targets[p] \subseteq {p}
        /\ \A s \in Sites : tree[s] \subseteq {s}

\* What a thread still has to write is part of the patch, and a lone thread
\* writes back what the file holds.
Writes ==
    \A r \in Requests :
        /\ job[r].phase \in {"patching", "writing"} =>
              job[r].todo \subseteq targets[job[r].on]
        /\ job[r].phase = "writing" =>
              /\ job[r].site \in job[r].todo
              /\ Adapter = "real" /\ Serial => job[r].seen = tree[job[r].site]

\* What a thread no longer has to write is on disk.
Written ==
    \A r \in Requests :
        /\ job[r].phase \in {"patching", "writing"} =>
              \A s \in targets[job[r].on] \ job[r].todo : job[r].on \in tree[s]
        /\ job[r].phase \in {"patched", "approving"} => OnDisk(job[r].on)

Patching == TypeOK /\ Exclusive /\ OwnSites /\ Writes

LEMMA PatchingInit == Init => Patching
<1>1. Init => TypeOK
  BY InitTyped
<1>2. Init => Exclusive /\ OwnSites /\ Writes
  BY DEF Init, Exclusive, OwnSites, Writes, InFlight, Idle
<1> QED
  BY <1>1, <1>2 DEF Patching

LEMMA PatchingStep == Patching /\ [Next]_vars => Patching'
<1> SUFFICES ASSUME Patching, [Next]_vars PROVE Patching'
  OBVIOUS
<1> USE DEF Patching, Exclusive, OwnSites, Writes, InFlight
<1>0. TypeOK'
  BY StepTyped
<1>1. ASSUME NEW r \in Requests, NEW c \in Changes, AnalyzeBegin(r, c)
      PROVE  Patching'
  BY <1>0, <1>1 DEF AnalyzeBegin, Take, Goes, Idle, TypeOK, Jobs
<1>2. ASSUME NEW r \in Requests, AnalyzeCommit(r)
      PROVE  Patching'
  BY <1>0, <1>2 DEF AnalyzeCommit, Answer, Goes, Idle, TypeOK, Jobs
<1>3. ASSUME NEW r \in Requests, NEW c \in Changes, ApplyBegin(r, c)
      PROVE  Patching'
  BY <1>0, <1>3 DEF ApplyBegin, Take, Goes, Idle, TypeOK, Jobs
<1>4. ASSUME NEW r \in Requests, NEW p \in Proposals, ApplyCommit(r, p)
      PROVE  Patching'
  BY <1>0, <1>4 DEF ApplyCommit, Answer, Goes, Diffs, Idle, TypeOK, Jobs
<1>5. ASSUME NEW r \in Requests, GiveUp(r) \/ CommitFails(r)
      PROVE  Patching'
  BY <1>0, <1>5 DEF GiveUp, CommitFails, Answer, Goes, Idle, TypeOK, Jobs
<1>6. ASSUME NEW r \in Requests, NEW p \in Proposals, ApproveBegin(r, p)
      PROVE  Patching'
  BY <1>0, <1>6 DEF ApproveBegin, Take, Goes, Idle, TypeOK, Jobs
<1>7. ASSUME NEW r \in Requests, NEW s \in Sites, PatchRead(r, s)
      PROVE  Patching'
  BY <1>0, <1>7 DEF PatchRead, Goes, Idle, TypeOK, Jobs
<1>8. ASSUME NEW r \in Requests, PatchRefused(r)
      PROVE  Patching'
  BY <1>0, <1>8 DEF PatchRefused, Answer, Goes, Idle, TypeOK, Jobs
<1>9. ASSUME NEW r \in Requests, PatchWrite(r)
      PROVE  Patching'
  <2> DEFINE left == job[r].todo \ {job[r].site}
  <2>1. /\ job[r].phase = "writing"
        /\ job[r].on \in Proposals
        /\ job[r].site \in Sites
        /\ job'[r].phase \in {"patched", "patching"}
        /\ job'[r].on = job[r].on
        /\ job'[r].todo = left
        /\ \A q \in Requests \ {r} : job'[q] = job[q]
        /\ tree' = [tree EXCEPT ![job[r].site] =
              (IF Adapter = "mock" THEN {} ELSE job[r].seen)
                 \union {job[r].on}]
        /\ targets' = targets
    BY <1>9 DEF PatchWrite, Goes, TypeOK, Jobs
  <2>2. Exclusive'
    BY <2>1
  <2>3. OwnSites'
    BY <2>1 DEF TypeOK
  <2>4. Writes'
    BY <2>1 DEF TypeOK
  <2> QED
    BY <1>0, <2>2, <2>3, <2>4
<1>10. ASSUME NEW r \in Requests, NEW p \in Proposals, RejectBegin(r, p)
      PROVE  Patching'
  BY <1>0, <1>10 DEF RejectBegin, Take, Goes, Idle, TypeOK, Jobs
<1>11. ASSUME NEW r \in Requests, LoadChange(r)
      PROVE  Patching'
  <2>1. /\ job[r].phase \in {"patched", "refusing"}
        /\ job'[r].phase \in {"approving", "rejecting"}
        /\ \A q \in Requests \ {r} : job'[q] = job[q]
        /\ UNCHANGED <<targets, tree>>
    BY <1>11 DEF LoadChange, Goes, TypeOK, Jobs
  <2>2. Exclusive' /\ OwnSites' /\ Writes'
    BY <2>1
  <2> QED
    BY <1>0, <2>2
<1>12. ASSUME NEW r \in Requests, ApproveCommit(r) \/ RejectCommit(r)
      PROVE  Patching'
  BY <1>0, <1>12 DEF ApproveCommit, RejectCommit, Decide, Answer, Goes, Idle, TypeOK, Jobs
<1>13. CASE Crash
  BY <1>0, <1>13 DEF Crash, Idle
<1>14. CASE UNCHANGED vars
  BY <1>0, <1>14 DEF vars
<1> QED
  BY <1>1, <1>2, <1>3, <1>4, <1>5, <1>6, <1>7, <1>8, <1>9, <1>10, <1>11,
     <1>12, <1>13, <1>14 DEF Next, Step

\* Where patches cannot overwrite each other, a write only ever adds.
LEMMA WriteOnlyAdds ==
    ASSUME Patching, Isolated, NEW r \in Requests, PatchWrite(r)
    PROVE  /\ \A s \in Sites : tree[s] \subseteq tree'[s]
           /\ job[r].on \in tree'[job[r].site]
           /\ \A s \in Sites, p \in Proposals :
                 p \in tree'[s] /\ p # job[r].on => p \in tree[s]
<1>1. /\ job[r].phase = "writing"
      /\ job[r].site \in Sites
      /\ tree' = [tree EXCEPT ![job[r].site] =
              (IF Adapter = "mock" THEN {} ELSE job[r].seen)
                 \union {job[r].on}]
  BY DEF PatchWrite, Patching, TypeOK
<1>2. Adapter = "mock" => tree[job[r].site] \subseteq {job[r].on}
  BY <1>1 DEF Patching, OwnSites, Writes, TypeOK
<1>3. Adapter = "real" => job[r].seen = tree[job[r].site]
  BY <1>1 DEF Patching, Writes, Isolated
<1>4. tree[job[r].site] \subseteq tree'[job[r].site]
  BY <1>1, <1>2, <1>3, GateAssumption DEF Patching, TypeOK
<1>5. \A s \in Sites \ {job[r].site} : tree'[s] = tree[s]
  BY <1>1 DEF Patching, TypeOK
<1> QED
  BY <1>1, <1>3, <1>4, <1>5, GateAssumption DEF Patching, TypeOK

OnDiskInv == Isolated => Written /\ ApprovedIsOnDisk

LEMMA OnDiskInit == Init => OnDiskInv
  BY DEF Init, OnDiskInv, Written, ApprovedIsOnDisk, Idle

LEMMA OnDiskStep == Patching /\ OnDiskInv /\ [Next]_vars => OnDiskInv'
<1> SUFFICES ASSUME Patching, Isolated, Written, ApprovedIsOnDisk, [Next]_vars
             PROVE  Written' /\ ApprovedIsOnDisk'
  BY DEF OnDiskInv, Isolated
<1> USE DEF Patching, Written, ApprovedIsOnDisk, OnDisk
<1>1. ASSUME NEW r \in Requests, NEW c \in Changes, AnalyzeBegin(r, c)
      PROVE  Written' /\ ApprovedIsOnDisk'
  BY <1>1 DEF AnalyzeBegin, Take, Goes, Idle, TypeOK, Jobs
<1>2. ASSUME NEW r \in Requests, AnalyzeCommit(r)
      PROVE  Written' /\ ApprovedIsOnDisk'
  BY <1>2 DEF AnalyzeCommit, Answer, Goes, Idle, TypeOK, Jobs
<1>3. ASSUME NEW r \in Requests, NEW c \in Changes, ApplyBegin(r, c)
      PROVE  Written' /\ ApprovedIsOnDisk'
  BY <1>3 DEF ApplyBegin, Take, Goes, Idle, TypeOK, Jobs
<1>4. ASSUME NEW r \in Requests, NEW p \in Proposals, ApplyCommit(r, p)
      PROVE  Written' /\ ApprovedIsOnDisk'
  BY <1>4 DEF ApplyCommit, Answer, Goes, Idle, TypeOK, Jobs
<1>5. ASSUME NEW r \in Requests, GiveUp(r) \/ CommitFails(r)
      PROVE  Written' /\ ApprovedIsOnDisk'
  BY <1>5 DEF GiveUp, CommitFails, Answer, Goes, Idle, TypeOK, Jobs
<1>6. ASSUME NEW r \in Requests, NEW p \in Proposals, ApproveBegin(r, p)
      PROVE  Written' /\ ApprovedIsOnDisk'
  BY <1>6 DEF ApproveBegin, Take, Goes, Idle, TypeOK, Jobs
<1>7. ASSUME NEW r \in Requests, NEW s \in Sites, PatchRead(r, s)
      PROVE  Written' /\ ApprovedIsOnDisk'
  BY <1>7 DEF PatchRead, Goes, Idle, TypeOK, Jobs
<1>8. ASSUME NEW r \in Requests, PatchRefused(r)
      PROVE  Written' /\ ApprovedIsOnDisk'
  BY <1>8 DEF PatchRefused, Answer, Goes, Idle, TypeOK, Jobs
<1>9. ASSUME NEW r \in Requests, PatchWrite(r)
      PROVE  Written' /\ ApprovedIsOnDisk'
  <2> DEFINE left == job[r].todo \ {job[r].site}
  <2>1. /\ job[r].phase = "writing"
        /\ job[r].on \in Proposals
        /\ job[r].site \in Sites
        /\ job[r].site \in targets[job[r].on]
        /\ job'[r].phase = IF left = {} THEN "patched" ELSE "patching"
        /\ job'[r].on = job[r].on
        /\ job'[r].todo = left
        /\ \A q \in Requests \ {r} : job'[q] = job[q]
        /\ UNCHANGED <<targets, approval>>
    BY <1>9 DEF PatchWrite, Goes, TypeOK, Jobs, Writes
  <2>2. /\ \A s \in Sites : tree[s] \subseteq tree'[s]
        /\ job[r].on \in tree'[job[r].site]
    BY <1>9, WriteOnlyAdds
  <2>3. \A p \in Proposals : targets[p] \subseteq Sites
    BY DEF TypeOK
  <2>4. ApprovedIsOnDisk'
    BY <2>1, <2>2, <2>3
  <2>5. \A s \in targets[job[r].on] \ left : job[r].on \in tree'[s]
    BY <2>1, <2>2, <2>3
  <2>6. ASSUME NEW q \in Requests \ {r}
        PROVE  /\ job[q].phase \in {"patching", "writing"} =>
                    \A s \in targets[job[q].on] \ job[q].todo :
                        job[q].on \in tree'[s]
               /\ job[q].phase \in {"patched", "approving"} =>
                    /\ targets[job[q].on] # {}
                    /\ \A s \in targets[job[q].on] : job[q].on \in tree'[s]
    BY <2>2, <2>3 DEF TypeOK
  <2> HIDE DEF left
  <2>7. left = {} => targets[job[r].on] # {}
    BY <2>1
  <2>8. Written'
    BY <2>1, <2>5, <2>6, <2>7
  <2> QED
    BY <2>4, <2>8
<1>10. ASSUME NEW r \in Requests, NEW p \in Proposals, RejectBegin(r, p)
      PROVE  Written' /\ ApprovedIsOnDisk'
  BY <1>10 DEF RejectBegin, Take, Goes, Idle, TypeOK, Jobs
<1>11. ASSUME NEW r \in Requests, LoadChange(r)
      PROVE  Written' /\ ApprovedIsOnDisk'
  BY <1>11 DEF LoadChange, Goes, Idle, TypeOK, Jobs
<1>12. ASSUME NEW r \in Requests, ApproveCommit(r) \/ RejectCommit(r)
      PROVE  Written' /\ ApprovedIsOnDisk'
  BY <1>12 DEF ApproveCommit, RejectCommit, Decide, Answer, Goes, Idle, TypeOK, Jobs
<1>13. CASE Crash
  BY <1>13 DEF Crash, Idle
<1>14. CASE UNCHANGED vars
  BY <1>14 DEF vars
<1> QED
  BY <1>1, <1>2, <1>3, <1>4, <1>5, <1>6, <1>7, <1>8, <1>9, <1>10, <1>11,
     <1>12, <1>13, <1>14 DEF Next, Step

\* With patch files, or with one request at a time, an approved proposal has
\* its patch on disk, after any crash, refusal or later proposal.
THEOREM ApprovedOnDisk == Spec => [](Isolated => ApprovedIsOnDisk)
<1>1. OnDiskInv => (Isolated => ApprovedIsOnDisk)
  BY DEF OnDiskInv
<1> QED
  BY <1>1, PatchingInit, PatchingStep, OnDiskInit, OnDiskStep, PTL DEF Spec

-----------------------------------------------------------------------------
(* A settled proposal stays as it is *)

StaysSettled(p) ==
    /\ approval'[p] = approval[p]
    /\ Isolated => \A s \in Sites : p \in tree'[s] <=> p \in tree[s]

LEMMA SettledStep ==
    ASSUME Patching, [Next]_vars, NEW p \in Proposals, Settled(p)
    PROVE  StaysSettled(p)
<1> USE DEF Patching, StaysSettled, Settled
<1>1. ASSUME UNCHANGED <<approval, tree>> PROVE StaysSettled(p)
  BY <1>1
<1>2. ASSUME NEW r \in Requests, NEW q \in Proposals, ApplyCommit(r, q)
      PROVE  StaysSettled(p)
  BY <1>2 DEF ApplyCommit, TypeOK, Decided
<1>3. ASSUME NEW r \in Requests, PatchWrite(r) PROVE StaysSettled(p)
  <2>1. job[r].on # p /\ approval' = approval
    BY <1>3 DEF PatchWrite, Deciding
  <2> QED
    BY <1>3, <2>1, WriteOnlyAdds
<1>4. ASSUME NEW r \in Requests, ApproveCommit(r) \/ RejectCommit(r)
      PROVE  StaysSettled(p)
  <2>1. job[r].on # p
    BY <1>4 DEF ApproveCommit, RejectCommit, Deciding
  <2> QED
    BY <1>4, <2>1 DEF ApproveCommit, RejectCommit, Decide, TypeOK
<1> QED
  BY <1>1, <1>2, <1>3, <1>4 DEF Next, Step, AnalyzeBegin, AnalyzeCommit,
     ApplyBegin, GiveUp, CommitFails, ApproveBegin, PatchRead, PatchRefused, RejectBegin,
     LoadChange, Crash, vars

\* No thread takes up a proposal that is settled.
LEMMA UndisturbedStep ==
    ASSUME TypeOK, [Next]_vars, NEW p \in Proposals, Settled(p),
           NEW q \in Requests
    PROVE  ~Deciding(q, p)'
<1> USE DEF Settled
<1>0. job \in [Requests -> Jobs]
  BY DEF TypeOK
<1>taken. ASSUME NEW r \in Requests, NEW phase, NEW on, NEW todo,
             Take(r, phase, on, todo)
      PROVE  /\ job'[r].phase = phase
             /\ job'[r].on = on
             /\ \A x \in Requests \ {r} : job'[x] = job[x]
  BY <1>0, <1>taken DEF Take, Goes, Idle
<1>1. ASSUME NEW r \in Requests, NEW c \in Changes,
             AnalyzeBegin(r, c) \/ ApplyBegin(r, c)
      PROVE  ~Deciding(q, p)'
  <2>1. /\ job'[r].phase \in {"analysing", "drafting"}
        /\ \A x \in Requests \ {r} : job'[x] = job[x]
    BY <1>1, <1>taken DEF AnalyzeBegin, ApplyBegin
  <2> QED
    BY <2>1 DEF Deciding
<1>2. ASSUME NEW r \in Requests, NEW x \in Proposals,
             ApproveBegin(r, x) \/ RejectBegin(r, x)
      PROVE  ~Deciding(q, p)'
  <2>1. x # p
    BY <1>2 DEF ApproveBegin, RejectBegin, Decided
  <2>2. /\ job'[r].on = x
        /\ \A y \in Requests \ {r} : job'[y] = job[y]
    BY <1>2, <1>taken DEF ApproveBegin, RejectBegin
  <2> QED
    BY <2>1, <2>2 DEF Deciding
<1>3. ASSUME NEW r \in Requests, Answer(r) PROVE ~Deciding(q, p)'
  BY <1>3 DEF Answer, Goes, Idle, Deciding, TypeOK
<1>4. ASSUME NEW r \in Requests,
             PatchWrite(r) \/ LoadChange(r) \/ \E s \in Sites : PatchRead(r, s)
      PROVE  ~Deciding(q, p)'
  <2>1. job[r].on # p
    BY <1>4 DEF PatchRead, PatchWrite, LoadChange, Deciding
  <2>2. /\ job'[r].on = job[r].on
        /\ \A x \in Requests \ {r} : job'[x] = job[x]
    <3>1. CASE PatchWrite(r)
      BY <3>1 DEF PatchWrite, Goes, TypeOK, Jobs
    <3>2. CASE LoadChange(r)
      BY <3>2 DEF LoadChange, Goes, TypeOK, Jobs
    <3>3. CASE \E s \in Sites : PatchRead(r, s)
      BY <3>3 DEF PatchRead, Goes, TypeOK, Jobs
    <3> QED
      BY <1>4, <3>1, <3>2, <3>3
  <2> QED
    BY <2>1, <2>2 DEF Deciding
<1>5. CASE Crash
  BY <1>5 DEF Crash, Idle, Deciding
<1>6. CASE UNCHANGED vars
  BY <1>6 DEF vars, Deciding
<1> QED
  BY <1>1, <1>2, <1>3, <1>4, <1>5, <1>6 DEF Next, Step, AnalyzeCommit,
     ApplyCommit, GiveUp, CommitFails, PatchRefused, ApproveCommit, RejectCommit, Decide

\* A proposal that is decided and that no thread still works on is never taken
\* up again, keeps its decision and, where patches cannot overwrite each other, its files.
THEOREM SettledStays == Spec => SettledIsFinal
<1>1. Patching /\ [Next]_vars =>
        [\A p \in Proposals : Settled(p) =>
            /\ Settled(p)'
            /\ approval'[p] = approval[p]
            /\ Isolated => \A s \in Sites : p \in tree'[s] <=> p \in tree[s]]_vars
  <2> SUFFICES ASSUME Patching, [Next]_vars, NEW p \in Proposals, Settled(p)
               PROVE  Settled(p)' /\ StaysSettled(p)
    BY DEF StaysSettled
  <2>1. StaysSettled(p)
    BY SettledStep
  <2>2. \A q \in Requests : ~Deciding(q, p)'
    BY UndisturbedStep DEF Patching
  <2> QED
    BY <2>1, <2>2 DEF Settled, StaysSettled
<1> QED
  BY <1>1, PatchingInit, PatchingStep, PTL DEF Spec, SettledIsFinal

-----------------------------------------------------------------------------
(* The gate of ADR-002: one operator, patch files, a server that stays up *)

Lone == Adapter = "mock" /\ Serial /\ ~MayCrash

\* A lone thread decides about a draft, and writes a patch that is complete
\* with its first file; what is on disk is approved or about to be.
LoneDecides ==
    /\ \A r \in Requests, p \in Proposals :
          Deciding(r, p) => approval[p] = "draft"
    /\ \A r \in Requests :
          job[r].phase = "writing" => job[r].site = job[r].on
    /\ \A p \in Proposals : Trace(p) =>
          \/ approval[p] = "approved"
          \/ \E r \in Requests : /\ job[r].on = p
                                 /\ job[r].phase \in {"patched", "approving"}

LoneInv == Lone => LoneDecides

LEMMA LoneInit == Init => LoneInv
  BY DEF Init, LoneInv, LoneDecides, Deciding, Trace, Idle

LEMMA LoneStep == Patching /\ LoneInv /\ [Next]_vars => LoneInv'
<1> SUFFICES ASSUME Patching, Lone, LoneDecides, [Next]_vars PROVE LoneDecides'
  BY DEF LoneInv, Lone
<1> USE DEF Patching, LoneDecides, Deciding, Trace
<1>0. /\ job \in [Requests -> Jobs]
      /\ approval \in [Proposals -> Approvals]
      /\ \A r, q \in Requests : InFlight(r) /\ InFlight(q) => r = q
      /\ \A p \in Proposals : targets[p] \subseteq {p}
      /\ Sites = Proposals
  BY DEF TypeOK, Exclusive, OwnSites, Lone, Sites
\* A thread takes a request while nobody else works, so that nothing of an
\* undecided proposal is on disk.
<1>taken. ASSUME NEW r \in Requests, NEW phase \in Phases, NEW on, NEW todo,
                 Take(r, phase, on, todo)
          PROVE  /\ job'[r].phase = phase
                 /\ job'[r].on = on
                 /\ \A q \in Requests : job[q].phase = "idle"
                 /\ \A q \in Requests \ {r} : job'[q] = job[q]
  BY <1>0, <1>taken DEF Take, Goes, Idle, Lone, InFlight
<1>1. ASSUME NEW r \in Requests, NEW c \in Changes,
             AnalyzeBegin(r, c) \/ ApplyBegin(r, c)
      PROVE  LoneDecides'
  <2>1. /\ job'[r].phase \in {"analysing", "drafting"}
        /\ \A q \in Requests : job[q].phase = "idle"
        /\ \A q \in Requests \ {r} : job'[q] = job[q]
    BY <1>1, <1>taken DEF AnalyzeBegin, ApplyBegin, Phases
  <2> QED
    BY <1>1, <2>1 DEF AnalyzeBegin, ApplyBegin
<1>2. ASSUME NEW r \in Requests, NEW p \in Proposals,
             ApproveBegin(r, p) \/ RejectBegin(r, p)
      PROVE  LoneDecides'
  <2>1. /\ job'[r].phase \in {"patching", "refusing"}
        /\ job'[r].on = p
        /\ \A q \in Requests : job[q].phase = "idle"
        /\ \A q \in Requests \ {r} : job'[q] = job[q]
    BY <1>2, <1>taken DEF ApproveBegin, RejectBegin, Phases
  <2>2. approval[p] = "draft" /\ UNCHANGED <<approval, tree>>
    BY <1>2 DEF ApproveBegin, RejectBegin
  <2> QED
    BY <2>1, <2>2
<1>3. ASSUME NEW r \in Requests, AnalyzeCommit(r) \/ GiveUp(r) \/ CommitFails(r)
      PROVE  LoneDecides'
  BY <1>0, <1>3 DEF AnalyzeCommit, GiveUp, CommitFails, Answer, Goes, Idle, Lone
<1>4. ASSUME NEW r \in Requests, NEW p \in Proposals, ApplyCommit(r, p)
      PROVE  LoneDecides'
  <2>1. /\ job' = [job EXCEPT ![r] = Idle]
        /\ approval' = [approval EXCEPT ![p] = "draft"]
        /\ tree' = tree
        /\ approval[p] = "absent"
        /\ job[r].phase = "drafting"
    BY <1>4 DEF ApplyCommit, Answer, Goes
  <2> QED
    BY <1>0, <2>1 DEF Idle
<1>5. ASSUME NEW r \in Requests, NEW s \in Sites, PatchRead(r, s)
      PROVE  LoneDecides'
  <2>1. /\ job'[r].phase = "writing"
        /\ job'[r].on = job[r].on
        /\ job'[r].site = s
        /\ job[r].phase = "patching"
        /\ s \in job[r].todo
        /\ \A q \in Requests \ {r} : job'[q] = job[q]
        /\ UNCHANGED <<approval, tree>>
    BY <1>0, <1>5 DEF PatchRead, Goes, Jobs
  <2>2. s = job[r].on
    BY <1>0, <2>1 DEF Writes, TypeOK
  <2> QED
    BY <2>1, <2>2
<1>6. ASSUME NEW r \in Requests, PatchRefused(r) PROVE LoneDecides'
  BY <1>6 DEF PatchRefused, Lone
<1>7. ASSUME NEW r \in Requests, PatchWrite(r) PROVE LoneDecides'
  <2> DEFINE p == job[r].on
  <2>1. /\ job[r].phase = "writing"
        /\ p \in Proposals
        /\ job[r].site = p
        /\ job[r].todo \subseteq {p}
    BY <1>0, <1>7 DEF PatchWrite, Writes, TypeOK
  <2>2. /\ job'[r].phase = "patched"
        /\ job'[r].on = p
        /\ \A q \in Requests \ {r} : job'[q] = job[q]
        /\ approval' = approval
    BY <1>0, <1>7, <2>1 DEF PatchWrite, Goes, Jobs
  <2>3. \A q \in Proposals : Trace(q)' => q = p \/ Trace(q)
    BY <1>0, <1>7, WriteOnlyAdds DEF Isolated, Lone
  <2> QED
    BY <2>1, <2>2, <2>3
<1>8. ASSUME NEW r \in Requests, LoadChange(r) PROVE LoneDecides'
  <2>1. /\ job'[r].phase = IF job[r].phase = "patched" THEN "approving"
                           ELSE "rejecting"
        /\ job'[r].on = job[r].on
        /\ job[r].phase \in {"patched", "refusing"}
        /\ \A q \in Requests \ {r} : job'[q] = job[q]
        /\ UNCHANGED <<approval, tree>>
    BY <1>0, <1>8 DEF LoadChange, Goes, Jobs
  <2> QED
    BY <2>1
<1>9. ASSUME NEW r \in Requests, NEW decision \in Decided, Decide(r, decision),
             job[r].phase = IF decision = "approved" THEN "approving"
                            ELSE "rejecting"
      PROVE  LoneDecides'
  <2> DEFINE p == job[r].on
  <2>1. /\ approval' = [approval EXCEPT ![p] = decision]
        /\ job' = [job EXCEPT ![r] = Idle]
        /\ tree' = tree
    BY <1>9 DEF Decide, Answer, Goes
  <2>2. p \in Proposals /\ \A q \in Requests \ {r} : job[q].phase = "idle"
    BY <1>0, <1>9 DEF TypeOK, InFlight, Decided
  <2>3. ASSUME NEW q \in Proposals, Trace(q)' PROVE approval'[q] = "approved"
    <3>1. Trace(q)
      BY <2>1, <2>3
    <3>2. CASE q = p
      BY <1>0, <1>9, <2>1, <2>2, <3>1, <3>2 DEF Decided, Approvals
    <3>3. CASE q # p
      BY <1>0, <1>9, <2>1, <2>2, <3>1, <3>3 DEF Approvals
    <3> QED
      BY <3>2, <3>3
  <2>4. \A q \in Requests : job'[q].phase = "idle"
    BY <1>0, <2>1, <2>2 DEF Idle
  <2> QED
    BY <2>3, <2>4
<1>10. ASSUME NEW r \in Requests, ApproveCommit(r) \/ RejectCommit(r)
       PROVE  LoneDecides'
  BY <1>9, <1>10 DEF ApproveCommit, RejectCommit, Decided
<1>11. CASE Crash
  BY <1>11 DEF Crash, Lone
<1>12. CASE UNCHANGED vars
  BY <1>12 DEF vars
<1> QED
  BY <1>1, <1>2, <1>3, <1>4, <1>5, <1>6, <1>7, <1>8, <1>10, <1>11, <1>12
     DEF Next, Step

LEMMA AlwaysLone == Spec => [](Patching /\ OnDiskInv /\ LoneInv)
  BY PatchingInit, PatchingStep, OnDiskInit, OnDiskStep, LoneInit, LoneStep,
     PTL DEF Spec

\* With one operator, patch files and a server that stays up, a proposal that
\* ends up rejected has left nothing on disk.
THEOREM RejectedLeavesNothing == Spec => [](Lone => RejectedLeavesNoPatch)
<1>1. LoneInv => (Lone => RejectedLeavesNoPatch)
  BY DEF LoneInv, LoneDecides, RejectedLeavesNoPatch, Settled, Deciding
<1> QED
  BY <1>1, AlwaysLone, PTL

\* There, what is released is what is approved.
ReleasedApproved == Lone => Released = {p \in Proposals : approval[p] = "approved"}

LEMMA ReleasedIsApproved ==
    Patching /\ OnDiskInv /\ LoneInv => ReleasedApproved
<1> SUFFICES ASSUME Patching, OnDiskInv, LoneInv, Lone
             PROVE  Released = {p \in Proposals : approval[p] = "approved"}
  BY DEF ReleasedApproved
<1>1. ASSUME NEW p \in Proposals, approval[p] = "approved" PROVE Trace(p)
  BY <1>1 DEF OnDiskInv, Lone, Isolated, ApprovedIsOnDisk, OnDisk, Trace,
              Patching, TypeOK
<1>2. ASSUME NEW p \in Proposals, Trace(p), \A r \in Requests : ~Deciding(r, p)
      PROVE  approval[p] = "approved"
  BY <1>2 DEF LoneInv, LoneDecides, Deciding
<1> QED
  BY <1>1, <1>2 DEF Released

LEMMA AlwaysReleased == Spec => []ReleasedApproved
  BY AlwaysLone, ReleasedIsApproved, PTL

\* Every step of the code is a step of the gate, or leaves it alone.
LEMMA GateStep ==
    ASSUME Patching, LoneInv, Lone, ReleasedApproved, ReleasedApproved',
           [Next]_vars
    PROVE  [Gate!Next]_(Gate!gateVars)
<1>1. /\ Released = {p \in Proposals : approval[p] = "approved"}
      /\ Released' = {p \in Proposals : approval'[p] = "approved"}
  BY DEF ReleasedApproved, Lone
<1>2. CASE UNCHANGED approval
  BY <1>1, <1>2 DEF Gate!gateVars
<1>3. ASSUME NEW r \in Requests, NEW p \in Proposals, ApplyCommit(r, p)
      PROVE  Gate!Draft(p)
  <2>1. /\ approval[p] = "absent"
        /\ approval' = [approval EXCEPT ![p] = "draft"]
    BY <1>3 DEF ApplyCommit
  <2>2. Released' = Released
    BY <1>1, <2>1 DEF Patching, TypeOK
  <2> QED
    BY <2>1, <2>2 DEF Gate!Draft
<1>4. ASSUME NEW r \in Requests, ApproveCommit(r) \/ RejectCommit(r)
      PROVE  \E p \in Proposals : Gate!Approve(p) \/ Gate!Reject(p)
  <2> DEFINE p == job[r].on
  <2>1. p \in Proposals /\ approval[p] = "draft"
    BY <1>4 DEF ApproveCommit, RejectCommit, Patching, TypeOK, LoneInv,
                LoneDecides, Deciding
  <2>2. approval \in [Proposals -> Approvals]
    BY DEF Patching, TypeOK
  <2>3. CASE ApproveCommit(r)
    <3>1. approval' = [approval EXCEPT ![p] = "approved"]
      BY <2>3 DEF ApproveCommit, Decide
    <3>2. Released' = Released \union {p}
      BY <1>1, <2>1, <2>2, <3>1
    <3>3. Gate!Approve(p)
      BY <2>1, <3>1, <3>2 DEF Gate!Approve
    <3> QED
      BY <2>1, <3>3
  <2>4. CASE RejectCommit(r)
    <3>1. approval' = [approval EXCEPT ![p] = "rejected"]
      BY <2>4 DEF RejectCommit, Decide
    <3>2. Released' = Released
      BY <1>1, <2>1, <2>2, <3>1
    <3>3. Gate!Reject(p)
      BY <2>1, <3>1, <3>2 DEF Gate!Reject
    <3> QED
      BY <2>1, <3>3
  <2> QED
    BY <1>4, <2>3, <2>4
<1> QED
  BY <1>2, <1>3, <1>4 DEF Next, Step, Gate!Next, AnalyzeBegin, AnalyzeCommit,
     ApplyBegin, GiveUp, CommitFails, ApproveBegin, PatchRead, PatchRefused, PatchWrite,
     RejectBegin, LoadChange, Crash, vars

\* With one operator, patch files and a server that stays up, analyze, apply,
\* approve, reject and the adapter implement the gate of ADR-002, in which
\* approval and release are one step.
THEOREM GateImplemented == Lone => (Spec => GateSpec)
<1> SUFFICES ASSUME Lone PROVE Spec => GateSpec
  OBVIOUS
<1>1. Init => Gate!Init
  BY DEF Init, Gate!Init, Released, Trace
<1>2. /\ Patching /\ OnDiskInv /\ LoneInv
      /\ ReleasedApproved /\ ReleasedApproved'
      /\ [Next]_vars
      => [Gate!Next]_(Gate!gateVars)
  BY GateStep
<1> QED
  BY <1>1, <1>2, AlwaysLone, AlwaysReleased, PTL DEF Spec, GateSpec, Gate!Spec

=============================================================================
