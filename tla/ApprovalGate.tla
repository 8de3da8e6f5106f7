---------------------------- MODULE ApprovalGate ----------------------------
(***************************************************************************)
(* The life of a law change and of its patch proposals in app/main.py:     *)
(* analyze, apply, approve and reject, with apply_patch of the two         *)
(* codebase adapters.                                                      *)
(*                                                                         *)
(* Every endpoint is a plain function that FastAPI runs in its thread      *)
(* pool, with a database session of its own.  A thread reads the row,      *)
(* checks it, works (an LLM call lasts minutes) and only then commits; no  *)
(* lock, version column or conditional UPDATE ties the commit to the read. *)
(* The session writes the columns whose value differs from the one it      *)
(* loaded, so a decision leaves law_change.status alone when the row it    *)
(* loaded already had the value it assigns.                                *)
(*                                                                         *)
(* A request that is refused (404, 409, an analysis that is skipped, an    *)
(* apply that the DB-data registry, the missing mappings or the automation *)
(* policy stop) changes nothing here.                                      *)
(***************************************************************************)
EXTENDS Naturals

CONSTANTS
    Changes,      \* law_change rows
    Proposals,    \* patch_proposal ids that may be handed out
    Files,        \* files of the working copy
    Requests,     \* threads of the pool
    None,         \* "no value"
    Adapter,      \* "mock": a patch file per proposal, "real": edits the files
    Serial,       \* TRUE: the one operator waits for each answer
    MayCrash      \* TRUE: the server may stop between two steps, or a decision fail to commit

Status    == {"new", "reviewing", "pending_apply", "done"}
Decided   == {"approved", "rejected"}
Approvals == {"absent", "draft"} \union Decided

\* Where patches are written: proposal_<id>.patch, or the files themselves.
Sites == IF Adapter = "mock" THEN Proposals ELSE Files

Phases == {"idle", "analysing", "drafting",
           "patching", "writing", "patched", "refusing",
           "approving", "rejecting"}

ASSUME GateAssumption ==
    /\ Adapter \in {"mock", "real"}
    /\ Serial \in BOOLEAN
    /\ MayCrash \in BOOLEAN
    /\ None \notin Changes \union Proposals \union Files \union Status

VARIABLES
    status,       \* law_change.status
    approval,     \* patch_proposal.approval_status ("absent": no such row)
    owner,        \* patch_proposal.law_change_id
    targets,      \* the sites patch_proposal.diff has hunks for
    tree,         \* which proposals' patches each site holds
    job           \* what each thread is doing, and what it has read

vars == <<status, approval, owner, targets, tree, job>>

Idle == [phase |-> "idle", on |-> None, todo |-> {},
         site |-> None, seen |-> {}, loaded |-> None]

Jobs == [phase : Phases, on : Changes \union Proposals \union {None},
         todo : SUBSET Sites, site : Sites \union {None},
         seen : SUBSET Proposals, loaded : Status \union {None}]

Init ==
    /\ status = [c \in Changes |-> "new"]
    /\ approval = [p \in Proposals |-> "absent"]
    /\ owner = [p \in Proposals |-> None]
    /\ targets = [p \in Proposals |-> {}]
    /\ tree = [s \in Sites |-> {}]
    /\ job = [r \in Requests |-> Idle]

-----------------------------------------------------------------------------
(* Threads *)

InFlight(r) == job[r].phase # "idle"

Goes(r, next) == job' = [job EXCEPT ![r] = next]

\* A thread takes a request; a lone operator has no other one open.
Take(r, phase, on, todo) ==
    /\ ~InFlight(r)
    /\ Serial => \A q \in Requests : ~InFlight(q)
    /\ Goes(r, [Idle EXCEPT !.phase = phase, !.on = on, !.todo = todo])

Answer(r) == Goes(r, Idle)

-----------------------------------------------------------------------------
(* analyze and apply: read the change, ask the model, commit *)

\* POST /changes/{id}/analyze of a change without a summary, or of any
\* change with force=true.
AnalyzeBegin(r, c) ==
    /\ Take(r, "analysing", c, {})
    /\ UNCHANGED <<status, approval, owner, targets, tree>>

\* The audit commits have expired the loaded row, so the status is written
\* whatever it has become since.
AnalyzeCommit(r) ==
    /\ job[r].phase = "analysing"
    /\ status' = [status EXCEPT ![job[r].on] = "reviewing"]
    /\ Answer(r)
    /\ UNCHANGED <<approval, owner, targets, tree>>

\* POST /changes/{id}/apply, up to the call of the model.
ApplyBegin(r, c) ==
    /\ Take(r, "drafting", c, {})
    /\ UNCHANGED <<status, approval, owner, targets, tree>>

\* The sites a diff of proposal p can have; none when no edit was anchored.
Diffs(p) == IF Adapter = "mock" THEN {{p}} ELSE SUBSET Files

\* Mutant: the draft is written without its foreign key.
OrphanDraft(r, p) ==
    /\ job[r].phase = "drafting"
    /\ approval[p] = "absent"
    /\ \E sites \in Diffs(p) : targets' = [targets EXCEPT ![p] = sites]
    /\ approval' = [approval EXCEPT ![p] = "draft"]
    /\ status' = [status EXCEPT ![job[r].on] = "pending_apply"]
    /\ Answer(r)
    /\ UNCHANGED <<owner, tree>>

\* Mutant: apply writes the patch it has just drafted.
AutoApply(r, p) ==
    /\ job[r].phase = "drafting"
    /\ approval[p] = "absent"
    /\ \E sites \in Diffs(p) :
        /\ targets' = [targets EXCEPT ![p] = sites]
        /\ tree' = [s \in Sites |-> IF s \in sites THEN tree[s] \union {p}
                                    ELSE tree[s]]
    /\ approval' = [approval EXCEPT ![p] = "draft"]
    /\ owner' = [owner EXCEPT ![p] = job[r].on]
    /\ status' = [status EXCEPT ![job[r].on] = "pending_apply"]
    /\ Answer(r)

\* One commit inserts the draft and sets the change to pending_apply.
ApplyCommit(r, p) ==
    /\ job[r].phase = "drafting"
    /\ approval[p] = "absent"
    /\ \E sites \in Diffs(p) : targets' = [targets EXCEPT ![p] = sites]
    /\ approval' = [approval EXCEPT ![p] = "draft"]
    /\ owner' = [owner EXCEPT ![p] = job[r].on]
    /\ status' = [status EXCEPT ![job[r].on] = "pending_apply"]
    /\ Answer(r)
    /\ UNCHANGED tree

\* The model fails, or apply is blocked after the change was read.
GiveUp(r) ==
    /\ job[r].phase \in {"analysing", "drafting"}
    /\ Answer(r)
    /\ UNCHANGED <<status, approval, owner, targets, tree>>

-----------------------------------------------------------------------------
(* approve: check the draft, write the patch site by site, then commit *)

\* Mutant: the decision is committed before the patch is written.
ApproveFirst(r, p) ==
    /\ approval[p] = "draft"
    /\ approval' = [approval EXCEPT ![p] = "approved"]
    /\ Take(r, "patching", p, targets[p])
    /\ UNCHANGED <<status, owner, targets, tree>>

\* Mutant: approve does not check that the proposal is a draft.
ApproveAnything(r, p) ==
    /\ approval[p] # "absent"
    /\ Take(r, "patching", p, targets[p])
    /\ UNCHANGED <<status, approval, owner, targets, tree>>

ApproveBegin(r, p) ==
    /\ approval[p] = "draft"
    /\ Take(r, "patching", p, targets[p])
    /\ UNCHANGED <<status, approval, owner, targets, tree>>

\* read_bytes and the context check of the hunks, which pass.
PatchRead(r, s) ==
    /\ job[r].phase = "patching"
    /\ s \in job[r].todo
    /\ Goes(r, [job[r] EXCEPT !.phase = "writing",
                              !.site = s, !.seen = tree[s]])
    /\ UNCHANGED <<status, approval, owner, targets, tree>>

\* RuntimeError: no hunk at all, or the context of the next file does not
\* match (the file may have been edited at any time).  Files already written
\* stay written, and the proposal stays a draft.
PatchRefused(r) ==
    /\ Adapter = "real"
    /\ job[r].phase = "patching"
    /\ Answer(r)
    /\ UNCHANGED <<status, approval, owner, targets, tree>>

\* write_bytes of the text that was read, patched; the mock adapter
\* overwrites the proposal's own file.
PatchWrite(r) ==
    /\ job[r].phase = "writing"
    /\ LET s == job[r].site
           left == job[r].todo \ {s}
           before == IF Adapter = "mock" THEN {} ELSE job[r].seen
       IN /\ tree' = [tree EXCEPT ![s] = before \union {job[r].on}]
          /\ Goes(r, [job[r] EXCEPT
                !.phase = IF left = {} THEN "patched" ELSE "patching",
                !.todo = left, !.site = None, !.seen = {}])
    /\ UNCHANGED <<status, approval, owner, targets>>

-----------------------------------------------------------------------------
(* approve and reject: load the change, then one commit *)

\* Mutant: reject does not check that the proposal is a draft.
RejectAnything(r, p) ==
    /\ approval[p] # "absent"
    /\ Take(r, "refusing", p, {})
    /\ UNCHANGED <<status, approval, owner, targets, tree>>

RejectBegin(r, p) ==
    /\ approval[p] = "draft"
    /\ Take(r, "refusing", p, {})
    /\ UNCHANGED <<status, approval, owner, targets, tree>>

LoadChange(r) ==
    /\ job[r].phase \in {"patched", "refusing"}
    /\ Goes(r, [job[r] EXCEPT
          !.phase = IF @ = "patched" THEN "approving" ELSE "rejecting",
          !.loaded = status[owner[job[r].on]]])
    /\ UNCHANGED <<status, approval, owner, targets, tree>>

\* Mutant: a rejected change waits for the next proposal.
OutcomeWaits(decision) ==
    IF decision = "approved" THEN "done" ELSE "pending_apply"

\* What the decision makes of the change.
Outcome(decision) == IF decision = "approved" THEN "done" ELSE "reviewing"

\* Mutant: the decision is not stored with the change's status.
DecideChangeOnly(r, decision) ==
    /\ status' = [status EXCEPT ![owner[job[r].on]] = Outcome(decision)]
    /\ Answer(r)
    /\ UNCHANGED <<approval, owner, targets, tree>>

Decide(r, decision) ==
    LET p == job[r].on
        c == owner[p]
    IN /\ approval' = [approval EXCEPT ![p] = decision]
       /\ status' = IF job[r].loaded = Outcome(decision)
                    THEN status
                    ELSE [status EXCEPT ![c] = Outcome(decision)]
       /\ Answer(r)
       /\ UNCHANGED <<owner, targets, tree>>

ApproveCommit(r) == job[r].phase = "approving" /\ Decide(r, "approved")

RejectCommit(r) == job[r].phase = "rejecting" /\ Decide(r, "rejected")

\* The commit raises, on a database that stays locked: the row stays a draft, and
\* what an approval has written stays on disk.
CommitFails(r) ==
    /\ MayCrash
    /\ job[r].phase \in {"approving", "rejecting"}
    /\ Answer(r)
    /\ UNCHANGED <<status, approval, owner, targets, tree>>

-----------------------------------------------------------------------------
\* The server stops: threads and sessions are gone, the rows and files stay.
Crash ==
    /\ MayCrash
    /\ \E r \in Requests : InFlight(r)
    /\ job' = [r \in Requests |-> Idle]
    /\ UNCHANGED <<status, approval, owner, targets, tree>>

\* The steps a thread takes on its own once it has a request.
Step(r) ==
    \/ AnalyzeCommit(r)
    \/ \E p \in Proposals : ApplyCommit(r, p)
    \/ \E s \in Sites : PatchRead(r, s)
    \/ PatchWrite(r)
    \/ LoadChange(r)
    \/ ApproveCommit(r)
    \/ RejectCommit(r)

Next ==
    \/ \E r \in Requests :
        \/ \E c \in Changes : AnalyzeBegin(r, c) \/ ApplyBegin(r, c)
        \/ \E p \in Proposals : ApproveBegin(r, p) \/ RejectBegin(r, p)
        \/ GiveUp(r)
        \/ PatchRefused(r)
        \/ CommitFails(r)
        \/ Step(r)
    \/ Crash

Spec == Init /\ [][Next]_vars

\* The pool runs every thread it has started.
Fairness == \A r \in Requests : WF_vars(Step(r))

FairSpec == Spec /\ Fairness

-----------------------------------------------------------------------------
(* Properties *)

TypeOK ==
    /\ status \in [Changes -> Status]
    /\ approval \in [Proposals -> Approvals]
    /\ owner \in [Proposals -> Changes \union {None}]
    /\ targets \in [Proposals -> SUBSET Sites]
    /\ tree \in [Sites -> SUBSET Proposals]
    /\ job \in [Requests -> Jobs]
    /\ \A r \in Requests :
        /\ job[r].phase \in {"analysing", "drafting"} => job[r].on \in Changes
        /\ job[r].phase \notin {"idle", "analysing", "drafting"} =>
              /\ job[r].on \in Proposals
              /\ approval[job[r].on] # "absent"
        /\ job[r].phase = "writing" => job[r].site \in Sites
    /\ \A p \in Proposals : approval[p] # "absent" => owner[p] \in Changes

\* The whole patch of p is where it belongs.
OnDisk(p) ==
    /\ targets[p] # {}
    /\ \A s \in targets[p] : p \in tree[s]

\* Some of the patch of p is on disk.
Trace(p) == \E s \in Sites : p \in tree[s]

\* approve writes the patch before it commits, so a row that says "approved"
\* has its patch on disk, whatever crashes, refusals and other threads did
\* in between (approve, main.py:1424).
ApprovedIsOnDisk == \A p \in Proposals : approval[p] = "approved" => OnDisk(p)

\* A change shown as "pending_apply" has a draft to review: two drafts of one
\* change, decisions that race with a new apply and statuses that are not
\* written because the loaded row already had them never leave it waiting
\* for a draft that is not there (apply, approve and reject in main.py).
PendingHasDraft ==
    \A c \in Changes : status[c] = "pending_apply" =>
        \E p \in Proposals : owner[p] = c /\ approval[p] = "draft"

\* Thread r is past the draft check of approve or reject for p.
Deciding(r, p) ==
    /\ job[r].phase \in {"patching", "writing", "patched",
                         "refusing", "approving", "rejecting"}
    /\ job[r].on = p

\* Patches cannot overwrite each other.
Isolated == Adapter = "mock" \/ Serial

\* p is decided and no thread that saw it as a draft is still running.
Settled(p) ==
    /\ approval[p] \in Decided
    /\ \A r \in Requests : ~Deciding(r, p)

\* Once p is settled no thread takes it up again, its decision does not change,
\* and neither (where patches cannot overwrite each other) does the set of
\* sites that hold its patch: the 409 of approve and reject (main.py:1434,
\* main.py:1466) keeps every later click out.
SettledIsFinal ==
    [][\A p \in Proposals : Settled(p) =>
          /\ Settled(p)'
          /\ approval'[p] = approval[p]
          /\ Isolated => \A s \in Sites : p \in tree'[s] <=> p \in tree[s]]_vars

\* A proposal that ends up rejected has left nothing on disk: a patch leaves
\* the tool on approval only (ADR-002).
RejectedLeavesNoPatch ==
    \A p \in Proposals : Settled(p) /\ approval[p] = "rejected" => ~Trace(p)

\* A patch that is on disk and that nobody is writing or has decided on is
\* released; the patch of an approval under way counts from its commit on.
Released ==
    {p \in Proposals : /\ Trace(p)
                       /\ approval[p] = "approved"
                             \/ \A r \in Requests : ~Deciding(r, p)}

Gate == INSTANCE HumanGate WITH decision <- approval, released <- Released

\* The code implements the gate of ADR-002 where one request runs at a time,
\* nothing crashes and the patch is a file of its own (approve, reject and
\* the mock adapter's apply_patch).
GateSpec == Gate!Spec

\* A click on approve is not lost: with the mock adapter, whose apply_patch
\* does not refuse, and a server that stays up, the proposal is decided.
ApproveClickSettles ==
    \A p \in Proposals, r \in Requests :
        (job[r].phase = "patching" /\ job[r].on = p) ~> (approval[p] \in Decided)

=============================================================================
