------------------------------ MODULE HumanGate ------------------------------
(***************************************************************************)
(* What the approval gate promises (ADR-002): a draft is decided once, by  *)
(* a person, and a patch leaves the tool in the same step that approves    *)
(* it.  ApprovalGate is the code; it implements this module as long as one *)
(* request runs at a time and the patch is a file of its own.              *)
(***************************************************************************)

CONSTANTS Proposals

VARIABLES decision,     \* what the person has decided about each proposal
          released      \* the proposals whose patch has left the tool

gateVars == <<decision, released>>

Init ==
    /\ decision = [p \in Proposals |-> "absent"]
    /\ released = {}

\* The model has written a draft; nothing leaves the tool.
Draft(p) ==
    /\ decision[p] = "absent"
    /\ decision' = [decision EXCEPT ![p] = "draft"]
    /\ UNCHANGED released

\* Approval and release are one step.
Approve(p) ==
    /\ decision[p] = "draft"
    /\ decision' = [decision EXCEPT ![p] = "approved"]
    /\ released' = released \union {p}

Reject(p) ==
    /\ decision[p] = "draft"
    /\ decision' = [decision EXCEPT ![p] = "rejected"]
    /\ UNCHANGED released

Next == \E p \in Proposals : Draft(p) \/ Approve(p) \/ Reject(p)

Spec == Init /\ [][Next]_gateVars

=============================================================================
