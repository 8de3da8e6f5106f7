--------------------------- MODULE MCApprovalGate ---------------------------
(***************************************************************************)
(* Small instances of ApprovalGate.                                        *)
(***************************************************************************)
EXTENDS ApprovalGate, TLC

\* Threads, proposals and files are interchangeable (safety runs only; with
\* the mock adapter no site is a file).
Symmetry == Permutations(Requests) \union Permutations(Proposals)
              \union Permutations(Files)

=============================================================================
