------------------------- MODULE MCMappingDecisions -------------------------
(***************************************************************************)
(* Small instances of MappingDecisions.                                    *)
(***************************************************************************)
EXTENDS MappingDecisions, TLC

\* Threads and mapping ids are interchangeable.
Symmetry == Permutations(Requests) \union Permutations(Mappings)

=============================================================================
