----------------------------- MODULE MCCollector -----------------------------
(***************************************************************************)
(* Small instances of Collector.                                           *)
(***************************************************************************)
EXTENDS Collector, TLC

\* Threads are interchangeable, and so are the publications of a law.
Symmetry == Permutations(Collectors) \union UNION {Permutations(law) : law \in Laws}

=============================================================================
