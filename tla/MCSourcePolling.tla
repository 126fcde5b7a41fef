--------------------------- MODULE MCSourcePolling --------------------------
(* Values of the constants of SourcePolling for TLC.                       *)
EXTENDS SourcePolling, TLC

\* Requests, stacks and sources are interchangeable.
Symmetry == Permutations(Handlers) \cup Permutations(Stacks) \cup Permutations(Sources)
=============================================================================
