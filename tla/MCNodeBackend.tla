--------------------------- MODULE MCNodeBackend ----------------------------
(* Handlers are interchangeable. *)
EXTENDS NodeBackend, TLC

Symmetry == Permutations(Handlers)
=============================================================================
