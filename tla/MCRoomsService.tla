-------------------------- MODULE MCRoomsService --------------------------
(* Symmetry for the run of RoomsService that checks an invariant only. *)
EXTENDS RoomsService, TLC

Symmetry == Permutations(Tokens) \cup Permutations(Threads)
===========================================================================
