-------------------------- MODULE MCSessionKeys --------------------------
(* Symmetry for the safety runs of SessionKeys. *)
EXTENDS SessionKeys, TLC

Symmetry == Permutations(Sessions) \cup Permutations(Keys) \cup Permutations(Threads)
              \cup Permutations(Users)
===========================================================================
