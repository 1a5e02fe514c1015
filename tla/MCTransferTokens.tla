------------------------- MODULE MCTransferTokens -------------------------
(* Symmetry for the safety run of TransferTokens. *)
EXTENDS TransferTokens, TLC

Symmetry == Permutations(Users) \cup Permutations(Tokens) \cup Permutations(Threads)
============================================================================
