---------------------- MODULE MCImageServiceManager ----------------------
(* Symmetry for the safety runs of ImageServiceManager. *)
EXTENDS ImageServiceManager, TLC

Symmetry == Permutations(Sessions) \cup Permutations(Keys) \cup Permutations(Threads)
===========================================================================
