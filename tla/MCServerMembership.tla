------------------------ MODULE MCServerMembership ------------------------
(* Symmetry and the bound for the safety run of ServerMembership. *)
EXTENDS ServerMembership, TLC

Symmetry == Permutations(Threads)
\* No claim is made about a user once raced, and raced only grows: the states behind
\* the point where it holds everybody are left out.
SomebodyNotRaced == raced # UserIds
===========================================================================
