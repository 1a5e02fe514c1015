------------------------- MODULE MCSessionManager -------------------------
(* The sessions as they are; one run checks safety and liveness, so there is *)
(* no symmetry.                                                              *)
EXTENDS SessionManager
============================================================================
