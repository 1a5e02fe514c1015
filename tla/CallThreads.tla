---------------------------- MODULE CallThreads ----------------------------
(***************************************************************************)
(* The threads that serve sockets and requests, and where each of them is  *)
(* in its call, in whatever way the module that extends this one says it.  *)
(***************************************************************************)
CONSTANT Threads
VARIABLE pc
=============================================================================
