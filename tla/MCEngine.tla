------------------------------ MODULE MCEngine ------------------------------
(* Presence, the shutdown of the socket loops, and the database pool, for   *)
(* TLC: parts of their own, so that the state spaces add up instead of      *)
(* multiplying.  Without a shutdown, a handshake that has begun is the next *)
(* thing to end, and a SELECT that fails takes the place of a connection;   *)
(* with one, there is a connection less and no SELECT fails.  Of the pool's *)
(* calls there is one less when the database crashes.                       *)
EXTENDS Presence, DataBasePool

VARIABLE part

vars == <<presenceVars, poolVars, pc, part>>

ASSUME Loops = SocketThreads

\* The pool of the parts that do not use it.
NoPool == InitPool /\ Pool = "none"

Handshakes == {d \in Connections : accepted[d] # NoSocket}

Init ==
    /\ pc = Idle
    /\ \/ part = "presence" /\ PresenceStart({}) /\ NoPool
       \/ part = "shutdown" /\ PresenceStart(Users) /\ NoPool
       \/ part = "pool" /\ PresenceStart({}) /\ InitPool

Next ==
    /\ UNCHANGED part
    /\ \/ /\ part = "presence" /\ PresenceNext /\ UNCHANGED poolVars
          /\ {} \in {Handshakes, Handshakes'} /\ Len(owner') + presence_faults' <= MaxConnections
       \/ /\ part = "shutdown"
          /\ PresenceNext \/ BeginStop \/ StopStep
          /\ Len(owner') < MaxConnections /\ presence_faults' = presence_faults /\ UNCHANGED poolVars
       \/ part = "pool" /\ PoolNext /\ calls' + crashes' <= MaxCalls /\ UNCHANGED presenceVars

Spec == Init /\ [][Next]_vars
=============================================================================
