---------------------------- MODULE DataBasePool ----------------------------
(***************************************************************************)
(* The pool of database connections (FDataBaseConnect) under the calls of  *)
(* socket loops and REST threads, the maintenance by the main thread, and  *)
(* the shutdown (FProjectEngine::PreExit), which releases the pool last.   *)
(*                                                                         *)
(* A call makes one connection, or holds it while it makes more: to load a *)
(* server, two, one after the other; to update a user who is not cached,   *)
(* one.  A connection is a lease of a slot; who finds none free waits.     *)
(* What a REST thread does after the pool is gone is not modelled.         *)
(***************************************************************************)
EXTENDS Calls

CONSTANTS PoolSize,
          RestThreads,  \* of Threads; the others are socket loops
          Main, Nobody, \* the main thread, and no thread
          MaxCrashes,   \* bound: crashes of the database
          MaxCalls      \* bound: calls

ASSUME PoolAssumption ==
    /\ PoolSize \in Nat \ {0}
    /\ RestThreads \subseteq Threads
    /\ {Main, Nobody} \cap Threads = {} /\ Main # Nobody
    /\ {MaxCrashes, MaxCalls} \subseteq Nat

VARIABLES
    Pool,    \* "open", or "none" when InitPool failed, or "released"
    lent,    \* slot -> who has leased it, or Nobody
    alive,   \* slots whose connection works
    leases,  \* per thread: its connections, the innermost first; Standalone is not of the pool
    up,      \* the database runs
    keep,    \* what KeepPoolAlive is doing, and the slots it has yet to check
    engine,  \* where the shutdown is
    timedOut,  \* history: PreExit waited for REST in vain
    shaken,    \* history: who holds a connection since before a crash, or has checked one in vain
    crashes, calls \* counted up to their bounds

poolVars == <<Pool, lent, alive, leases, up, keep, engine, timedOut, shaken, crashes, calls>>

Slots == 1..PoolSize
Standalone == 0
NoMaintenance == [phase |-> "idle", left |-> {}]

Connect == <<"lease", "validate", "use", "drop">>

\* The server; within it its channels, and its members.
DownloadServerFromDB ==
    <<"lease", "validate", "use",
          "lease", "validate", "use", "drop",
          "lease", "validate", "use", "drop",
      "drop">>

\* UpdateUserActivity, UpdateUserName, UpdateUserPasswordInDataBase: the row, and within it the
\* download of the user, who is not cached.  When he is, the call is a plain Connect.
UpdateUser == <<"lease", "validate", "use", "lease", "validate", "use", "drop", "drop">>

\* The pool has its connections, or could not be made.
InitPool ==
    /\ \/ Pool = "open" /\ alive = Slots /\ up = TRUE
       \/ Pool = "none" /\ alive = {} /\ up = FALSE
    /\ lent = [s \in Slots |-> Nobody]
    /\ leases = [th \in Threads |-> <<>>]
    /\ keep = NoMaintenance
    /\ engine = "running"
    /\ timedOut = FALSE
    /\ shaken = {}
    /\ crashes = 0
    /\ calls = 0

Free == {s \in Slots : lent[s] = Nobody}
Held(by) == {s \in Slots : lent[s] = by}
IsFirstFree(s) == s \in Free /\ \A o \in Free : s <= o
Leased(th) == {leases[th][i] : i \in DOMAIN leases[th]}
SocketThreads == Threads \ RestThreads

(***************************************************************************)
(* FDataBaseConnect.                                                       *)
(***************************************************************************)
\* REST takes requests until it is stopped; loops, whose connections close, until they are joined.
MayCall(th) == engine = "running" \/ (th \in SocketThreads /\ engine \in {"rest", "sockets"})

BeginCall(th, steps, op) ==
    /\ MayCall(th) /\ calls < MaxCalls
    /\ Enter(th, steps, op)
    /\ calls' = calls + 1
    /\ UNCHANGED <<Pool, lent, alive, leases, up, keep, engine, timedOut, shaken, crashes>>

\* Waits until a slot is free.
Lease(th) ==
    /\ AtStep(th, "lease") /\ Pool = "open"
    /\ \E s \in Slots :
           /\ IsFirstFree(s)
           /\ lent' = [lent EXCEPT ![s] = th]
           /\ leases' = [leases EXCEPT ![th] = <<s>> \o @]
    /\ Advance(th)
    /\ UNCHANGED <<Pool, alive, up, keep, engine, timedOut, shaken, crashes, calls>>

\* The end of a call, or of the call within it, that has no connection; rest: its leases.
NotConnected(th, rest) ==
    IF rest = <<>> THEN Return(th) ELSE Leave(th, "drop")

\* Without a pool a connection is made for the occasion.
ConnectAlone(th) ==
    /\ AtStep(th, "lease") /\ Pool = "none"
    /\ IF up THEN /\ leases' = [leases EXCEPT ![th] = <<Standalone>> \o @]
                  /\ pc' = [pc EXCEPT ![th] = Tail(Tail(@))]
             ELSE NotConnected(th, leases[th]) /\ UNCHANGED leases
    /\ UNCHANGED <<Pool, lent, alive, up, keep, engine, timedOut, shaken, crashes, calls>>

\* Mutant: a connection that cannot be reopened keeps its slot.
ValidateConnection_Leaks(th) ==
    LET s == Head(leases[th])
    IN /\ AtStep(th, "validate")
       /\ alive' = IF up THEN alive \cup {s} ELSE alive
       /\ shaken' = IF Len(leases[th]) = 1 THEN shaken \ {th} ELSE shaken
       /\ IF s \in alive \/ up THEN Advance(th) /\ UNCHANGED leases
                               ELSE /\ leases' = [leases EXCEPT ![th] = Tail(@)]
                                    /\ NotConnected(th, Tail(leases[th]))
       /\ UNCHANGED <<Pool, lent, up, keep, engine, timedOut, crashes, calls>>

\* SELECT 1; a dead connection is reopened where it is, and given back when that fails.
ValidateConnection(th) ==
    LET s == Head(leases[th])
    IN /\ AtStep(th, "validate")
       /\ alive' = IF up THEN alive \cup {s} ELSE alive
       /\ shaken' = IF Len(leases[th]) = 1 THEN shaken \ {th} ELSE shaken
       /\ IF s \in alive \/ up THEN Advance(th) /\ UNCHANGED <<lent, leases>>
                               ELSE /\ lent' = [lent EXCEPT ![s] = Nobody]
                                    /\ leases' = [leases EXCEPT ![th] = Tail(@)]
                                    /\ NotConnected(th, Tail(leases[th]))
       /\ UNCHANGED <<Pool, up, keep, engine, timedOut, crashes, calls>>

\* Statements; when one throws the call gives up, and with it what it was to load.
Use(th) ==
    /\ AtStep(th, "use")
    /\ Advance(th) \/ (Len(leases[th]) = 1 /\ pc' = [pc EXCEPT ![th] = <<"drop", Op(th)>>])
    /\ UNCHANGED poolVars

Drop(th) ==
    LET s == Head(leases[th])
    IN /\ AtStep(th, "drop")
       /\ lent' = IF s = Standalone THEN lent ELSE [lent EXCEPT ![s] = Nobody]
       /\ leases' = [leases EXCEPT ![th] = Tail(@)]
       /\ Advance(th)
       /\ UNCHANGED <<Pool, alive, up, keep, engine, timedOut, shaken, crashes, calls>>

EndCall(th) ==
    /\ AtStep(th, "query") \/ AtStep(th, "load") \/ AtStep(th, "update")
    /\ Finish(th)
    /\ shaken' = shaken \ {th}
    /\ UNCHANGED <<Pool, lent, alive, leases, up, keep, engine, timedOut, crashes, calls>>

CallStep(th) ==
    /\ Pool # "released"
    /\ \/ Lease(th) \/ ConnectAlone(th) \/ ValidateConnection(th) \/ Use(th) \/ Drop(th) \/ EndCall(th)

(***************************************************************************)
(* KeepPoolAlive, which the main thread runs between two seconds.          *)
(***************************************************************************)
Collect ==
    /\ engine = "running" /\ Pool = "open"
    /\ keep.phase = "idle"
    /\ keep' = [keep EXCEPT !.phase = "collect"]
    /\ shaken' = shaken \ {Main}
    /\ UNCHANGED <<Pool, lent, alive, leases, up, engine, timedOut, crashes, calls, pc>>

\* Mutant: collects the slots by waiting for each, until it has the whole pool.
TryLease_Waits ==
    /\ keep.phase = "collect"
    /\ IF Held(Main) # Slots
       THEN /\ \E s \in Slots : IsFirstFree(s) /\ lent' = [lent EXCEPT ![s] = Main]
            /\ UNCHANGED keep
       ELSE /\ keep' = [phase |-> "check", left |-> Held(Main)]
            /\ UNCHANGED lent
    /\ UNCHANGED <<Pool, alive, leases, up, engine, timedOut, shaken, crashes, calls, pc>>

\* Takes slots as long as there is a free one, without waiting.
TryLease ==
    /\ keep.phase = "collect"
    /\ IF Free # {}
       THEN /\ \E s \in Slots : IsFirstFree(s) /\ lent' = [lent EXCEPT ![s] = Main]
            /\ UNCHANGED keep
       ELSE /\ keep' = [phase |-> "check", left |-> Held(Main)]
            /\ UNCHANGED lent
    /\ UNCHANGED <<Pool, alive, leases, up, engine, timedOut, shaken, crashes, calls, pc>>

CheckSlot(s) ==
    /\ keep.phase = "check" /\ s \in keep.left
    /\ alive' = IF up THEN alive \cup {s} ELSE alive
    /\ keep' = [keep EXCEPT !.left = @ \ {s}]
    /\ shaken' = IF up THEN shaken ELSE shaken \cup {Main}
    /\ UNCHANGED <<Pool, lent, leases, up, engine, timedOut, crashes, calls, pc>>

GiveBack ==
    /\ keep.phase = "check" /\ keep.left = {}
    /\ IF Held(Main) = {}
       THEN keep' = NoMaintenance /\ UNCHANGED lent
       ELSE \E s \in Held(Main) : lent' = [lent EXCEPT ![s] = Nobody] /\ UNCHANGED keep
    /\ UNCHANGED <<Pool, alive, leases, up, engine, timedOut, shaken, crashes, calls, pc>>

KeepPoolAlive == Collect \/ TryLease \/ (\E s \in Slots : CheckSlot(s)) \/ GiveBack

(***************************************************************************)
(* PreExit.                                                                *)
(***************************************************************************)
RestIdle == \A th \in RestThreads : ~Busy(th)
SocketsIdle == \A th \in SocketThreads : ~Busy(th)

StopRest ==
    /\ engine = "running" /\ keep.phase = "idle"
    /\ engine' = "rest"
    /\ UNCHANGED <<Pool, lent, alive, leases, up, keep, timedOut, shaken, crashes, calls, pc>>

\* Five seconds at most.
RestStopped ==
    /\ engine = "rest"
    /\ engine' = "sockets"
    /\ timedOut' = ~RestIdle
    /\ UNCHANGED <<Pool, lent, alive, leases, up, keep, shaken, crashes, calls, pc>>

\* Mutant: goes on as soon as the connections were asked to close.
SocketsStopped_NotJoined ==
    /\ engine = "sockets"
    /\ engine' = "joined"
    /\ UNCHANGED <<Pool, lent, alive, leases, up, keep, timedOut, shaken, crashes, calls, pc>>

\* The loops are joined.
SocketsStopped ==
    /\ engine = "sockets" /\ SocketsIdle
    /\ engine' = "joined"
    /\ UNCHANGED <<Pool, lent, alive, leases, up, keep, timedOut, shaken, crashes, calls, pc>>

ShutdownPool ==
    /\ engine = "joined"
    /\ Pool = "open"
    /\ Pool' = "released"
    /\ UNCHANGED <<lent, alive, leases, up, keep, engine, timedOut, shaken, crashes, calls, pc>>

PreExit == StopRest \/ RestStopped \/ SocketsStopped \/ ShutdownPool

\* Crash: every connection dies.  shaken: who holds one.
Crash ==
    /\ up /\ crashes < MaxCrashes
    /\ up' = FALSE
    /\ alive' = {}
    /\ shaken' = {th \in Threads : leases[th] # <<>>} \cup (IF keep.phase = "idle" THEN {} ELSE {Main})
    /\ crashes' = crashes + 1
    /\ UNCHANGED <<Pool, lent, leases, keep, engine, timedOut, calls, pc>>

Restart ==
    /\ ~up
    /\ up' = TRUE
    /\ UNCHANGED <<Pool, lent, alive, leases, keep, engine, timedOut, shaken, crashes, calls, pc>>

SomeCall(th) ==
    BeginCall(th, Connect, "query") \/ BeginCall(th, DownloadServerFromDB, "load") \/ BeginCall(th, UpdateUser, "update")

PoolNext ==
    \/ \E th \in Threads : SomeCall(th) \/ CallStep(th)
    \/ KeepPoolAlive \/ PreExit \/ Crash \/ Restart

PoolSpec == InitPool /\ pc = Idle /\ [][PoolNext]_<<pc, poolVars>>

(***************************************************************************)
(* Properties.                                                             *)
(***************************************************************************)
\* Types.
PoolTypeOK ==
    /\ Pool \in {"open", "none", "released"}
    /\ lent \in [Slots -> Threads \cup {Main, Nobody}]
    /\ alive \subseteq Slots
    /\ leases \in [Threads -> Seq(Slots \cup {Standalone})]
    /\ \A th \in Threads : Len(leases[th]) <= 2
    /\ keep \in [phase : {"idle", "collect", "check"}, left : SUBSET Slots]
    /\ engine \in {"running", "rest", "sockets", "joined"}
    /\ shaken \subseteq Threads \cup {Main}
    /\ crashes \in 0..MaxCrashes /\ calls \in 0..MaxCalls

\* The RAII handles: a slot is lent to exactly who has it, in one of his connections; who is idle
\* has none, and the main thread has some only during maintenance.
LeasesAccounted ==
    /\ \A th \in Threads :
           /\ Leased(th) \ {Standalone} = Held(th)
           /\ \A i, j \in DOMAIN leases[th] : leases[th][i] = leases[th][j] => i = j \/ leases[th][i] = Standalone
           /\ ~Busy(th) => leases[th] = <<>>
    /\ keep.phase = "idle" => Held(Main) = {}

\* FDataBaseConnect says it is connected, and KeepPoolAlive is done with a slot, only when the
\* connection works: it does until the database crashes.
ConnectedAlive ==
    /\ \A th \in Threads \ shaken : \A i \in DOMAIN leases[th] :
           leases[th][i] \in alive \cup {Standalone} \/ (i = 1 /\ AtStep(th, "validate"))
    /\ Main \notin shaken /\ keep.phase = "check" => Held(Main) \ keep.left \subseteq alive

\* Slots, leases and connections are consistent.
PoolConsistent == PoolTypeOK /\ LeasesAccounted /\ ConnectedAlive

\* Waiting for a slot: a call under way, or the maintenance, can go on, unless every slot is lent
\* to a thread that waits for a second one: those threads wait for each other.
OnlyNestedStuck ==
    /\ Pool = "open" /\ \E th \in Threads : Busy(th)
    /\ ~ENABLED (TryLease \/ (\E s \in Slots : CheckSlot(s)) \/ GiveBack \/ \E th \in Threads : CallStep(th))
    => \A s \in Slots : lent[s] \in Threads /\ AtStep(lent[s], "lease")

\* PreExit "must happen BEFORE the DB pool is released" (ProjectEngine.cpp:396): when the pool goes
\* no socket loop is in a call, and no REST thread unless the wait for it timed out; then nothing
\* is leased.
ReleasedWhenDone ==
    Pool = "released" => SocketsIdle /\ (timedOut \/ (RestIdle /\ Free = Slots))
=============================================================================
