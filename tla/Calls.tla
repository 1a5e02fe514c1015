------------------------------- MODULE Calls -------------------------------
(***************************************************************************)
(* The threads that serve sockets and requests, and the calls they make.   *)
(* A call is a sequence of steps; each step is one SQL statement, one      *)
(* transaction or one critical section.  pc holds the steps a thread has   *)
(* still to make, the call's name last.  What the steps do is in the       *)
(* modules that extend this one.                                           *)
(***************************************************************************)
EXTENDS CallThreads, Integers, Sequences, FiniteSets

Idle == [th \in Threads |-> <<>>]

Busy(th) == pc[th] # <<>>
Op(th) == pc[th][Len(pc[th])]
AtStep(th, step) == Busy(th) /\ Head(pc[th]) = step

\* Some thread is in one of the calls ops.
BusyIn(ops) == \E th \in Threads : Busy(th) /\ Op(th) \in ops

Enter(th, steps, op) == ~Busy(th) /\ pc' = [pc EXCEPT ![th] = Append(steps, op)]
Advance(th) == pc' = [pc EXCEPT ![th] = Tail(@)]
\* On to the reply, or to its end.
Return(th) == pc' = [pc EXCEPT ![th] = <<Op(th)>>]
Finish(th) == pc' = [pc EXCEPT ![th] = <<>>]
AdvanceIf(th, cond) == IF cond THEN Advance(th) ELSE Return(th)

\* Steps put before those that are left.
Insert(th, steps) == pc' = [pc EXCEPT ![th] = steps \o @]

\* A call within the call ends: on from its step end, or to the reply when there is none.
Leave(th, end) ==
    LET ends == {i \in DOMAIN pc[th] : pc[th][i] = end}
        first == CHOOSE i \in ends : \A j \in ends : i <= j
    IN pc' = [pc EXCEPT ![th] = IF ends = {} THEN <<Op(th)>> ELSE SubSeq(@, first + 1, Len(@))]
============================================================================
