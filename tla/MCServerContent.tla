-------------------------- MODULE MCServerContent --------------------------
(* Channels and messages for TLC.  They share the threads and no state: each *)
(* behaviour is one of the two components at work, so that the threads       *)
(* interleave within it and the state spaces add up instead of multiplying.  *)
EXTENDS ServerChannels, ServerMessages, TLC

VARIABLE part

vars == <<channelVars, messageVars, pc, part>>

Init ==
    /\ ChannelsInit /\ MessagesInit
    /\ pc = Idle
    /\ part \in {"channels", "messages"}

Begins(op) == \E th \in Threads : ~Busy(th) /\ Busy(th)' /\ Op(th)' = op

\* A channel is renamed before the last one is created, and nobody posts any more once two
\* posts have overlapped.
Next ==
    /\ UNCHANGED part
    /\ \/ /\ part = "channels" /\ ChannelsNext /\ UNCHANGED messageVars
          /\ BusyIn({"RenameChannel"})' => last_id' < MaxChannels
       \/ /\ part = "messages" /\ MessagesNext /\ UNCHANGED channelVars
          /\ Begins("ServerMessage") => ~crossed

Spec == Init /\ [][Next]_vars

Symmetry == Permutations(Threads)

\* No claim is made while the object in the map may lack channels, once two renames
\* overlapped, or once a download overlapped another call.  A restart mends all three, and
\* what it leads to is reached without them: such states are not followed further.
Undoubted == ~unlisted /\ ~renamed /\ ~mixed
============================================================================
