------------------------------ MODULE Presence ------------------------------
(***************************************************************************)
(* Who is online (FSocket, FSocketManager, FUser): the connections of the  *)
(* socket loops, each loop's map of them by user, the SocketId and status  *)
(* in the cached FUser, the notices one handler defers to another loop,    *)
(* and the shutdown, which closes what the maps hold.                      *)
(*                                                                         *)
(* A loop runs one handler or deferred task at a time; handlers of two     *)
(* loops interleave.  Everybody is a friend of everybody; the members of a *)
(* user's servers are told in the same way.  A task deferred to a          *)
(* connection holds a pointer to it; when it runs after the connection has *)
(* closed, what it does is not defined, and it is taken to do nothing.     *)
(***************************************************************************)
EXTENDS Calls, SequencesExt

CONSTANTS Loops,             \* socket loops, 0..n-1
          Users,
          TwoDevices,        \* users with a second device
          MaxConnections,    \* bound: connections accepted
          MaxPresenceFaults  \* bound: SELECTs that fail

ASSUME PresenceAssumption ==
    /\ Loops \subseteq Threads
    /\ IsFiniteSet(Loops) /\ Loops = 0..Cardinality(Loops) - 1 /\ Loops # {}
    /\ TwoDevices \subseteq Users
    /\ {MaxConnections, MaxPresenceFaults} \subseteq Nat

VARIABLES
    owner,      \* connection -> its user, for those accepted so far, in their order
    accepted,   \* connection -> the loop that has accepted it and not upgraded it yet, or NoSocket
    conn,       \* connection -> the loop its WebSocket is open at, or NoSocket
    UserIdToWebSocketPtrMap, \* loop -> user -> connection, or NoConnection
    objects,    \* the cached FUser: SocketId and UserStatus, or NoObject
    listed,     \* user -> whether his friend list is cached: "unknown", or the "friends", or "nobody"
    tasks,      \* loop -> deferred tasks, in order
    listening,  \* loops with an open listen socket
    ended,      \* loops whose Run has returned
    handler,    \* per loop: what its handler is about
    stop,       \* what Stop is doing
    told,       \* connection -> user -> the last status it was told, or Unknown
    owed,       \* history: connection and user whose present status it has to be told
    overlapped, \* history: users with two connections, or handlers, at once
    torn,       \* history: users whose last handler could not write the cached object
    unheard,    \* history: users whose last handler could not get their friends
    late,       \* history: connections added to a map that Stop had copied
    presence_faults \* counted up to their bound

sockets == <<owner, accepted, conn, UserIdToWebSocketPtrMap, tasks, listening, ended>>
presenceHistory == <<owed, overlapped, torn, unheard, late>>
presenceVars == <<sockets, objects, listed, handler, stop, told, presenceHistory, presence_faults>>

Connections == 1..MaxConnections
NoSocket == -1
NoConnection == 0
NoObject == [SocketId |-> NoSocket, UserStatus |-> "none"]
NewObject == [SocketId |-> NoSocket, UserStatus |-> "Offline"]
Unknown == "unknown"
NoHandler == [connection |-> NoConnection, status |-> "Offline", mine |-> FALSE, missing |-> {}, left |-> {}, aim |-> <<>>]

LookUpSelf == <<"lookUp", "emplace">>
Broadcast == <<"lookUpFriends", "emplaceFriends", "tell">>
OnClientConnected == <<"addSocket">> \o LookUpSelf \o <<"setSocketId", "setUserStatus">> \o Broadcast
OnClientDisconnected == <<"removeSocket">> \o LookUpSelf \o <<"setSocketId", "setUserStatus">> \o Broadcast

\* A backend that has started; users of cached have logged in.
PresenceStart(cached) ==
    /\ owner = <<>>
    /\ accepted = [d \in Connections |-> NoSocket]
    /\ conn = [d \in Connections |-> NoSocket]
    /\ UserIdToWebSocketPtrMap = [l \in Loops |-> [u \in Users |-> NoConnection]]
    /\ objects = [u \in Users |-> IF u \in cached THEN NewObject ELSE NoObject]
    /\ listed = [u \in Users |-> "unknown"]
    /\ tasks = [l \in Loops |-> <<>>]
    /\ listening = Loops
    /\ ended = {}
    /\ handler = [l \in Loops |-> NoHandler]
    /\ stop = [phase |-> "running", loop |-> 0, left |-> {}]
    /\ told = [d \in Connections |-> [u \in Users |-> Unknown]]
    /\ owed = {}
    /\ overlapped = {}
    /\ torn = {}
    /\ unheard = {}
    /\ late = {}
    /\ presence_faults = 0

Connected(u) == {d \in DOMAIN owner : owner[d] = u /\ conn[d] # NoSocket}
Entry(l, u) == UserIdToWebSocketPtrMap[l][u]
User(l) == owner[handler[l].connection]
\* On to the next step, or over it.
AdvanceOver(l, cond) == pc' = [pc EXCEPT ![l] = IF cond THEN Tail(Tail(@)) ELSE Tail(@)]
\* Loops that have a handler of u under way.
Serving(u) == {l \in Loops : Busy(l) /\ User(l) = u}

PresenceFault ==
    /\ presence_faults < MaxPresenceFaults
    /\ presence_faults' = presence_faults + 1
NoPresenceFault == UNCHANGED presence_faults

(***************************************************************************)
(* Connections come and go.                                                *)
(***************************************************************************)
\* The kernel gives a connection to any of the loops that listen.
Accept(l, u) ==
    /\ l \in listening
    /\ Len(owner) < MaxConnections
    /\ Cardinality({d \in DOMAIN owner : owner[d] = u /\ NoSocket # accepted[d]} \cup Connected(u)) < IF u \in TwoDevices THEN 2 ELSE 1
    /\ owner' = Append(owner, u)
    /\ accepted' = [accepted EXCEPT ![Len(owner')] = l]
    /\ UNCHANGED <<conn, UserIdToWebSocketPtrMap, tasks, listening, ended, objects, listed, handler, stop, told,
                   presenceHistory, presence_faults, pc>>

\* The token is refused, or the client gives up.
Refuse(l, d) ==
    /\ ~Busy(l) /\ accepted[d] = l
    /\ accepted' = [accepted EXCEPT ![d] = NoSocket]
    /\ UNCHANGED <<owner, conn, UserIdToWebSocketPtrMap, tasks, listening, ended, objects, listed, handler, stop, told,
                   presenceHistory, presence_faults, pc>>

Upgrade(l, d) ==
    /\ accepted[d] = l
    /\ Enter(l, OnClientConnected, "open")
    /\ accepted' = [accepted EXCEPT ![d] = NoSocket]
    /\ conn' = [conn EXCEPT ![d] = l]
    /\ handler' = [handler EXCEPT ![l] = [NoHandler EXCEPT !.connection = d, !.status = "Online"]]
    /\ overlapped' = IF Connected(owner[d]) # {} \/ Serving(owner[d]) # {} THEN overlapped \cup {owner[d]} ELSE overlapped
    /\ UNCHANGED <<owner, UserIdToWebSocketPtrMap, tasks, listening, ended, objects, listed, stop, told,
                   owed, torn, unheard, late, presence_faults>>

\* The WebSocket closes: its close handler begins.
Close(l, d) ==
    /\ conn[d] = l
    /\ Enter(l, OnClientDisconnected, "close")
    /\ conn' = [conn EXCEPT ![d] = NoSocket]
    /\ handler' = [handler EXCEPT ![l] = [NoHandler EXCEPT !.connection = d]]
    /\ owed' = {o \in owed : o[1] # d}
    /\ told' = [told EXCEPT ![d] = [u \in Users |-> Unknown]]

PeerCloses(l, d) ==
    /\ Close(l, d)
    /\ UNCHANGED <<owner, accepted, UserIdToWebSocketPtrMap, tasks, listening, ended, objects, listed, stop,
                   overlapped, torn, unheard, late, presence_faults>>

(***************************************************************************)
(* The steps of both handlers.                                             *)
(***************************************************************************)
\* Stop has read the map of l.
Copied(l) ==
    \/ stop.phase \in {"join", "stopped"}
    \/ stop.phase # "running" /\ (stop.loop > l \/ (stop.loop = l /\ stop.phase = "close"))

AddSocket(l) ==
    /\ AtStep(l, "addSocket")
    /\ UserIdToWebSocketPtrMap' = [UserIdToWebSocketPtrMap EXCEPT ![l][User(l)] = handler[l].connection]
    /\ late' = IF Copied(l) THEN late \cup {handler[l].connection} ELSE late
    /\ Advance(l)
    /\ UNCHANGED <<owner, accepted, conn, tasks, listening, ended, objects, listed, handler, stop, told,
                   owed, overlapped, torn, unheard, presence_faults>>

\* The entry is the user's, whichever of his connections it points to.
RemoveSocket(l) ==
    /\ AtStep(l, "removeSocket")
    /\ UserIdToWebSocketPtrMap' = [UserIdToWebSocketPtrMap EXCEPT ![l][User(l)] = NoConnection]
    /\ Advance(l)
    /\ UNCHANGED <<owner, accepted, conn, tasks, listening, ended, objects, listed, handler, stop, told,
                   presenceHistory, presence_faults>>

LookUp(l) ==
    LET found == objects[User(l)] # NoObject
    IN /\ AtStep(l, "lookUp")
       /\ handler' = [handler EXCEPT ![l].mine = found]
       /\ AdvanceOver(l, found)
       /\ UNCHANGED <<sockets, objects, listed, stop, told, presenceHistory, presence_faults>>

\* Downloads the user it has not found.  When another thread has cached one meanwhile, or the
\* SELECT fails, this handler has no hold of the cached object.
EmplaceSelf(l) ==
    /\ AtStep(l, "emplace")
    /\ Advance(l)
    /\ \/ /\ objects[User(l)] = NoObject
          /\ objects' = [objects EXCEPT ![User(l)] = NewObject]
          /\ handler' = [handler EXCEPT ![l].mine = TRUE]
          /\ NoPresenceFault
          /\ UNCHANGED torn
       \/ /\ (objects[User(l)] # NoObject /\ NoPresenceFault) \/ PresenceFault
          /\ torn' = torn \cup {User(l)}
          /\ UNCHANGED <<objects, handler>>
    /\ UNCHANGED <<sockets, listed, stop, told, owed, overlapped, unheard, late>>

SetSocketId(l) ==
    /\ AtStep(l, "setSocketId")
    /\ objects' = IF handler[l].mine
                  THEN [objects EXCEPT ![User(l)].SocketId = IF Op(l) = "open" THEN l ELSE NoSocket]
                  ELSE objects
    /\ Advance(l)
    /\ UNCHANGED <<sockets, listed, handler, stop, told, presenceHistory, presence_faults>>

\* A notice reaches the connection: its user's object leads to its loop, whose map leads to it.
Reachable(d) ==
    /\ conn[d] # NoSocket
    /\ objects[owner[d]] = [SocketId |-> conn[d], UserStatus |-> "Online"]
    /\ Entry(conn[d], owner[d]) = d

SetUserStatus(l) ==
    LET u == User(l)
    IN /\ AtStep(l, "setUserStatus")
       /\ objects' = IF handler[l].mine THEN [objects EXCEPT ![u].UserStatus = handler[l].status] ELSE objects
       /\ torn' = IF handler[l].mine THEN torn \ {u} ELSE torn
       /\ owed' = owed \cup {<<d, u>> : d \in {d \in DOMAIN owner : owner[d] # u /\ Reachable(d)}}
       /\ Advance(l)
       /\ UNCHANGED <<sockets, listed, handler, stop, told, overlapped, unheard, late, presence_faults>>

(***************************************************************************)
(* BroadcastUserStatus.                                                    *)
(***************************************************************************)
\* The friends, and those of them who are not cached; loads his list when it is not.  Without a
\* connection an empty one is cached, and stays; when the SELECT throws, none is.  Two loads of
\* one list do not overlap here.
LookUpFriends(l) ==
    LET u == User(l)
        friends == Users \ {u}
        missing == {w \in friends : objects[w] = NoObject}
    IN /\ AtStep(l, "lookUpFriends")
       /\ \/ /\ listed[u] # "nobody"
             /\ handler' = [handler EXCEPT ![l].left = friends, ![l].missing = missing]
             /\ AdvanceOver(l, missing = {})
             /\ listed' = [listed EXCEPT ![u] = "friends"]
             /\ unheard' = unheard \ {u}
             /\ NoPresenceFault
             /\ UNCHANGED owed
          \/ /\ \/ listed[u] = "nobody" /\ NoPresenceFault /\ UNCHANGED listed
                \/ /\ listed[u] = "unknown" /\ PresenceFault
                   /\ \E cached \in {"unknown", "nobody"} : listed' = [listed EXCEPT ![u] = cached]
             /\ AdvanceOver(l, TRUE)
             /\ unheard' = unheard \cup {u}
             /\ owed' = {o \in owed : o[2] # u}
             /\ UNCHANGED handler
       /\ UNCHANGED <<sockets, objects, stop, told, overlapped, torn, late>>

\* Mutant: what is downloaded replaces what another thread has cached.
EmplaceFriends_Replaces(l) ==
    /\ AtStep(l, "emplaceFriends")
    /\ Advance(l)
    /\ objects' = [w \in Users |-> IF w \in handler[l].missing THEN NewObject ELSE objects[w]]
    /\ handler' = [handler EXCEPT ![l].missing = {}]
    /\ UNCHANGED <<sockets, listed, stop, told, presenceHistory, presence_faults>>

\* Of a friend whom another thread has cached meanwhile the handler holds a new object, which
\* says Offline.
EmplaceFriends(l) ==
    LET fresh == {w \in handler[l].missing : objects[w] = NoObject}
    IN /\ AtStep(l, "emplaceFriends")
       /\ Advance(l)
       /\ \/ /\ objects' = [w \in Users |-> IF w \in fresh THEN NewObject ELSE objects[w]]
             /\ handler' = [handler EXCEPT ![l].left = @ \ (handler[l].missing \ fresh), ![l].missing = {}]
             /\ NoPresenceFault
          \/ /\ PresenceFault
             /\ handler' = [handler EXCEPT ![l].left = @ \ handler[l].missing, ![l].missing = {}]
             /\ UNCHANGED objects
       /\ UNCHANGED <<sockets, listed, stop, told, presenceHistory>>

\* The friend's status and socket, as his object says now.  The setters write the socket
\* before the status, so that reading the two apart shows nothing more.
Tell(l, w) ==
    /\ AtStep(l, "tell")
    /\ w \in handler[l].left
    /\ \/ /\ objects[w].UserStatus = "Online" /\ objects[w].SocketId \in Loops
          /\ handler' = [handler EXCEPT ![l].left = @ \ {w}, ![l].aim = <<objects[w].SocketId, w>>]
          /\ Insert(l, <<"defer">>)
       \/ /\ ~(objects[w].UserStatus = "Online" /\ objects[w].SocketId \in Loops)
          /\ handler' = [handler EXCEPT ![l].left = @ \ {w}]
          /\ UNCHANGED pc
    /\ UNCHANGED <<sockets, objects, listed, stop, told, presenceHistory, presence_faults>>

\* The queues after a task for the user's connection at loop to, when the map there has one.
Deferred(to, u, task) ==
    IF Entry(to, u) = NoConnection THEN tasks
                               ELSE [tasks EXCEPT ![to] = Append(@, [task EXCEPT !.to = Entry(to, u)])]

CloseTask == [to |-> NoConnection, about |-> NoConnection, status |-> "close"]
Notice(u, status) == [to |-> NoConnection, about |-> <<u>>, status |-> status]

\* Mutant: the handler looks in the map of its own loop.
Defer_OwnLoop(l) ==
    /\ AtStep(l, "defer")
    /\ tasks' = Deferred(l, handler[l].aim[2], Notice(User(l), handler[l].status))
    /\ handler' = [handler EXCEPT ![l].aim = <<>>]
    /\ Advance(l)
    /\ UNCHANGED <<owner, accepted, conn, UserIdToWebSocketPtrMap, listening, ended, objects, listed, stop, told,
                   presenceHistory, presence_faults>>

Defer(l) ==
    /\ AtStep(l, "defer")
    /\ tasks' = Deferred(handler[l].aim[1], handler[l].aim[2], Notice(User(l), handler[l].status))
    /\ handler' = [handler EXCEPT ![l].aim = <<>>]
    /\ Advance(l)
    /\ UNCHANGED <<owner, accepted, conn, UserIdToWebSocketPtrMap, listening, ended, objects, listed, stop, told,
                   presenceHistory, presence_faults>>

\* A user nobody of whom is left stops to be one with two connections.
EndHandler(l) ==
    LET u == User(l)
    IN /\ AtStep(l, "tell") /\ handler[l].left = {}
       /\ Finish(l)
       /\ handler' = [handler EXCEPT ![l] = NoHandler]
       /\ overlapped' = IF Connected(u) = {} /\ Serving(u) = {l} THEN overlapped \ {u} ELSE overlapped
       /\ UNCHANGED <<sockets, objects, listed, stop, told, owed, torn, unheard, late, presence_faults>>

HandlerStep(l) ==
    \/ AddSocket(l) \/ RemoveSocket(l) \/ LookUp(l) \/ EmplaceSelf(l) \/ SetSocketId(l) \/ SetUserStatus(l)
    \/ LookUpFriends(l) \/ EmplaceFriends(l) \/ (\E w \in Users : Tell(l, w)) \/ Defer(l) \/ EndHandler(l)

(***************************************************************************)
(* The loop.                                                               *)
(***************************************************************************)
RunTask(l) ==
    /\ ~Busy(l) /\ tasks[l] # <<>> /\ l \notin ended
    /\ tasks' = [tasks EXCEPT ![l] = Tail(@)]
    /\ LET task == Head(tasks[l])
       IN \/ /\ conn[task.to] = l /\ task.status = "close"
             /\ Close(l, task.to)
          \/ /\ conn[task.to] = l /\ task.status # "close"
             /\ told' = [told EXCEPT ![task.to][task.about[1]] = task.status]
             /\ UNCHANGED <<conn, handler, owed, pc>>
          \/ /\ conn[task.to] # l
             /\ UNCHANGED <<conn, handler, owed, told, pc>>
    /\ UNCHANGED <<owner, accepted, UserIdToWebSocketPtrMap, listening, ended, objects, listed, stop,
                   overlapped, torn, unheard, late, presence_faults>>

\* Nothing is open at the loop any more.
EndLoop(l) ==
    /\ ~Busy(l) /\ l \notin ended \cup listening
    /\ \A d \in Connections : conn[d] # l /\ accepted[d] # l
    /\ ended' = ended \cup {l}
    /\ UNCHANGED <<owner, accepted, conn, UserIdToWebSocketPtrMap, tasks, listening, objects, listed, handler, stop, told,
                   presenceHistory, presence_faults, pc>>

LoopStep(l) ==
    HandlerStep(l) \/ RunTask(l) \/ EndLoop(l) \/ \E d \in Connections : Refuse(l, d) \/ Upgrade(l, d)

(***************************************************************************)
(* FSocketManager::Stop, which asks each loop in turn to shut down.        *)
(***************************************************************************)
BeginStop ==
    /\ stop.phase = "running"
    /\ stop' = [stop EXCEPT !.phase = "listener"]
    /\ UNCHANGED <<sockets, objects, listed, handler, told, presenceHistory, presence_faults, pc>>

CloseListener ==
    /\ stop.phase = "listener"
    /\ listening' = listening \ {stop.loop}
    /\ stop' = [stop EXCEPT !.phase = "copy"]
    /\ UNCHANGED <<owner, accepted, conn, UserIdToWebSocketPtrMap, tasks, ended, objects, listed, handler, told,
                   presenceHistory, presence_faults, pc>>

CopyMap ==
    /\ stop.phase = "copy"
    /\ stop' = [stop EXCEPT !.phase = "close", !.left = {u \in Users : Entry(stop.loop, u) # NoConnection}]
    /\ UNCHANGED <<sockets, objects, listed, handler, told, presenceHistory, presence_faults, pc>>

DeferClose(u) ==
    /\ stop.phase = "close"
    /\ u \in stop.left
    /\ tasks' = Deferred(stop.loop, u, CloseTask)
    /\ stop' = [stop EXCEPT !.left = @ \ {u}]
    /\ UNCHANGED <<owner, accepted, conn, UserIdToWebSocketPtrMap, listening, ended, objects, listed, handler, told,
                   presenceHistory, presence_faults, pc>>

\* Mutant: the last loop is not asked.
NextLoop_SkipsLast ==
    /\ stop.phase = "close" /\ stop.left = {}
    /\ stop' = IF stop.loop + 2 \in Loops THEN [stop EXCEPT !.phase = "listener", !.loop = @ + 1]
                                          ELSE [stop EXCEPT !.phase = "join"]
    /\ UNCHANGED <<sockets, objects, listed, handler, told, presenceHistory, presence_faults, pc>>

NextLoop ==
    /\ stop.phase = "close" /\ stop.left = {}
    /\ stop' = IF stop.loop + 1 \in Loops THEN [stop EXCEPT !.phase = "listener", !.loop = @ + 1]
                                          ELSE [stop EXCEPT !.phase = "join"]
    /\ UNCHANGED <<sockets, objects, listed, handler, told, presenceHistory, presence_faults, pc>>

Join ==
    /\ stop.phase = "join" /\ ended = Loops
    /\ stop' = [stop EXCEPT !.phase = "stopped"]
    /\ UNCHANGED <<sockets, objects, listed, handler, told, presenceHistory, presence_faults, pc>>

StopStep == CloseListener \/ CopyMap \/ (\E u \in Users : DeferClose(u)) \/ NextLoop \/ Join

PresenceNext ==
    \E l \in Loops : LoopStep(l) \/ (\E u \in Users : Accept(l, u)) \/ \E d \in Connections : PeerCloses(l, d)

PresenceSpec ==
    /\ pc = Idle /\ \E cached \in SUBSET Users : PresenceStart(cached)
    /\ [][PresenceNext \/ BeginStop \/ StopStep]_<<pc, presenceVars>>

(***************************************************************************)
(* Properties.                                                             *)
(***************************************************************************)
Objects == [SocketId : Loops \cup {NoSocket}, UserStatus : {"Online", "Offline"}] \cup {NoObject}
Statuses == {"Online", "Offline"}

\* Types.  An entry of a map is a connection of that user, and so is what a task is for.
PresenceTypeOK ==
    /\ owner \in Seq(Users) /\ Len(owner) <= MaxConnections
    /\ accepted \in [Connections -> Loops \cup {NoSocket}]
    /\ conn \in [Connections -> Loops \cup {NoSocket}]
    /\ \A l \in Loops, u \in Users : Entry(l, u) \in {d \in DOMAIN owner : owner[d] = u} \cup {NoConnection}
    /\ objects \in [Users -> Objects]
    /\ listed \in [Users -> {"unknown", "friends", "nobody"}]
    /\ \A l \in Loops : \A i \in DOMAIN tasks[l] :
           /\ tasks[l][i].to \in DOMAIN owner
           /\ tasks[l][i].status = "close" \/ (tasks[l][i].status \in Statuses /\ tasks[l][i].about[1] \in Users \ {owner[tasks[l][i].to]})
    /\ ended \subseteq Loops \ listening
    /\ \A l \in Loops : handler[l].connection \in 0..Len(owner) /\ (Busy(l) => l \notin ended)
    /\ stop \in [phase : {"running", "listener", "copy", "close", "join", "stopped"}, loop : Loops, left : SUBSET Users]
    /\ told \in [Connections -> [Users -> Statuses \cup {Unknown}]]

\* Handlers are done, and the notices of them delivered.
Quiet == \A l \in Loops : ~Busy(l) /\ tasks[l] = <<>>

\* What others should be told of the user.
Presently(u) == IF Connected(u) = {} THEN "Offline" ELSE "Online"

\* OnClientConnected and OnClientDisconnected: when all is quiet, somebody with one connection at
\* a time is Online exactly while it is open, and his object and that loop's map lead to it.
\* Excused is one whose last handler could not write the cached object.
PresenceTrue ==
    Quiet => \A u \in Users \ overlapped :
        /\ u \notin torn => \A d \in Connected(u) : Reachable(d)
        /\ \A l \in Loops : Entry(l, u) \in Connected(u) \cup {NoConnection}

\* However connections of a user overlapped: once they are all closed and all is quiet he is
\* Offline, and neither his object nor a map leads anywhere.
GoneIsOffline ==
    Quiet => \A u \in Users : Connected(u) = {} =>
        /\ objects[u] \in {NoObject, NewObject}
        /\ \A l \in Loops : Entry(l, u) = NoConnection

\* A map never leads to a connection that has closed, except while its close handler is about to
\* take the entry out.
EntriesOpen ==
    \A l \in Loops, u \in Users :
        LET d == Entry(l, u)
        IN d = NoConnection \/ conn[d] = l \/ (AtStep(l, "removeSocket") /\ User(l) = u)

\* Connections, cached objects and the maps of the loops are consistent.
PresenceConsistent == PresenceTypeOK /\ PresenceTrue /\ GoneIsOffline /\ EntriesOpen

\* BroadcastUserStatus: when all is quiet, a connection that could be reached when the status of
\* a friend changed was told his present one last.  Excused are users with several connections, and
\* one whose handler could not get his friends; when it cached an empty list, until a restart.
FriendsHearLast ==
    Quiet => \A o \in owed :
        {owner[o[1]], o[2]} \cap overlapped = {} /\ o[2] \notin unheard => told[o[1]][o[2]] = Presently(o[2])

\* A connection that its loop cannot find.
Unreachable(d) ==
    conn[d] # NoSocket /\ Entry(conn[d], owner[d]) # d

\* FSocketManager::Stop: when it waits for the loops to end and all is quiet, no connection is left
\* that keeps one from ending, but those that came too late for the copy of their map and those
\* that have no entry there, because of another one of their user.
StopClosesAll ==
    Quiet /\ stop.phase = "join" =>
        \A d \in DOMAIN owner \ late : conn[d] # NoSocket => Unreachable(d)
=============================================================================
