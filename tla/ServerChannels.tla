--------------------------- MODULE ServerChannels ---------------------------
(***************************************************************************)
(* The channels of one server (FServersManager, FServer): the rows of      *)
(* table server_channels, the FServer objects loaded from them with their  *)
(* sorted list, and the WebSocket handlers that create the server, create, *)
(* delete, move, reorder and rename channels.                              *)
(*                                                                         *)
(* Positions are kept in the table and in memory, by separate statements   *)
(* and critical sections.  A row is its position and name; the caller is a *)
(* member with the permission the handler asks for (one without it is      *)
(* turned away before anything changes).                                   *)
(***************************************************************************)
EXTENDS Calls

CONSTANTS MaxChannels, \* bound: channels ever created
          MaxObjects,  \* bound: FServer objects alive at once
          Names,       \* channel names
          RenameIds,   \* bound: channels that are renamed
          MaxDisturbances \* bound: statements that fail, overlaps of writing calls, crashes within one

ASSUME ChannelsAssumption ==
    /\ MaxChannels \in Nat \ {0, 1}
    /\ MaxObjects \in Nat \ {0}
    /\ Names # {}
    /\ MaxDisturbances \in Nat

VARIABLES
    servers,              \* the server has a row
    server_channels,      \* table: id -> row, for the channels there are
    last_id,              \* AUTO_INCREMENT of the table
    ServersMap,           \* the loaded object, 0 when there is none
    Channels,             \* object -> id -> row
    CachedSortedChannels, \* object -> the sorted list, <<>> when it is not valid
    lc,                   \* per thread: the call's arguments and local variables
    unlisted,             \* history: the object in the map may lack, or come to lack, channels of the table
    dirty,                \* history: overlapping or interrupted calls may have left gaps,
                          \* doubles or differences in the positions
    renamed,              \* history: two renames overlapped
    disturbances          \* counted up to their bound

table == <<servers, server_channels, last_id>>
memory == <<ServersMap, Channels, CachedSortedChannels>>
doubts == <<unlisted, dirty, renamed>>
history == <<doubts, disturbances>>
channelVars == <<table, memory, lc, history>>

Ids == 1..MaxChannels
Objects == 1..MaxObjects
NoRows == [c \in {} |-> 0]
NoCall == [obj |-> 0, chan |-> 0, order |-> <<>>, row |-> 0, position |-> 0,
           name |-> CHOOSE n \in Names : TRUE, alone |-> FALSE]

\* Calls that write positions, or the list of channels.
Writers == {"CreateServer", "CreateChannel", "DeleteChannel", "MoveChannel", "ReorderChannels"}
ChannelOps == Writers \cup {"RenameChannel"}

AddChannel == <<"get", "nextPosition", "insertChannel", "pushChannel">>
RenumberChannelPositions == <<"get", "sorted", "setPositions", "updateRows">>
RemoveChannel == <<"get", "find", "deleteRow", "erase">> \o RenumberChannelPositions
MoveChannel == <<"get", "sorted", "setPositions", "updateRows">>
ReorderChannels == <<"get", "sorted", "setPositions", "updateRows">>
RenameChannel == <<"get", "find", "updateName", "setName">>

\* The row of the owner and the cached servers of a user are in ServerMembership.
AddServer == <<"insertServer">> \o AddChannel \o <<"endChannel">> \o AddChannel \o <<"endChannel", "putServer">>

RowType == [position : Nat, name : Names]
IsRows(f) == DOMAIN f \subseteq Ids /\ \A c \in DOMAIN f : f[c] \in RowType

\* A backend that has just started, before or after the server is created.
ChannelsInit ==
    /\ servers \in BOOLEAN
    /\ last_id = IF servers THEN 2 ELSE 0
    /\ server_channels = [c \in 1..last_id |-> [position |-> c - 1, name |-> NoCall.name]]
    /\ ServersMap = 0
    /\ Channels = [o \in Objects |-> NoRows]
    /\ CachedSortedChannels = [o \in Objects |-> <<>>]
    /\ lc = [th \in Threads |-> NoCall]
    /\ unlisted = FALSE
    /\ dirty = FALSE
    /\ renamed = FALSE
    /\ disturbances = 0

Disturbance == disturbances < MaxDisturbances /\ disturbances' = disturbances + 1

\* An object lives while the map or a thread points to it.
Live(o) == o = ServersMap \/ \E th \in Threads : lc[th].obj = o
Fresh == CHOOSE o \in Objects : ~Live(o) /\ \A p \in 1..(o - 1) : Live(p)
CanLoad == \E o \in Objects : ~Live(o)

(***************************************************************************)
(* The handlers.                                                           *)
(***************************************************************************)
\* A handler's arguments are chosen at the step that reads them first.  Two overlapping
\* writers, or the crash of one, leave positions in doubt; so do two
\* renames for the name.
Begin(th, op, steps) ==
    LET overlap == op \in Writers /\ BusyIn(Writers) IN
    /\ Enter(th, steps, op)
    /\ lc' = [t \in Threads |->
                 IF t = th THEN [NoCall EXCEPT !.alone = op \in Writers /\ ~BusyIn(Writers)]
                 ELSE [lc[t] EXCEPT !.alone = @ /\ op \notin Writers]]
    /\ dirty' = (dirty \/ overlap)
    /\ renamed' = (renamed \/ (op = "RenameChannel" /\ BusyIn({"RenameChannel"})))
    /\ IF overlap THEN Disturbance ELSE UNCHANGED disturbances
    /\ UNCHANGED <<table, memory, unlisted>>

CreateServer(th) ==
    /\ ~servers /\ ~BusyIn({"CreateServer"})
    /\ Begin(th, "CreateServer", AddServer)

CreateChannel(th) ==
    /\ servers
    /\ Begin(th, "CreateChannel", AddChannel)

HandleDeleteChannel(th) ==
    /\ servers
    /\ Begin(th, "DeleteChannel", RemoveChannel)

HandleMoveChannel(th) ==
    /\ servers
    /\ Begin(th, "MoveChannel", MoveChannel)

HandleReorderChannels(th) ==
    /\ servers
    /\ Begin(th, "ReorderChannels", ReorderChannels)

HandleRenameChannel(th) ==
    /\ servers
    /\ Begin(th, "RenameChannel", RenameChannel)

ChannelReply(th) ==
    /\ Busy(th) /\ Head(pc[th]) \in ChannelOps
    /\ Finish(th)
    /\ lc' = [lc EXCEPT ![th] = NoCall]
    /\ UNCHANGED <<table, ServersMap, history>>
    /\ Channels' = [o \in Objects |-> IF Live(o)' THEN Channels[o] ELSE NoRows]
    /\ CachedSortedChannels' = [o \in Objects |-> IF Live(o)' THEN CachedSortedChannels[o] ELSE <<>>]

(***************************************************************************)
(* GetServerById.                                                          *)
(***************************************************************************)
GetServer(th) ==
    /\ AtStep(th, "get")
    /\ IF ServersMap # 0
       THEN lc' = [lc EXCEPT ![th].obj = ServersMap] /\ Advance(th)
       ELSE pc' = [pc EXCEPT ![th] = <<"load", "insert">> \o @] /\ UNCHANGED lc
    /\ UNCHANGED <<table, memory, history>>

\* When it fails the server is cached all the same, without channels.
DownloadChannelsFromDB(th) ==
    /\ AtStep(th, "load")
    /\ CanLoad
    /\ \/ /\ Channels' = [Channels EXCEPT ![Fresh] = server_channels]
          /\ UNCHANGED <<unlisted, disturbances>>
       \/ /\ Disturbance
          /\ Channels' = [Channels EXCEPT ![Fresh] = NoRows]
          /\ unlisted' = TRUE
    /\ CachedSortedChannels' = [CachedSortedChannels EXCEPT ![Fresh] = <<>>]
    /\ lc' = [lc EXCEPT ![th].obj = Fresh]
    /\ Advance(th)
    /\ UNCHANGED <<table, ServersMap, dirty, renamed>>

\* One that another thread has loaded by now is replaced; its holders go on with it.
PutLoaded(th) ==
    /\ AtStep(th, "insert")
    /\ ServersMap' = lc[th].obj
    /\ unlisted' = (unlisted \/ ServersMap # 0)
    /\ Advance(th)
    /\ UNCHANGED <<table, Channels, CachedSortedChannels, lc, dirty, renamed, disturbances>>

(***************************************************************************)
(* Creating the server.                                                    *)
(***************************************************************************)
UploadNewServerToDB(th) ==
    /\ AtStep(th, "insertServer")
    /\ \/ servers' = TRUE /\ Advance(th) /\ UNCHANGED disturbances
       \/ Disturbance /\ UNCHANGED servers /\ Return(th)
    /\ UNCHANGED <<server_channels, last_id, memory, lc, doubts>>

\* The result of AddChannel is ignored.
NextDefaultChannel(th) ==
    /\ AtStep(th, "endChannel")
    /\ Advance(th)
    /\ UNCHANGED <<table, memory, lc, history>>

\* NewServer, whose channels were added to the object AddChannel loaded, replaces it.
PutNewServer(th) ==
    /\ AtStep(th, "putServer")
    /\ CanLoad
    /\ ServersMap' = Fresh
    /\ Channels' = [Channels EXCEPT ![Fresh] = NoRows]
    /\ CachedSortedChannels' = [CachedSortedChannels EXCEPT ![Fresh] = <<>>]
    /\ unlisted' = TRUE
    /\ Advance(th)
    /\ UNCHANGED <<table, lc, dirty, renamed, disturbances>>

(***************************************************************************)
(* Adding a channel.                                                       *)
(***************************************************************************)
Positions(rows) == {rows[c].position : c \in DOMAIN rows}
Highest(S) == CHOOSE p \in S : \A q \in S : q <= p

NextPosition(rows) == IF rows = NoRows THEN 0 ELSE Highest(Positions(rows)) + 1

\* 0, too, when the SELECT fails.
GetNextChannelPosition(th) ==
    /\ AtStep(th, "nextPosition")
    /\ \/ /\ lc' = [lc EXCEPT ![th].position = NextPosition(server_channels)]
          /\ UNCHANGED <<dirty, disturbances>>
       \/ /\ Disturbance
          /\ lc' = [lc EXCEPT ![th].position = 0]
          /\ dirty' = TRUE
    /\ Advance(th)
    /\ UNCHANGED <<table, memory, unlisted, renamed>>

WithRow(rows, c, row) == [i \in DOMAIN rows \cup {c} |-> IF i = c THEN row ELSE rows[i]]
WithoutRow(rows, c) == [i \in DOMAIN rows \ {c} |-> rows[i]]

UploadChannelToDB(th) ==
    /\ AtStep(th, "insertChannel")
    /\ \/ /\ last_id < MaxChannels
          /\ last_id' = last_id + 1
          /\ server_channels' = WithRow(server_channels, last_id',
                                        [position |-> lc[th].position, name |-> lc[th].name])
          /\ lc' = [lc EXCEPT ![th].chan = last_id']
          /\ Advance(th)
          /\ UNCHANGED disturbances
       \/ Disturbance /\ Leave(th, "endChannel") /\ UNCHANGED <<last_id, server_channels, lc>>
    /\ UNCHANGED <<servers, memory, doubts>>

\* A change of an object's channels; the sorted list is made anew when it is next asked for.
SetChannels(o, rows) ==
    /\ Channels' = [Channels EXCEPT ![o] = rows]
    /\ CachedSortedChannels' = [CachedSortedChannels EXCEPT ![o] = <<>>]
    /\ UNCHANGED ServersMap

PushChannel(th) ==
    /\ AtStep(th, "pushChannel")
    /\ SetChannels(lc[th].obj, WithRow(Channels[lc[th].obj], lc[th].chan,
                                       [position |-> lc[th].position, name |-> lc[th].name]))
    /\ Advance(th)
    /\ UNCHANGED <<table, lc, history>>

(***************************************************************************)
(* Finding, deleting and renaming a channel.                               *)
(***************************************************************************)
\* A channel to delete, or one to rename and its new name.
FindChannel(th, c, n) ==
    /\ AtStep(th, "find")
    /\ IF Op(th) = "RenameChannel" THEN c \in RenameIds ELSE n = NoCall.name
    /\ IF c \in DOMAIN Channels[lc[th].obj]
       THEN lc' = [lc EXCEPT ![th].chan = c, ![th].name = n] /\ Advance(th)
       ELSE UNCHANGED lc /\ Return(th)
    /\ UNCHANGED <<table, memory, history>>

DeleteChannelFromDB(th) ==
    /\ AtStep(th, "deleteRow")
    /\ \/ server_channels' = WithoutRow(server_channels, lc[th].chan) /\ Advance(th) /\ UNCHANGED disturbances
       \/ Disturbance /\ UNCHANGED server_channels /\ Return(th)
    /\ UNCHANGED <<servers, last_id, memory, lc, doubts>>

EraseChannel(th) ==
    /\ AtStep(th, "erase")
    /\ SetChannels(lc[th].obj, WithoutRow(Channels[lc[th].obj], lc[th].chan))
    /\ Advance(th)
    /\ UNCHANGED <<table, lc, history>>

UpdateChannelNameInDB(th) ==
    /\ AtStep(th, "updateName")
    /\ \/ /\ server_channels' =
                 IF lc[th].chan \in DOMAIN server_channels
                 THEN [server_channels EXCEPT ![lc[th].chan].name = lc[th].name]
                 ELSE server_channels
          /\ Advance(th)
          /\ UNCHANGED disturbances
       \/ Disturbance /\ UNCHANGED server_channels /\ Return(th)
    /\ UNCHANGED <<servers, last_id, memory, lc, doubts>>

\* The name is written through the shared pointer, which may have left the object by now.
SetChannelName(th) ==
    LET o == lc[th].obj IN
    /\ AtStep(th, "setName")
    /\ Channels' = IF lc[th].chan \in DOMAIN Channels[o]
                   THEN [Channels EXCEPT ![o][lc[th].chan].name = lc[th].name]
                   ELSE Channels
    /\ Advance(th)
    /\ UNCHANGED <<table, ServersMap, CachedSortedChannels, lc, history>>

(***************************************************************************)
(* The order of the channels.                                              *)
(***************************************************************************)
\* The lists of all channels of an object by position; those of one position are in any order.
SortedLists(rows) ==
    {s \in [1..Cardinality(DOMAIN rows) -> DOMAIN rows] :
        \A i, j \in DOMAIN s : i < j => s[i] # s[j] /\ rows[s[i]].position <= rows[s[j]].position}

IndexIn(s, c) == CHOOSE i \in DOMAIN s : s[i] = c

\* s with its element i taken out and put back as element k.
Moved(s, i, k) ==
    LET rest == [j \in 1..(Len(s) - 1) |-> IF j < i THEN s[j] ELSE s[j + 1]]
    IN [j \in DOMAIN s |-> IF j < k THEN rest[j] ELSE IF j = k THEN s[i] ELSE rest[j - 1]]

\* The position clamped to the list and counted from 1.
Clamped(p, s) == IF p \in 0..(Len(s) - 1) THEN p + 1 ELSE Len(s)

\* What a call makes of the sorted list s it has read: <<>> when there is nothing to do.
MoveOrder(s, c, p) ==
    IF c \notin {s[i] : i \in DOMAIN s} \/ IndexIn(s, c) = Clamped(p, s)
    THEN <<>>
    ELSE Moved(s, IndexIn(s, c), Clamped(p, s))

\* Every channel of the list once, and no other.
ReorderOrder(s, ids) ==
    IF Len(ids) = Len(s) /\ {ids[i] : i \in DOMAIN ids} = {s[i] : i \in DOMAIN s}
    THEN ids
    ELSE <<>>

\* new_position is an int32 that MoveChannel takes as uint32: -1 is beyond every list.
NewOrders(op, s) ==
    CASE op = "MoveChannel" -> {MoveOrder(s, c, p) : c \in Ids, p \in -1..(MaxChannels - 1)}
      [] op = "ReorderChannels" ->
             {ReorderOrder(s, ids) : ids \in UNION {[1..n -> Ids] : n \in 1..MaxChannels}}
      [] op = "DeleteChannel" -> {s}

\* GetAllChannels, and what the call makes of it.  A deletion whose renumbering finds no
\* connection is over, with a gap.
GetAllChannels(th) ==
    LET o == lc[th].obj IN
    /\ AtStep(th, "sorted")
    /\ \E s \in IF CachedSortedChannels[o] # <<>> THEN {CachedSortedChannels[o]} ELSE SortedLists(Channels[o]) :
           /\ CachedSortedChannels' = [CachedSortedChannels EXCEPT ![o] = s]
           /\ \/ \E order \in NewOrders(Op(th), s) :
                     /\ lc' = [lc EXCEPT ![th].order = order]
                     /\ AdvanceIf(th, order # <<>>)
                     /\ dirty' = (dirty \/ (order = <<>> /\ unlisted /\ Op(th) = "DeleteChannel"))
                     /\ UNCHANGED disturbances
              \/ /\ Disturbance
                 /\ Return(th)
                 /\ dirty' = (dirty \/ Op(th) = "DeleteChannel")
                 /\ UNCHANGED lc
    /\ UNCHANGED <<table, ServersMap, Channels, unlisted, renamed>>

\* Mutant: the sorted list is not made anew.
SetChannelPositions_KeepCache(o, order) ==
    /\ Channels' = [Channels EXCEPT ![o] = [c \in DOMAIN @ |->
           IF \E i \in DOMAIN order : order[i] = c
           THEN [@[c] EXCEPT !.position = IndexIn(order, c) - 1] ELSE @[c]]]
    /\ UNCHANGED <<ServersMap, CachedSortedChannels>>

\* Channels that have left the object by now are skipped.
SetChannelPositions(o, order) ==
    SetChannels(o, [c \in DOMAIN Channels[o] |->
        IF \E i \in DOMAIN order : order[i] = c
        THEN [Channels[o][c] EXCEPT !.position = IndexIn(order, c) - 1]
        ELSE Channels[o][c]])

SetPositions(th) ==
    /\ AtStep(th, "setPositions")
    /\ SetChannelPositions(lc[th].obj, lc[th].order)
    /\ Advance(th)
    /\ UNCHANGED <<table, lc, history>>

\* One UPDATE per channel, each on its own: a failure leaves the rest as it was.  The last
\* one of a call that no other overlapped leaves table and memory numbered alike.
UpdatePosition(th) ==
    LET row == lc[th].row + 1
        c == lc[th].order[row]
        last == row = Len(lc[th].order)
    IN
    /\ AtStep(th, "updateRows")
    /\ \/ /\ server_channels' = IF c \in DOMAIN server_channels
                                THEN [server_channels EXCEPT ![c].position = row - 1]
                                ELSE server_channels
          /\ lc' = [lc EXCEPT ![th].row = row]
          /\ IF last THEN Advance(th) ELSE UNCHANGED pc
          /\ dirty' = IF last /\ lc[th].alone THEN unlisted ELSE dirty
          /\ UNCHANGED disturbances
       \/ Disturbance /\ Return(th) /\ dirty' = TRUE /\ UNCHANGED <<server_channels, lc>>
    /\ UNCHANGED <<servers, last_id, memory, unlisted, renamed>>

(***************************************************************************)
(* The backend stops, at any moment, and starts anew.                      *)
(***************************************************************************)
ChannelsRestart ==
    /\ pc' = Idle
    /\ lc' = [th \in Threads |-> NoCall]
    /\ ServersMap' = 0
    /\ Channels' = [o \in Objects |-> NoRows]
    /\ CachedSortedChannels' = [o \in Objects |-> <<>>]
    /\ unlisted' = FALSE
    /\ dirty' = (dirty \/ BusyIn(Writers))
    /\ IF BusyIn(Writers) THEN Disturbance ELSE UNCHANGED disturbances
    /\ renamed' = FALSE
    /\ UNCHANGED table

ChannelStep(th) ==
    \/ GetServer(th) \/ DownloadChannelsFromDB(th) \/ PutLoaded(th)
    \/ UploadNewServerToDB(th) \/ NextDefaultChannel(th) \/ PutNewServer(th)
    \/ GetNextChannelPosition(th) \/ UploadChannelToDB(th) \/ PushChannel(th)
    \/ (\E c \in Ids, n \in Names : FindChannel(th, c, n)) \/ DeleteChannelFromDB(th) \/ EraseChannel(th)
    \/ UpdateChannelNameInDB(th) \/ SetChannelName(th)
    \/ GetAllChannels(th) \/ SetPositions(th) \/ UpdatePosition(th)
    \/ ChannelReply(th)

ChannelCall(th) ==
    \/ CreateServer(th) \/ CreateChannel(th) \/ HandleDeleteChannel(th)
    \/ HandleMoveChannel(th) \/ HandleReorderChannels(th) \/ HandleRenameChannel(th)

ChannelsNext == (\E th \in Threads : ChannelStep(th) \/ ChannelCall(th)) \/ ChannelsRestart

(***************************************************************************)
(* Properties.                                                             *)
(***************************************************************************)
ChannelsTypeOK ==
    /\ servers \in BOOLEAN
    /\ IsRows(server_channels)
    /\ last_id \in 0..MaxChannels
    /\ ServersMap \in 0..MaxObjects
    /\ \A o \in Objects : IsRows(Channels[o])
    /\ \A o \in Objects : CachedSortedChannels[o] \in Seq(Ids)
    /\ pc \in [Threads -> Seq(STRING)]
    /\ \A th \in Threads :
           /\ lc[th].obj \in 0..MaxObjects
           /\ lc[th].chan \in 0..MaxChannels
           /\ lc[th].order \in Seq(Ids)
           /\ lc[th].row \in 0..Len(lc[th].order)
           /\ lc[th].name \in Names
    /\ {unlisted, dirty, renamed} \subseteq BOOLEAN
    /\ disturbances \in 0..MaxDisturbances

\* Positions are 0, 1, 2, ... without gaps or doubles, and the loaded server shows the
\* channels of the table at the table's positions, whenever no writing call is under way:
\* after any sequence of creations, deletions, moves, reorderings and restarts.  A call that
\* failed half way, was cut off by a crash or overlapped another puts that off only until
\* the next renumbering that runs alone; a server created since the start is left out.
PositionsAgree ==
    ~BusyIn(Writers) /\ ~dirty /\ ~unlisted =>
        /\ Positions(server_channels) = 0..(Cardinality(DOMAIN server_channels) - 1)
        /\ ServersMap # 0 =>
               /\ DOMAIN Channels[ServersMap] = DOMAIN server_channels
               /\ \A c \in DOMAIN server_channels :
                      Channels[ServersMap][c].position = server_channels[c].position

\* Unless two renames overlapped, a channel of the loaded server has the name of its row
\* once no call is under way, whatever writers, failures and crashes came between.
NamesAgree ==
    ~BusyIn(ChannelOps) /\ ~renamed /\ ~unlisted /\ ServersMap # 0 =>
        \A c \in DOMAIN server_channels \cap DOMAIN Channels[ServersMap] :
            Channels[ServersMap][c].name = server_channels[c].name

\* servers_api.md "always returned sorted by position ascending": the list GetAllChannels
\* keeps holds every channel of its object once, in the order of their positions now, though
\* positions are changed through pointers by calls that do not hold the list.
CachedListSorted ==
    \A o \in Objects : CachedSortedChannels[o] # <<>> => CachedSortedChannels[o] \in SortedLists(Channels[o])

\* Table, loaded server and sorted list are consistent in positions and names between calls.
ChannelsConsistent == ChannelsTypeOK /\ PositionsAgree /\ NamesAgree /\ CachedListSorted

\* ServersManager.cpp:221 "Create default channels": the server_created reply lists the
\* channels the new server has.
CreatedListsChannels ==
    \A th \in Threads :
        Busy(th) /\ Head(pc[th]) = "CreateServer" /\ ServersMap # 0 =>
            DOMAIN Channels[ServersMap] = DOMAIN server_channels
=============================================================================
