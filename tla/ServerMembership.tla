------------------------- MODULE ServerMembership -------------------------
(***************************************************************************)
(* Membership of one server (FServersManager and FServer): the rows of     *)
(* table server_members, the FServer objects loaded from them, the cache   *)
(* of the servers of a user, one voice channel's ConnectedUsers, and one   *)
(* invite.  The calls are those of the WebSocket handlers of               *)
(* ServersSocketData.cpp and of a disconnect (Socket.cpp).                 *)
(*                                                                         *)
(* Servers share nothing but mutexes, so one is modelled, from before or   *)
(* after its creation; no handler removes a server.                        *)
(*                                                                         *)
(* FServer objects are shared pointers: two threads that miss the server   *)
(* in ServersMap load one each, and the second replaces the first, which   *)
(* its holders go on to use.                                               *)
(***************************************************************************)
EXTENDS Calls

CONSTANTS UserIds,
          Perms,      \* permission masks, 0 among them
          NoRow,      \* not a member
          AllPermissions, \* the owner's mask
          MaxUses,    \* max_uses of the invite
          MaxObjects, \* bound: FServer objects that are loaded
          WriteFaults, \* TRUE: an INSERT, UPDATE or DELETE may fail
          ReadFaults   \* TRUE: a SELECT may fail, or find no connection

ASSUME MembershipAssumption ==
    /\ {0, AllPermissions} \subseteq Perms
    /\ NoRow \notin Perms
    /\ MaxUses \in Nat
    /\ MaxObjects \in Nat \ {0}
    /\ {WriteFaults, ReadFaults} \subseteq BOOLEAN

VARIABLES
    servers,               \* the server has a row
    owner,                 \* whom it belongs to: one of the users, or NoRow for somebody else
    server_members,        \* table: user -> permissions, or NoRow
    current_uses,          \* of the invite's row
    ServersMap,            \* the loaded object, 0 when there is none
    objects,               \* objects loaded so far
    Members,               \* object -> user -> permissions, or NoRow
    ConnectedUsers,        \* object -> users in its voice channel
    UserToServerIdsCache,  \* user -> "none", "in" or "out"
    user, perm,            \* per thread: whom its call is about, the mask it sets
    obj,                   \* per thread: the object it holds a pointer to
    ids,                   \* per thread: what GetUserServerIds selected
    online,                \* users with an open socket
    raced                  \* history: users two conflicting calls were about at once, or for whom
                           \* a SELECT failed that the code takes for an empty answer, or
                           \* the INSERT of the owner's row, which AddServer ignores

db == <<servers, owner, server_members, current_uses>>
loaded == <<ServersMap, objects, Members, ConnectedUsers>>
memberCalls == <<pc, user, perm, obj, ids>>
membershipVars == <<db, loaded, UserToServerIdsCache, memberCalls, online, raced>>

Objects == 1..MaxObjects
Ops == {"createServer", "joinInvite", "leave", "kick", "permissions", "serverIds",
        "joinVoice", "leaveVoice", "disconnect"}

\* Calls a user makes through an open socket; the others may be about somebody offline.
OwnCalls == {"createServer", "joinInvite", "leave", "joinVoice", "leaveVoice", "disconnect"}

GetUserServerIds == <<"readCache", "select", "store">>
RemoveUserFromServer == <<"get", "delete", "removeMember", "invalidate">>

\* AddChannel, for the two default channels, loads the server before it is in the map;
\* what it does to the channels is in ServerChannels.
AddServer == <<"insertServer", "uploadOwner", "get", "get", "putServer", "invalidate">>

\* The steps of each call, when no early return cuts it short.
Steps(call) ==
    CASE call = "createServer" -> AddServer
      [] call = "joinInvite" ->
             <<"consume", "get", "notMember", "upload", "addMember", "invalidate">>
      [] call = "leave" -> RemoveUserFromServer
      [] call = "kick" -> <<"get", "isMember">> \o RemoveUserFromServer \o <<"get", "eraseVoice">>
      [] call = "permissions" -> <<"get", "isMember", "get", "isMember", "update", "setPermissions">>
      [] call = "serverIds" -> GetUserServerIds \o <<"eachServer">>
      [] call = "joinVoice" -> <<"get", "isMember", "get", "pushVoice">>
      [] call = "leaveVoice" -> <<"get", "eraseVoice">>
      [] call = "disconnect" -> GetUserServerIds \o <<"eachServer">> \o GetUserServerIds \o
                                    <<"mine", "get", "inVoice", "get", "eraseVoice">>

StepNames == {"consume", "get", "notMember", "upload", "addMember", "invalidate", "delete",
              "removeMember", "isMember", "eraseVoice", "update", "setPermissions",
              "readCache", "select", "store", "eachServer", "pushVoice", "mine", "inVoice", "load", "insert",
              "insertServer", "uploadOwner", "putServer"} \cup Ops

MembershipTypeOK ==
    /\ servers \in BOOLEAN
    /\ owner \in UserIds \cup {NoRow}
    /\ server_members \in [UserIds -> Perms \cup {NoRow}]
    /\ current_uses \in 0..MaxUses
    /\ ServersMap \in 0..objects
    /\ objects \in 0..MaxObjects
    /\ Members \in [Objects -> [UserIds -> Perms \cup {NoRow}]]
    /\ ConnectedUsers \in [Objects -> SUBSET UserIds]
    /\ UserToServerIdsCache \in [UserIds -> {"none", "in", "out"}]
    /\ \A th \in Threads : \A i \in 1..Len(pc[th]) : pc[th][i] \in StepNames
    /\ user \in [Threads -> UserIds]
    /\ perm \in [Threads -> Perms]
    /\ obj \in [Threads -> 0..objects]
    /\ ids \in [Threads -> {"in", "out"}]
    /\ online \subseteq UserIds
    /\ raced \subseteq UserIds

NoMembers == [u \in UserIds |-> NoRow]

\* A backend that has just started, before the server was created or after.
MembershipInit ==
    /\ servers \in BOOLEAN
    /\ owner = NoRow
    /\ server_members \in [UserIds -> IF servers THEN {0, NoRow} ELSE {NoRow}]
    /\ current_uses = 0
    /\ ServersMap = 0
    /\ objects = 0
    /\ Members = [o \in Objects |-> NoMembers]
    /\ ConnectedUsers = [o \in Objects |-> {}]
    /\ UserToServerIdsCache = [u \in UserIds |-> "none"]
    /\ pc = Idle
    /\ user \in [Threads -> UserIds]
    /\ perm = [th \in Threads |-> 0]
    /\ obj = [th \in Threads |-> 0]
    /\ ids = [th \in Threads |-> "out"]
    /\ online = UserIds
    /\ raced = {}

(***************************************************************************)
(* Calls begin and move on.                                                *)
(***************************************************************************)
BusyWith(u) == \E th \in Threads : Busy(th) /\ user[th] = u

\* Calls that must not overlap for one user: two that write the user's row, one that
\* makes or ends a membership and one that caches it, and a voice join and a disconnect.
Memberships == {"createServer", "joinInvite", "leave", "kick"}
Conflict(c, d) ==
    \/ {c, d} \subseteq Memberships \cup {"permissions"}
    \/ \E m \in Memberships, r \in {"serverIds", "disconnect"} : {c, d} = {m, r}
    \/ {c, d} = {"joinVoice", "disconnect"}

Conflicts(call, u) == \E th \in Threads : Busy(th) /\ user[th] = u /\ Conflict(call, Op(th))

\* A client learns of the server when the call that creates it has returned, so until
\* then the other calls are those that name no server.  Nobody may kick the owner or set
\* the owner's permissions.
Creating == \E th \in Threads : Busy(th) /\ Op(th) = "createServer"
CanCall(call, u) ==
  /\ call \in {"kick", "permissions"} => u # owner
  /\ \/ call = "createServer" /\ ~servers /\ ~Creating
     \/ call \in {"serverIds", "disconnect"}
     \/ call # "createServer" /\ servers /\ ~Creating

Call(th, call, u, p) ==
    /\ CanCall(call, u)
    /\ call \in OwnCalls => u \in online
    /\ Enter(th, Steps(call), call)
    /\ user' = [user EXCEPT ![th] = u]
    /\ perm' = [perm EXCEPT ![th] = p]
    /\ obj' = [obj EXCEPT ![th] = 0]
    /\ ids' = [ids EXCEPT ![th] = "out"]
    /\ online' = IF call = "disconnect" THEN online \ {u} ELSE online
    /\ raced' = IF Conflicts(call, u) THEN raced \cup {u} ELSE raced
    /\ UNCHANGED <<db, loaded, UserToServerIdsCache>>

Connect(u) ==
    /\ u \notin online
    /\ ~BusyWith(u)
    /\ online' = online \cup {u}
    /\ UNCHANGED <<db, loaded, UserToServerIdsCache, memberCalls, raced>>

\* OnClientDisconnected of a user who is neither cached nor can be loaded, and so has no name:
\* neither his servers are told nor the voice channels cleaned up.
DisconnectUnnamed(u) ==
    /\ ReadFaults
    /\ u \in online
    /\ online' = online \ {u}
    /\ raced' = raced \cup {u}
    /\ UNCHANGED <<db, loaded, UserToServerIdsCache, memberCalls>>

\* What fails or finds nothing ends the call, its reply included.
ContinueIf(th, cond) == IF cond THEN Advance(th) ELSE Finish(th)

Skip(th, n) == pc' = [pc EXCEPT ![th] = SubSeq(@, n + 1, Len(@))]

\* The reply is sent.
Reply(th) ==
    /\ Busy(th) /\ Head(pc[th]) \in Ops
    /\ Finish(th)
    /\ UNCHANGED <<db, loaded, UserToServerIdsCache, user, perm, obj, ids, online, raced>>

Locals == <<user, perm, ids, online>>

(***************************************************************************)
(* GetServerById.                                                          *)
(***************************************************************************)
GetServerById(th) ==
    /\ AtStep(th, "get")
    /\ IF ServersMap # 0
       THEN obj' = [obj EXCEPT ![th] = ServersMap] /\ Advance(th)
       ELSE Insert(th, <<"load", "insert">>) /\ UNCHANGED obj
    /\ UNCHANGED <<db, loaded, UserToServerIdsCache, Locals, raced>>

\* DownloadServerFromDB reads the rows into a new object; one whose members could not
\* be read it keeps with none ...
DownloadServerFromDB(th) ==
    /\ AtStep(th, "load")
    /\ servers
    /\ objects < MaxObjects
    /\ objects' = objects + 1
    /\ \/ Members' = [Members EXCEPT ![objects'] = server_members] /\ UNCHANGED raced
       \/ ReadFaults /\ raced' = UserIds /\ UNCHANGED Members
    /\ obj' = [obj EXCEPT ![th] = objects']
    /\ Advance(th)
    /\ UNCHANGED <<db, ServersMap, ConnectedUsers, UserToServerIdsCache, Locals>>

\* The server itself could not be read: the call ends.  Only AddServer, which does not look
\* at what AddChannel returns, and a disconnect that tells the members of it go on.
GoesOnWithout(th) ==
    \/ Op(th) = "createServer"
    \/ Op(th) = "disconnect" /\ \E i \in DOMAIN pc[th] : pc[th][i] = "mine"

DownloadServerFails(th) ==
    /\ AtStep(th, "load")
    /\ ReadFaults
    /\ IF GoesOnWithout(th) THEN Skip(th, 3) ELSE Finish(th)
    /\ UNCHANGED <<db, loaded, UserToServerIdsCache, Locals, obj, raced>>

\* ... and puts it in the map, in place of one that another thread has loaded by now.
InsertServer(th) ==
    /\ AtStep(th, "insert")
    /\ ServersMap' = obj[th]
    /\ raced' = IF ServersMap = 0 THEN raced ELSE UserIds
    /\ Advance(th)
    /\ UNCHANGED <<db, objects, Members, ConnectedUsers, UserToServerIdsCache, Locals, obj>>

(***************************************************************************)
(* Creating the server.                                                    *)
(***************************************************************************)
UploadNewServerToDB(th) ==
    /\ AtStep(th, "insertServer")
    /\ \/ servers' = TRUE /\ owner' = user[th] /\ Advance(th)
       \/ WriteFaults /\ UNCHANGED <<servers, owner>> /\ Finish(th)
    /\ UNCHANGED <<server_members, current_uses, loaded, UserToServerIdsCache, Locals, obj, raced>>

\* The owner's row: nobody looks at whether the INSERT succeeded.
UploadOwnerToDB(th) ==
    /\ AtStep(th, "uploadOwner")
    /\ \/ /\ server_members' = [server_members EXCEPT ![user[th]] = AllPermissions]
          /\ UNCHANGED raced
       \/ /\ WriteFaults
          /\ raced' = raced \cup {user[th]}
          /\ UNCHANGED server_members
    /\ Advance(th)
    /\ UNCHANGED <<servers, owner, current_uses, loaded, UserToServerIdsCache, Locals, obj>>

\* NewServer, which has the owner as its only member, replaces the object that was loaded
\* for the channels.
PutNewServer(th) ==
    /\ AtStep(th, "putServer")
    /\ objects < MaxObjects
    /\ objects' = objects + 1
    /\ Members' = [Members EXCEPT ![objects'][user[th]] = AllPermissions]
    /\ ServersMap' = objects'
    /\ obj' = [obj EXCEPT ![th] = objects']
    /\ Advance(th)
    /\ UNCHANGED <<db, ConnectedUsers, UserToServerIdsCache, Locals, raced>>

(***************************************************************************)
(* Joining by an invite.                                                   *)
(***************************************************************************)
\* SELECT ... FOR UPDATE and UPDATE in one transaction; an invite that is used up,
\* expired or deleted ends the call.
ConsumeInviteFromDB(th) ==
    /\ AtStep(th, "consume")
    /\ \/ current_uses < MaxUses /\ current_uses' = current_uses + 1 /\ Advance(th)
       \/ UNCHANGED current_uses /\ Finish(th)
    /\ UNCHANGED <<servers, owner, server_members, loaded, UserToServerIdsCache, Locals, obj, raced>>

\* AddUserToServer returns true at once for a member.
HasMember(th) == Members[obj[th]][user[th]] # NoRow

CheckMember(th) ==
    /\ \/ AtStep(th, "isMember") /\ ContinueIf(th, HasMember(th))
       \/ AtStep(th, "notMember") /\ ContinueIf(th, ~HasMember(th))
    /\ UNCHANGED <<db, loaded, UserToServerIdsCache, Locals, obj, raced>>

\* A statement on the user's row of the table, or its failure.
Statement(th, row) ==
    /\ \/ server_members' = [server_members EXCEPT ![user[th]] = row] /\ Advance(th)
       \/ WriteFaults /\ UNCHANGED server_members /\ Finish(th)
    /\ UNCHANGED <<servers, owner, current_uses, loaded, UserToServerIdsCache, Locals, obj, raced>>

SetMember(th, row) ==
    /\ Members' = [Members EXCEPT ![obj[th]][user[th]] = row]
    /\ Advance(th)
    /\ UNCHANGED <<db, ServersMap, objects, ConnectedUsers, UserToServerIdsCache, Locals, obj, raced>>

\* INSERT ... ON DUPLICATE KEY UPDATE: a new member has no permissions.
UploadMemberToDB(th) == AtStep(th, "upload") /\ Statement(th, 0)
AddMember(th) == AtStep(th, "addMember") /\ SetMember(th, 0)

\* Mutant: the cache entry stays.
InvalidateUserServers_Kept(th) ==
    /\ AtStep(th, "invalidate")
    /\ Advance(th)
    /\ UNCHANGED <<db, loaded, UserToServerIdsCache, Locals, obj, raced>>

InvalidateUserServers(th) ==
    /\ AtStep(th, "invalidate")
    /\ UserToServerIdsCache' = [UserToServerIdsCache EXCEPT ![user[th]] = "none"]
    /\ Advance(th)
    /\ UNCHANGED <<db, loaded, Locals, obj, raced>>

(***************************************************************************)
(* Leaving, being kicked, and permissions.                                 *)
(***************************************************************************)
RemoveMemberFromDB(th) == AtStep(th, "delete") /\ Statement(th, NoRow)
RemoveMember(th) == AtStep(th, "removeMember") /\ SetMember(th, NoRow)

\* Neither the UPDATE nor the object's setter does anything for a user who is no member.
UpdateMemberPermissionsInDB(th) ==
    /\ AtStep(th, "update")
    /\ Statement(th, IF server_members[user[th]] = NoRow THEN NoRow ELSE perm[th])

UpdateMemberPermissions(th) ==
    /\ AtStep(th, "setPermissions")
    /\ SetMember(th, IF HasMember(th) THEN perm[th] ELSE NoRow)

(***************************************************************************)
(* GetUserServerIds.                                                       *)
(***************************************************************************)
ReadUserServersCache(th) ==
    LET cached == UserToServerIdsCache[user[th]] IN
    /\ AtStep(th, "readCache")
    /\ IF cached = "none"
       THEN Advance(th) /\ UNCHANGED ids
       ELSE /\ ids' = [ids EXCEPT ![th] = cached]
            /\ Skip(th, 3)
    /\ UNCHANGED <<db, loaded, UserToServerIdsCache, user, perm, obj, online, raced>>

\* A SELECT that fails answers with no server, which is not cached.
SelectUserServers(th) ==
    /\ AtStep(th, "select")
    /\ \/ /\ ids' = [ids EXCEPT ![th] = IF server_members[user[th]] = NoRow THEN "out" ELSE "in"]
          /\ Advance(th)
          /\ UNCHANGED raced
       \/ /\ ReadFaults
          /\ ids' = [ids EXCEPT ![th] = "out"]
          /\ Skip(th, 2)
          /\ raced' = raced \cup {user[th]}
    /\ UNCHANGED <<db, loaded, UserToServerIdsCache, user, perm, obj, online>>

StoreUserServers(th) ==
    /\ AtStep(th, "store")
    /\ UserToServerIdsCache' = [UserToServerIdsCache EXCEPT ![user[th]] = ids[th]]
    /\ Advance(th)
    /\ UNCHANGED <<db, loaded, Locals, obj, raced>>

\* The callers go through the servers of the answer: here it is the one or none.
\* BroadcastMemberStatus looks it up for the status of the member, and then for the members.
Lookups(call) == IF call = "disconnect" THEN <<"get", "get">> ELSE <<"get">>

EachServer(th) ==
    /\ AtStep(th, "eachServer")
    /\ IF ids[th] = "in"
       THEN pc' = [pc EXCEPT ![th] = Lookups(Op(th)) \o Tail(@)]
       ELSE Advance(th)
    /\ UNCHANGED <<db, loaded, UserToServerIdsCache, Locals, obj, raced>>

(***************************************************************************)
(* The voice channel.                                                      *)
(***************************************************************************)
SetVoice(th, connected) ==
    /\ ConnectedUsers' = [ConnectedUsers EXCEPT ![obj[th]] = connected]
    /\ Advance(th)
    /\ UNCHANGED <<db, ServersMap, objects, Members, UserToServerIdsCache, Locals, obj, raced>>

JoinVoiceChannel(th) ==
    AtStep(th, "pushVoice") /\ SetVoice(th, ConnectedUsers[obj[th]] \cup {user[th]})

LeaveVoiceChannel(th) ==
    AtStep(th, "eraseVoice") /\ SetVoice(th, ConnectedUsers[obj[th]] \ {user[th]})

\* CleanupUserVoiceChannels looks only at the servers of the user, and there only at
\* the channels that list the user now.
CleanupUserVoiceChannels(th) ==
    /\ \/ AtStep(th, "mine") /\ ContinueIf(th, ids[th] = "in")
       \/ AtStep(th, "inVoice") /\ ContinueIf(th, user[th] \in ConnectedUsers[obj[th]])
    /\ UNCHANGED <<db, loaded, UserToServerIdsCache, Locals, obj, raced>>

(***************************************************************************)
(* The specification.                                                      *)
(***************************************************************************)
MemberStep(th) ==
    \/ GetServerById(th) \/ DownloadServerFromDB(th) \/ DownloadServerFails(th) \/ InsertServer(th)
    \/ UploadNewServerToDB(th) \/ UploadOwnerToDB(th) \/ PutNewServer(th)
    \/ ConsumeInviteFromDB(th) \/ CheckMember(th) \/ UploadMemberToDB(th) \/ AddMember(th)
    \/ InvalidateUserServers(th) \/ RemoveMemberFromDB(th) \/ RemoveMember(th)
    \/ UpdateMemberPermissionsInDB(th) \/ UpdateMemberPermissions(th)
    \/ ReadUserServersCache(th) \/ SelectUserServers(th) \/ StoreUserServers(th)
    \/ EachServer(th)
    \/ JoinVoiceChannel(th) \/ LeaveVoiceChannel(th) \/ CleanupUserVoiceChannels(th)
    \/ Reply(th)

MembershipNext ==
    \/ \E th \in Threads :
           \/ MemberStep(th)
           \/ \E call \in Ops, u \in UserIds, p \in Perms :
                  (call # "permissions" => p = 0) /\ Call(th, call, u, p)
    \/ \E u \in UserIds : Connect(u) \/ DisconnectUnnamed(u)

MembershipSpec == MembershipInit /\ [][MembershipNext]_membershipVars

(***************************************************************************)
(* Properties.                                                             *)
(***************************************************************************)
CacheFresh(u) ==
    UserToServerIdsCache[u] \in {"none", IF server_members[u] = NoRow THEN "out" ELSE "in"}

\* Table, loaded server and the user's cached server list agree on a user whenever no
\* call about the user is under way, whatever order the server's creation, joins, kicks,
\* permission changes and failing writes came in.  Only two conflicting calls that overlap,
\* two first loads of the server that do, a failed SELECT that passes for an empty answer
\* or an owner whose row could not be inserted can part them.
MembershipAgrees ==
    \A u \in UserIds : ~BusyWith(u) /\ u \notin raced =>
        /\ ServersMap # 0 => Members[ServersMap][u] = server_members[u]
        /\ CacheFresh(u)

\* A member whose socket has closed, and whose disconnect has been dealt with, is in no
\* voice channel, unless a conflicting call overlapped or a SELECT failed.
OfflineNotInVoice ==
    \A u \in UserIds :
        ~BusyWith(u) /\ u \notin raced /\ u \notin online /\ server_members[u] # NoRow
        /\ ServersMap # 0 => u \notin ConnectedUsers[ServersMap]

\* The copies of a membership and the voice channel are consistent between calls.
MembershipConsistent == MembershipTypeOK /\ MembershipAgrees /\ OfflineNotInVoice

\* Socket.cpp:393 "Auto-remove from all voice channels on disconnect": nobody whose
\* disconnect has been dealt with is listed in the voice channel.
DisconnectLeavesVoice ==
    \A u \in UserIds :
        ~BusyWith(u) /\ u \notin raced /\ u \notin online /\ ServersMap # 0 =>
            u \notin ConnectedUsers[ServersMap]
============================================================================
