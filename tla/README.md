# Formal models of the SquirrelCommunicator backend

TLA+ models of the C++ chat backend under `src/ProjectServer`, the TLC runs that
check them and the TLAPS proofs about them. Source paths below are relative to
`src/ProjectServer/Source/Private` unless they say otherwise.

How to run, in this directory:

    tlc -workers 2 -config SessionManager_main.cfg MCSessionManager.tla
    tlapm SessionManagerProofs.tla        (and the other seven *Proofs modules)

Each run of section 4 takes less than five minutes, each proof module less than half
an hour from nothing.

## 1. The system

One backend process serves a REST interface (Crow, many threads) and WebSockets
(uWebSockets, one thread and one `FSocket` per CPU). An engine thread runs
`FProjectEngine::PostSecondTick` once a second (`ProjectEngine.cpp:244-267`).
Managers keep their state in memory behind `std::shared_mutex`es and persist some
of it in MySQL through a pool of connections. Two Go services are called over HTTP:
the image service and the voice service. Nothing serialises the threads beyond each
manager's mutex, and almost no manager holds its mutex over two steps. What
can go wrong is therefore mostly of one kind: something is checked under one lock
and used under the next.

| Component | State | Operations | Talks to | Hard because |
|---|---|---|---|---|
| Sessions `Auth/SessionManager.cpp` | token→(user, expiry), user→tokens, cached clock | create, look up, verify, refresh, deactivate, sweep every 180 s | REST and socket threads, tick, worker, callback into user manager | two locks per call, `operator[]` re-inserts, callback after unlock |
| Image keys `Managers/ImageServiceManager.cpp` | key and issue time per session, failure times, breaker, instance id | register, read, revoke, probe | logins, socket connections, session callback, tick, image service | HTTP between locks, lost replies, service restarts, breaker |
| Transfer tokens `Auth/TransferTokenManager.cpp` | user→(token, expiry), token→user | create, check, look up, remove, clean-up | two REST endpoints | one redeem is three critical sections |
| Voice rooms `Managers/RoomsServiceManager.cpp` | token per room, breaker | check, create, read token | private and server socket handlers, voice service | find and store under two locks, HTTP between, restarts on both sides |
| Servers: membership `Managers/ServersManager.cpp`, `Server.cpp` | table `server_members`, loaded `FServer`s, cached server ids per user, voice `ConnectedUsers` | load, join by invite, leave, kick, permissions, voice join and leave, disconnect | socket threads, MySQL | four copies of one fact, changed one after the other |
| Servers: channels | table and object positions, sorted cache | create server, add, remove, move, reorder, rename | socket threads, MySQL | position computed from a SELECT, memory before table |
| Servers: messages | table, per-channel vector | add, page, delete, trim | socket threads, MySQL, tick | arrival order against id order, duplicated pages |
| Servers: invites | table, cached codes | create, join, delete, list | socket threads, MySQL, rate limiter | cap counted before the insert, codes cached past their end |
| Friend lists `Managers/FriendListManager.cpp` | two tables, two caches | send, accept, reject, cancel, remove | private socket handlers | check and insert apart, caches changed when the database failed |
| Conversations `Managers/ConversationsManager.cpp` | participants, messages | create, send, edit, delete, page | private socket handlers, friend lists | cache and table |
| Users `Auth/UserManager.cpp` | caches by id and mail, table | register, log in, rename, change and reset the password | everything | caches filled in steps, table written first |
| Email verification, password reset `Managers/` | pending codes and tokens | generate, validate, consume, clean up | REST | check and consume apart |
| Rate limits `AbuseProtection/` | counters, attempt windows, bans | check, count, reset | every handler | check and count apart |
| Database pool `DataBase/DataBaseConnect.cpp` | connections | lease, reconnect, keep alive, release | every manager | nested leases, leases that outlive the pool |
| Sockets and presence `Sockets/Socket.cpp` | per loop user→connection; status and socket of a user | connect, disconnect, defer, broadcast, stop | every manager | one entry per user, deferred pointers |
| REST endpoints, engine, settings, mail, Sentry | - | - | - | glue, I/O, configuration |

What makes each correct, in one line: sessions — both maps tell one story and an
ended session stays dead; image keys — a served key is known to the cache and dies
with its session; transfer tokens — the right user, and dead tokens stay dead; rooms —
the token handed out opens the room; membership — all copies agree once calls are done;
channels — positions are 0..n-1 in table and memory; messages — no loss, no
duplicate; friends — once each, and caches backed by the table; conversations — one per
couple, and memory holds the newest rows; users — objects, mails and table agree, and
passwords decide; mailed codes — an account or a reset needs the code that was sent;
rate limits — the limit, and one more for each thread, get through; invites — a dead
code admits nobody and a code no more than its uses; pool — every lease returns;
presence — who is connected is online, and friends are told.

`PROJECT.json` lists the components with what is modelled of each, and every hazard
found, at its line, with the properties that cover it.

## 2. The plan, and where it stands

A critical section, an SQL statement or an HTTP request is one step in all modules.
No module declares a RECURSIVE operator, so every one can be proved about.

| Modules | Modelled and checked | Proved |
|---|---|---|
| `SessionManager`, abstract `SessionRegistry` | yes | all safety, and the refinement |
| `ImageServiceManager`, `SessionKeys` (it composes the keys with the registry) | yes | all safety, of the parts and the whole |
| `TransferTokens`, `RoomsService` | yes | all safety |
| `RateLimits` | yes | all safety |
| `InviteAbuse`, `ServerInvites` | yes | all safety |
| `MailedCodes`, `UserAccounts` | yes | all safety |
| `DataBasePool` | yes | all safety but `OnlyNestedStuck` |
| `Presence` | yes | all safety |
| `ServerMembership`, `ServerMessages` | yes | all safety |
| `FriendLists`, `Conversations`, `ConversationMessages` | yes | all safety |
| `ServerChannels` | yes | no |

What would come next is `ServerChannels`; section 6 says what its proof would take.

## 3. The modules

**Calls** is what most components share: `pc[th]` is the sequence of steps a
thread has still to make, and its last element names the call. `Enter`, `Advance`,
`Leave`, `Return` and `Finish` begin a call, take a step, skip to a later one, go to
the end and end it. An early return of the code is a `Return` or `Leave`. **TokenCalls**
is the simpler control of the transfer tokens and the voice rooms, where `pc[th]` is the
next step. Both extend **CallThreads**, which declares the threads and `pc`.

**SessionManager.** `SessionIdToUserIdMap` maps a token to its record or
`NoSession`; `UserIdToSessionTokenMap` maps a user to the set of its tokens;
`CurrentTimeCached` is the clock the tick last read. `pc`, `arg` and `uid` hold each
request thread's next step, token and result. Authentication is the sequence
`FUserManager::VerifyToken`, `GetIdFromToken`, each a check and a lookup under two
locks; `operator[]` in the lookup re-inserts a session that is gone, and so does
`At`/`TouchAt` here. `Logout` and the sweep run `DeactivateSession`, removal under
the lock and the callback after it. A refresh is the liveness check the endpoint
performs. `owner` and `notified` are history.

**SessionRegistry** is what the session manager promises: tokens are opened once
for one user, and closed once, for good. `SessionManager!RegistrySpec` states the
refinement (`open <- At(t).UserId`).

**ImageServiceManager.** The cache (key and age per session), the negative cache, the
breaker and the probe's instance id, with the service beside them: the keys it has
registered and its instance number. A registration is: look in the cache, decide,
POST, record the outcome, store. Outcomes of a request include a reply that is lost
after the service acted. Ages are three values (`fresh`, `old` and so on) that timer
actions move on, so any relation of the configured durations is covered.

**SessionKeys** composes the registry and the image keys as `FUserManager` wires
them: a login opens a session and registers a key, a connection asks for the key, the
end of a session, which may come while its login still registers the key, revokes it.

**TransferTokens.** Both maps, the clock, and the two endpoints step by step; the
worker is behind the constant `WorkerRuns` because the program never calls the
`Init` that starts it. The run has it on, since the code is there.

**RoomsService.** `RoomNameToToken`, the breaker, and the sequence both socket
handlers make of `CheckRoom`, `CreateRoom`, `GetRoomToken`. The voice service holds a
token per room. Requests and replies may get lost; either program may restart.

**ServerMembership.** One server, which is enough because servers share only
mutexes. `server_members` is the table, `Members` the loaded objects, several of
them when two threads load at once, `UserToServerIdsCache` the cached answer of
`GetUserServerIds`, `ConnectedUsers` the voice channel. A call is the sequence
`Steps(call)` of its SQL statements and critical sections; early returns cut it
short. Writes and reads of the database may fail; a user who cannot be loaded
disconnects without a name and stays in voice (`DisconnectUnnamed`).

**ServerChannels.** `server_channels` (a row is its position and name), the `Channels`
of each loaded object with its `CachedSortedChannels`, and the handlers that create the
server, create, delete, move, reorder and rename channels. A position is read with
`MAX(position)` and written by a later statement; a reordering changes memory first and
then writes row after row, any of which may fail. A load whose channels fail caches the
server without them (`unlisted`).

**ServerMessages.** The rows of one channel and `ChannelMessages`, the vector of them
in memory. A page is taken from the vector's end and, when that has nothing to offer,
from it again after a download has appended rows one by one.

**FriendLists.** The tables `friend_requests` and `friend_list`, neither with a unique
key, as functions from pairs to the number of rows; the friends and the sent requests
that are cached, each with its download in two steps. **Conversations** extends it:
finding or creating the conversation of a couple, which starts with `IsFriend`.
**ConversationMessages** has the rows of one conversation and its `MessagesDeque`,
newest first, with posting, editing, deletion, pages and the retention trim.

**RateLimits.** Eight counters per key; a handler asks whether the key is blocked, finds
it or inserts it and counts; the worker empties the maps one after another.
**InviteAbuse** is the rolling window of failed attempts per address and the ban that
follows. **ServerInvites** composes both with the table of invites and the cache of
codes: a join is `isBanned`, `lookUp`, `consumeInvite`, `addUser`, `clearAbuse`, and
`Rejected` when the transaction on the row says no.

**MailedCodes** keeps pending registrations and reset tokens; codes are drawn from a
small set, so two may be the same. **UserAccounts** is the table `users`, the cached
objects, the map from mails to ids, and every endpoint that goes through `FUserManager`.
A password is a value; hashing is what makes two of them equal only when they are.

**Presence.** Per loop the map of open sockets by user, the `SocketId` and status in the
cached `FUser`, the notices one loop defers to another, and `FSocketManager::Stop`. A
loop runs one handler or deferred task at a time; handlers of two loops interleave. `late`
has the connections that were added to a map after `Stop` had copied it; `StopClosesAll`
excuses those and no others.
**DataBasePool.** Slots, who has leased them, which connections work; a call leases once,
a server load leases two more under its first, one after the other, and an update of a user
who is not cached one. The main thread maintains free slots and,
at shutdown, releases the pool last.

The external parts, modelled from how the code uses them, are the two Go services.
The MC modules hold symmetry sets and, where one run checks several components that
share threads only, the choice of the component (`part`), so that state spaces add up
instead of multiplying: `MCServerContent`, `MCPrivate`, `MCServerInvites`,
`MCUserAccounts`, `MCEngine`.

## 4. The runs

| Run | Question | Bounds |
|---|---|---|
| `session_main` | Do the two maps, the owners, the ends and the callbacks stay consistent, is the registry implemented, is every expired session swept? | 2 threads, 1 user, 2 tokens, clock 1..3 |
| `image_live` | Does the breaker close, do keys heal? | 1 thread, 1 session, 2 keys reused, 2 instances |
| `keys_safety` | Is what the cache holds and serves right in spite of faults, and does each key that was found at the end of a session die? | 2 threads, 1 user, 1 session, 3 keys, 2 instances |
| `transfer_safety` | Does a redeem log in the right user, do dead tokens stay dead? | 2 threads, 2 users, 2 tokens, clock 0..3, worker on |
| `rooms_main` | Is the token that is handed out the one the service admits, is it stable, does the breaker close? | 2 threads, 1 room, 3 tokens, 2 restarts |
| `membership_safety` | Do table, object, cache and voice agree? | 3 threads, 1 user, 3 objects, all statements may fail |
| `membership_voice` (violation) | Does a disconnect leave voice? | 2 threads, 1 user, 2 objects, no faults |
| `server_content` | Do positions, names and sorted lists agree, does memory hold the right messages, is a page complete? | 2 threads, 3 channels, 2 objects, 1 disturbance; 3 messages, pages and retention of 2 |
| `private_safety` | Are two friends, or in a conversation, once; are the limits kept; do caches and messages agree with the tables? | 2 threads, 3 users of whom 2 call, limits 1 and 2; 2 conversations; 3 posts, first page 2, lookback 1, retention 2; 1 fault each |
| `invites_safety` | Are attempts counted and limits nearly kept, do bans hold, whom does a code admit, is the cap nearly kept? | 2 threads, 1 address, 3 users of whom 1 invites, 2 servers, 3 codes, 1 fault, clock 1..3 |
| `accounts_safety` | Do objects, mails and table agree, do passwords and mailed codes decide? | 2 threads, 2 mails, 2 passwords, 2 names, 1 code, 2 users, 1 fault, clock 0..2 |
| `engine_safety` | Who is online, who hears of it, what does a shutdown close; does every lease return, who can be stuck? | 2 loops, 2 users one with two devices, 3 connections, or 2 and 1 fault; 2 loops and 1 REST thread, a pool of 2, 3 calls, or 2 and 1 crash |

*Why the bounds are enough.* Every race here is between two calls about the same
session, room, user or row, or a call and a worker: two threads and one or two items
produce each of them; `membership_safety` has three threads so that a
bystander's load or listing can fall between two calls. A second user or token is there where
mixing two up is the question, a third user where a list must have two entries. Two
instances or restarts give one before and one after; breaker threshold 1 trips on the
first failure, and the count above one only repeats a step. A clock bound (`MaxTime`)
leaves room for creation, expiry and a sweep after it. `MaxObjects` 2 is a
load and one that replaces it. Three messages with pages and a memory of two are the
first that do not fit. A pool of two is the least in which a server load can make all
its leases; a crash takes the place of one of three calls there, and three calls without one
fill the pool with nested leases while a third waits. One fault (`Max...Faults`, `MaxDisturbances`, `MaxCrashes`) is each
statement's in turn. Where proofs exist they depend on none of these numbers.

*What the constraints leave out.* `SomebodyNotRaced`, `Undoubted` and `Counted` do not
follow states in which a history variable has already given up every claim about what
went wrong. `MCServerContent`: a channel is renamed before the last one is created, and once
two posts have overlapped nobody posts any more. `MCUserAccounts`: time passes and restarts
happen between calls only (the theorems of section 6 let them happen at any moment), a fault
takes the place of a minute, nobody registers once two registrations of the mail have
overlapped and nobody resets while a password is in doubt. `MCServerInvites` restarts while
no call about invites runs (the theorems: at any moment). `MCEngine`: without a shutdown a
handshake that has begun is the next thing to end, and a SELECT that fails takes the place of
a connection; with one there is one connection less and no SELECT fails; of the pool's calls
there is one less when the database crashes. Where a theorem of section 6 states the
property, it holds without any of this.
Deadlock is not checked where calls are environment choices under a bound: once keys,
tokens or the clock are used up the system may rest.

*Excused overlaps.* Several properties claim nothing where two conflicting calls
overlapped, which history variables record: `raced` (membership), `renamed`, `dirty`,
`unlisted` (channels), `mixed`, `crossed` (messages), `doubted`, `doubled` (friends),
`overlapped`, `mixed_up`, `contested` (conversations), `alone` (rooms), `stale` (lists of
invites), `miscounted`, `forgot`. The code has no lock over a row and its cache, so
nothing can be claimed there. What the properties do claim covers any order of
complete calls, failures between a call's steps, and overlaps of calls that do not
conflict.

*Fairness.* The tick, the workers and threads in the middle of a call get weak fairness: the
operating system schedules them and every HTTP call has a 3 s timeout. Timers elapse
(weak fairness), and a stopped service is started again, which is an operator's
duty and stated as such. No fairness is given to users: where a property needs
clients that come back, it says so as a premise (`[]<>Asked`, `KeyHeals`). Only
`SessionManager`, `ImageServiceManager` and `RoomsService` state fairness; all other
specifications are safety only.

## 5. Where the code and what is said of it differ

`membership_voice` shows one as a run: leaving a server does not leave its voice
channel, and the clean-up at disconnect looks only at servers the user is still a
member of (`Sockets/ServersSocketData.cpp:602`). The user stays listed until the backend
restarts, although `Sockets/Socket.cpp:393` says "Auto-remove from all voice channels on
disconnect".

These are stated as definitions of the modules, which TLC refutes; no run of the
project checks them:

| Definition | What is said, and what happens instead |
|---|---|
| `SessionKeys!KeyDiesWithSession` | `ImageServiceManager.h:17-19`, a key dies with its session. `RegisterKey` stores the key after the HTTP call without asking whether the session still exists; a logout in between finds nothing to revoke. |
| `TransferTokens!ConsumedOnUse` | `docs/servers_api.md:262`, a token is consumed on use. The redeem ignores the result of `RemoveTransferToken`; two devices log in with one token. |
| `RoomsService!ProvisionedAdmits` | `PrivateSocketData.cpp:1297-1302`. `CreateRoomToken` does not look again under the unique lock; the second of two first joins overwrites the token the first has registered, and clients get one the service rejects. |
| `ServerChannels!CreatedListsChannels` | `ServersManager.cpp:221`. The default channels go to an object that the new one replaces in `ServersMap`. |
| `ServerMessages!NewestFirst` | `Server.cpp:307`. Downloaded rows are appended behind newer ones. |
| `FriendLists!ReceiverAccepts` | `docs/servers_api.md:409`. The sender can accept his own request. |
| `Conversations!NoGhost` | A conversation that could not be created is cached under id 0. |
| `ConversationMessages!PageWithoutRepetition` | `docs/servers_api.md:341`. A post during a page shifts the offset, and a message comes twice. |
| `RateLimits!HourlyLimit` | `docs/servers_api.md:912`. A key is blocked only beyond its limit, and check and count are two steps: limit + 1, and one for each further thread. |
| `InviteAbuse!FailuresAlwaysBan` | `docs/servers_api.md:913`. The clean-up of a ban that is over takes attempts made since with it. |
| `UserAccounts!ExpiredTokenRefused` | `PasswordResetManager.h:37,59`. `IsTokenValid` does not look at the expiry time. |

Further disagreements and oddities that were met:

- *Sessions and keys.* A refresh only checks that the session lives
  (`Auth/UserManager.cpp:367-370`; `docs/servers_api.md:103` speaks of extending it), and
  `FSessionManager::RefreshSessionToken` has no caller. Between `VerifyToken` and
  `GetIdFromToken` a logout lets a socket be accepted with user id 0
  (`Sockets/Socket.cpp:157-161`). `ImageServiceManager.h:70-72` and
  `RoomsServiceManager.cpp:94-96` say a half-open breaker lets a single call through;
  every concurrent caller passes. `ImageServiceManager.cpp:228-229` takes the first
  instance id it reads for the one all keys belong to; `KeyHeals` shows the keys recover
  all the same. After a backend restart the tokens of rooms the voice service still has
  are gone, and `GetRoomToken` answers with an empty string (`RoomsServiceManager.cpp:308`).
- *Servers.* `ServersManager.cpp:140-142` says the cached server list is never stale; a
  SELECT that a join or leave overtakes is stored after the invalidation. `AddServer`
  ignores a failed INSERT of the owner's row (`ServersManager.cpp:225`). An owner may leave
  his own server. `RemoveServer` has no caller.
- *Friends and conversations.* `MaxFriends` is never checked; requests of both directions
  may be pending at once. `addFriends` makes an incomplete cached list pass for a complete
  one (`FriendListManager.cpp:325`): whoever is missing from it is nobody's friend for the
  checks, a request of an old friend can be accepted again, and the couple has two rows in
  `friend_list` (`doubled` has the couples this may happen to). A friend list that is
  loaded without a database connection is cached empty (`FriendListManager.cpp:613-624`):
  until a restart nobody hears of that user's status, and `FriendsHearLast` excuses him.
  After a restart a cancel says "not found" until the list has been asked for.
  `GetUserFriendRequestListWhole` downloads the friend list. A
  conversation that is found is cached without its messages (`docs/servers_api.md:359`);
  one whose participants fail to download has nobody in it until a restart. A failed post
  is confirmed with id 0, an edit is broadcast although its UPDATE touched no row, a
  tombstone may be edited, and the lookback of 50 allows 51. The read notice goes to the
  reader himself; `Typing` dereferences a conversation that is not there; a post does not
  check membership.
- *Invites and limits.* Joining again consumes a use, clears the abuse record and is
  broadcast as a join; a use is consumed although the join fails; a failed statement
  counts as an abuse attempt. `VerifyIPAddressToLimits` is not used.
- *Users.* `change_name` and `change_password` report success whatever the manager
  returned; `users.email` has no unique key; a reset token is not consumed; changing or
  resetting a password leaves sessions alive; the display name is "4 to 109" in the docs
  and longer than 4 in the code; `LoginFromId` dereferences a user that may be null; an
  indicator SOCI did not set is read when no row is found.
- *Engine.* `DataBaseConnect.h:28-30,86-88` speaks of standalone connections where a full
  pool blocks. A server load holds a connection while it leases another
  (`ServersManager.cpp:1944`), and so do `UpdateUserActivity`, `UpdateUserName` and
  `UpdateUserPasswordInDataBase` for a user who is not cached (`UserManager.cpp:388`, 426 and
  799, which lease at 664); a first login gets there before it caches the user (248). As many
  of these calls as the pool has connections wait for each other for ever, and on a machine
  with one CPU a single one waits for itself. `OnlyNestedStuck` shows that a pool where
  nothing can go on is always of this kind, every slot lent to a thread that waits for a
  second one; that the maintenance starts again helps nobody and does not count as going on.
  `ProjectEngine.cpp:402` waits for REST for a bounded time
  only, so a request may outlive the pool. `FSocketManager::Stop` does not return when a
  user has two devices on a loop or a handshake ends after the copy
  (`SocketManager.h:36`). A stale "online" notice can reach a connection that opens while
  its friend goes, and a deferred task may hold the pointer of a closed connection.

## 6. Proofs

Each theorem holds for any sets of users, sessions, tokens, keys, rooms, servers,
addresses and threads (finite where something is counted per thread) and any durations,
limits, thresholds and numbers of faults and restarts, from the assumptions
on constants of its modules (`SessionAssumption` and so on) alone. The bounds of section
4 play no part: they are constants a theorem leaves open, or constraints of a run.

| Module | Theorem | Statement |
|---|---|---|
| `SessionManagerProofs` | `TypeCorrect` | `Spec => []TypeOK` |
| | `MapsNeverDisagree` | `Spec => []MapsAgree` |
| | `TokensKeepTheirOwner` | `Spec => []OwnerKept` |
| | `CallbackPerEndedSession` | `Spec => []EndedIffNotified` |
| | `SessionsStayConsistent` | `Spec => []SessionsConsistent`, the four together |
| | `EndedSessionsStayDead` | `Spec => []EndedStaysDead` |
| | `ImplementsRegistry` | `Spec => RegistrySpec` |
| `SessionKeysProofs`, the key manager | `TypeCorrect` | `Spec => []TypeOK` |
| | `KeyAndTimeAgree` | `Spec => []IssuedIffCached` |
| | `CachedKeysWork` | `Spec => []CachedKeyAccepted` |
| | `KeysStayConsistent` | `Spec => []KeysConsistent`, the three together |
| | `ServedKeysAreCached` | `Spec => ServedKeyIsCached` |
| | `WithdrawnKeysStayAway` | `Spec => WithdrawnNeverServed`, if keys are never drawn twice |
| `SessionKeysProofs`, with sessions | `ComposesBoth` | `SKSpec => Spec /\ Registry!Spec` |
| | `TypesTogether` | `SKSpec => []SKTypeOK` |
| | `SessionKeysStayConsistent` | `SKSpec => []SessionKeysConsistent` |
| | `WithdrawnKeysDie` | `SKSpec => []WithdrawnDeleted`, if keys are never drawn twice |
| `AccessProofs`, transfer tokens | `TransferTypesCorrect` | `TransferSpec => []TransferTypeOK` |
| | `RedeemIsForItsUser` | `TransferSpec => []RedeemsItsUser` |
| | `DeadTokensStayDead` | `TransferSpec => DeadStaysDead` |
| `AccessProofs`, rooms | `TypeCorrect` | `Spec => []TypeOK` |
| | `LoneCallAdmits` | `Spec => []ProvisionedAloneAdmits` |
| | `CachedTokenKept` | `Spec => TokenKept` |
| `AccessProofs`, membership | `MembershipStaysConsistent` | `MembershipSpec => []MembershipConsistent` |
| `ServerInvitesProofs`, rate limits | `LimitsTyped` | `LimitsSpec => []LimitsTypeOK` |
| | `NoAttemptIsLost` | `LimitsSpec => []NoAttemptLost` |
| | `LimitNearlyKept` | `LimitsSpec => []PassedBetweenResets` |
| `ServerInvitesProofs`, invites | `InvitesStayConsistent` | `InvitesSpec => []InvitesConsistent` |
| | `CapNearlyKept` | `InvitesSpec => []InvitesNearlyCapped` |
| | `FailuresAreBanned` | `InvitesSpec => []FailuresBan` |
| `ServerInvitesProofs`, messages | `MessagesStayConsistent` | `MessagesSpec => []MessagesConsistent` |
| | `DownloadedPagesComplete` | `MessagesSpec => DownloadedPageComplete` |
| `UserAccountsProofs` | `AccountsKeepInvariant` | `AccountsSpec => []AccountInv` |
| | `AccountsStayConsistent` | `AccountsSpec => []AccountsConsistent` |
| | `LoginsDecidedByPasswords` | `AccountsSpec => []PasswordsDecide` |
| | `MailsHaveOneAccount` | `AccountsSpec => []OneAccountPerMail` |
| | `CodesProveTheMail` | `AccountsSpec => []MailedCodesProve` |
| `EngineProofs`, the pool | `PoolStaysConsistent` | `PoolSpec => []PoolConsistent` |
| | `PoolReleasedWhenDone` | `PoolSpec => []ReleasedWhenDone` |
| `EngineProofs`, presence | `PresenceStaysConsistent` | `PresenceSpec => []PresenceConsistent` |
| | `FriendsHearThePresent` | `PresenceSpec => []FriendsHearLast` |
| | `StopLeavesNobodyReachable` | `PresenceSpec => []StopClosesAll` |
| `FriendProofs` | `FriendsStayConsistent` | `FriendsSpec => []FriendsConsistent` |
| | `FriendshipsBeginOnRequest` | `FriendsSpec => FriendsOnRequest` |
| | `RequestLimitsStayNearlyKept` | `FriendsSpec => []RequestLimitsNearlyKept` |
| `ConversationProofs`, conversations | `ConversationsStayConsistent` | `ConversationsSpec => []ConversationsConsistent` |
| | `ConversationsLeaveFriends` | `ConversationsSpec => []FriendsConsistent` |
| | `ConversationsBeginBetweenFriends` | `ConversationsSpec => FriendsConverse` |
| `ConversationProofs`, their messages | `HistoryStaysConsistent` | `ConversationMessagesSpec => []HistoryConsistent` |
| | `CallsKeepTheirPlaces` | `ConversationMessagesSpec => [](pc \in [Threads -> Places])` |

All follow one plan. An inductive invariant is a conjunction of named parts: types, what
the tables and maps owe each other, and what is true of a thread at each place of its call.
It holds initially; a lemma per action shows that the action keeps it; the properties are
read off it, an action property off it and the step. Where a call is a list of steps
(`pc[th]`), the proof names the ways a call may go and says at which place of which way
the thread is (`Rest(w, i)`), and the invariant says what is true there (`At(th, w, i)`).

*Sessions.* `MapsAgree`, `OwnerKept` and `EndedIffNotified` are not inductive, each alone:
a lookup by `operator[]` may insert an entry for a token that was never created, a
callback may be pending for one, and `CreateSession` would then meet it. `IInv` therefore
adds `FreshTokensAbsent` (a token no login has drawn is in neither map), `CallsOwned` (a
token in a thread's hands was drawn, and a call that has not looked up yet holds no user
id) and `SweepOwned` (the same for the sweep). Lemmas say what the two critical sections
that touch the first map do: `TouchKeepsUsers` (inserting the default entry changes
nobody's user) and `EraseUsers`. `EndedStaysDead` rests on the entry that `operator[]`
inserts having expiry 0, which the cached clock has passed. The refinement maps every
step to `Open`, `Close` or a stutter.

*Image keys.* `CachedKeyAccepted` would break if a DELETE, which is sent outside the
lock, hit a key that is cached again or elsewhere. `IInv` says that a key is in one
place at a time: in one session's entry, or with one thread on its way in (`store`) or
out (`breaker`, `delete`); that is `CacheApart`, `CacheThreadApart` and
`ThreadsApart`. It holds because the service draws keys nobody holds (`Unissued`),
for which `KnownIssued` says that a key somebody holds has been issued.
`IssuedByStarted` keeps keys of former instances from counting for a new one, and
`StoredKeyAccepted` carries acceptance from the POST to the store.
The two theorems about withdrawn keys assume `~ReuseKeys`, that the service's random keys
do not repeat; `ReuseKeys` is there because the liveness run cannot have infinitely many.

*Sessions and keys.* Every step of the composition is a step of the key manager and at
most one of the registry (`IsKeyManagerStep`, `IsRegistryStep`), so all that is proved of
the two holds of them together. `WithdrawnAccounted` then says of a withdrawn key the
service still accepts that the service could not be told, or a thread is about to.

*Transfer tokens.* A redeem looks the user up under one lock and logs in after
another. `IdMapFollowsDraws` says that the reverse map names the user a token was
drawn for or nobody, even when the user's entry has gone to a later token;
`CallsFollowDraws` says that a call past its lookup works on a token that was drawn,
so that no draw can give it another user. `DeadStaysDead` needs types only: a token is
stored once, before its create answers (`Answered`), and the clock only advances.

*Rooms.* `SharedIsKnown` (two calls for one room both know of the other) lets a lone
call rely on what it read: the cache is empty when it draws and holds the token it
sends (`AloneHolds`), and the service has the room with that token or has lost it
(`AloneServed`). `ChecksAreChecks` keeps a reply of an earlier request from being taken for the
outcome of this one.

*Membership.* The four copies of one fact are written one after the other, so they agree
only when nobody is at it. `MembershipInv` says who may be. For a user about whom no calls
conflicted (`Alone`: two of them at once would make him `raced`), the loaded object
has the value of the row, or one thread is about to write it (`Pending`, with the value
in `PendingRow`); the cached list of his servers is right, or one thread is about to
invalidate it (`Between`); and who has gone offline is out of the voice channel, or his
disconnect is still to come to it (these are `UserInv`). `ThreadInv` says what a call relies
on: it works on the object that is in the map, the ids it read are the actual ones, and an
object on its way into an empty map has the rows of everybody (`Inserting`). `Creation`
and `Unaware` say that before the creating call is through nobody else can have got to the
server, which is what protects its owner's row. One lemma is about all steps that write
neither a member's row nor an object (`Quiet`); each of the others has its own.

*Rate limits.* `NoAttemptLost` is an equation between a counter and the history of
attempts that the two steps of an insertion and the resets of other threads must keep.
For `PassedBetweenResets`, `PlacesLeft` says that whoever passed the check and has not yet
counted takes one of the places beyond the limit: the counter plus the places taken stays
within the limit, one more, and one for each further thread. The lemma `Effect` says
what one step does to counter and places.

*Invites.* A call goes one of five ways (`Ways`), a join whose code is rejected going on
as `reject`. `UsesOK` says of each code that the users it admitted and the calls between
`consumeInvite` and `addUser` are together no more than `current_uses`, and these no more
than `max_uses`: the transaction on the row counts, whatever the cache of codes says.
`CapOK` says that active invites and calls that have counted and not yet inserted
(`Creators`) are together at most the maximum and one less than the threads. Both are about
cardinalities of sets of threads, for which lemmas say what one thread's step does to
them. For the bans, `AbuseInv` says of each address that the record holds each failure
still in the window since the last success (`Remembered`) and that the ban reaches as far
as the failures demand (`BanSet`). In `InvitesSpec` time, cleanups, resets and restarts come
at any moment, also within calls.

*Users.* A call goes one of nine ways. `At` says at each of its places what the call holds:
that the row it was given exists (`Given`, `AboutUser`), what it has read of it (`InHand`),
which caches it has filled (`AtCaches`), and what the client has shown (`Proven`,
`Decided`: a login that will be granted saw the password of the row). With them are
`TablesOK`; `CacheOK` (a cached object is the row's, and where it differs in a name or
password some thread is about to set that); `MappedUserCached` (a mail in the map leads to
a cached object); `CodesOK` (a pending code was mailed to its address);
`OneAccountPerMail` and `InsertsOK` (who is about to insert a row is the only one, and there
is none with that mail, unless calls about it overlapped). One lemma per
action shows that it keeps all of it. `AccountsSpec` allows time and restarts at any moment,
also within calls, where the run has them between calls only.

*Pool.* `ThreadOK` says at each place of a call how many leases the thread has and that
they are lent to it and to nobody else; `MainOK` the same of the thread that maintains
free slots; `ShutdownOK` how far the shutdown is. From these, every lease is accounted for,
a connection in use works unless the database went away since it was validated, and the
pool is released when no socket loop is in a call, and no REST thread unless the bounded
wait for it ran out.

*Presence.* The properties speak of quiet moments, so `PresenceInv` has to say what is true
of every handler at every step (`At`, `Opening`, `Closing`). `Entries`: an entry leads to an
open connection of its loop, or the close handler of that user is about to take it out
(`Removing`). `SocketWritten` and `StatusWritten`: a socket or the status Online stands in
an object only while the user has a connection or a close handler that will write it
away; one that has found no cached object has nothing to take out. `Single` follows a user with one connection at a time through his
handler: map, socket and status are written as far as it has come. `Owed` says of each
connection that has to hear of a friend that it can be reached and that a handler of his
is still going to tell it, or that the last word it will get, from the queue of its loop or
already (`HearsLast`), is the present status; `OwedOffline`, which holds for users with
several connections too, covers what is left of this while connections overlap and
end. `Stopping` says of each loop whose map Stop has copied that every entry is about to
be closed, by Stop, by a task in the queue or by the handler, or is `late`. That `Loops` is not empty
(`GetNumberOfLogicalCPU` is at least 1) is the one assumption the proof adds.

*Messages of a conversation.* `DequeIsNewest` holds because ids, position in the deque and
the number of rows stay in step: `Newest` states it with `Pending`, which is 1 while a row is
in the table and not yet in the deque, and `Posted` that this row is then the last one.
`Apart` says which calls do not overlap while `mixed_up` is false. `Shows` says of each
message that memory agrees with its row, or is contested, or a thread is about to change it;
`Change` adds that such a thread has written the status it is going to show, or that memory
still agrees. `ChangesApart` keeps two such threads on different messages, and off the one
being posted. `Downloaded` and `Page` say what the rows and answers in a thread's hands
hold. The lemmas `FromToIs`, `DownloadIs`, `FoundIs`, `PassedIs` and `AnswerIs` say what the
SELECT, the two searches of the deque and the assembled page yield; in a deque that is in
order the early end of the search for an edit misses nothing (`PassedIs`).

*Messages of a server.* A row enters memory by a push, which is a step later than its
insertion, or in a downloaded page, and is marked deleted a step later than in the
table. `RowsApart` says that a row on its way to a push is no tombstone and nobody
deletes it. `MemoryInv` is about the vector while no download was mixed with a post or a
deletion: a message is in it once (`EntriesApart`) and shows what the row shows, or somebody
is about to mark it (`Marking`). `Downloads` says of a page that is being appended that the
last entries of the vector together with the rows still to come are a page of the table.
`MemoryIsRecent` counts the rows on their way (`OnTheirWay`). `DownloadedPageComplete` then
follows at the second look at the vector by counting: the entries older than the time stamp
are the page and no more, so the newest of them are exactly it.

*Friends.* `FriendsInv` says, of each couple that is not in `doubt`, what table, cache and
calls owe each other. A cached request has its row, or a thread is about to erase it
(`RequestsAgree`, `Erasing`); a cached list that is complete names a friend as often as the
table has the couple, counting the call that has accepted and not added yet (`Owed`),
unless he is about to be erased (`Removing`): that is `FriendsAgree`. `Alone` and
`DownloadsAlone` say that two calls which write of one couple at once, or one while a list
of its users is downloaded, have put the couple in doubt; `Downloads` that what a thread has
downloaded is what the tables hold. `Trusted` is what a call has found out and goes by:
that there is a request, that there is none, that the couple has no row.
`FriendsOnRequest` reads it at the step that inserts a friendship. For the limits,
`LimitsInv` counts the senders that have passed the check and not inserted yet as rows;
sums over the users are cardinalities of sets of rows (`RequestRows`), which can be reasoned
about where a fold cannot.

*Conversations.* The module adds calls to `FriendLists`, and the proof goes on from
`FriendsInv`: what the new steps leave alone stays (`ConversationsLeaveFriends`).
`RegistryInv` holds its claims while no two creations overlapped: lists and caches
name the conversations of the tables as far as they have come (`ListsAgree`,
`CachesAgree`), a couple has one conversation at most (`OneDirect`), a call that is going to
create one knows there is none (`NoneYet`), and the participants appear one after the other
(`BeingCreated`, `KnownUsers`). For `FriendsConverse`, `ConverseInv` follows what a
creation relies on: who is cached or read as a friend is one (`CachedAreFriends`,
`ReadAreFriends`), so a call past its check is about friends (`OfFriends`), unless one was
being removed meanwhile.

*Only model-checked.* Liveness (`ExpiredSwept`, `BreakerCloses`, `KeyHeals`) and
`OnlyNestedStuck`, which is about ENABLED, are out of the prover's reach. Of the safety
properties, `ChannelsConsistent` is left to TLC for the work it would take: an invariant over
some forty places of the six calls, and lemmas about permutations and sorted lists for the
reorderings and `CachedSortedChannels`.

## 7. What is not modelled

- Settings, mail, Sentry: configuration that is read once, and I/O.
  `SetCircuitBreakerSettings` is called at start, so its values are constants.
- argon2, Crow, uWebSockets, SOCI, cpr and the engine library are third-party.
- REST endpoints beyond what they do with the managers: parsing, status codes, headers.
- Typing and read notices, which change no state.
- Data races inside a container (`operator[]` under a shared lock) are undefined
  behaviour; the insertion is modelled as atomic and the hazard recorded.
- The cached clock does not go backwards; it is read from `system_clock`, which an
  operator could set back.
- Message formats, logging, validation of lengths and formats.
