--------------------------- MODULE ServerInvites ---------------------------
(***************************************************************************)
(* Invites to servers (FServersManager and the invite handlers of          *)
(* FServersSocketData): the table, the cache of codes, joining with a code *)
(* and what protects it, the hourly limits of RateLimits and the bans of   *)
(* InviteAbuse.  A code is drawn once and for one server, so the cache     *)
(* never names another server than the row.                                *)
(***************************************************************************)
EXTENDS RateLimits, InviteAbuse

CONSTANTS Users, Servers,
          Inviters,               \* who may create invites, members of every server
          InviteDefaultMaxUses, InviteDefaultExpiresInSeconds, InviteMaxExpiresInSeconds,
          MaxInvitesPerServer,
          AskedUses, AskedExpiry, \* inputs: what a creator asks for, 0 among them
          MaxCodes,               \* bound: codes drawn
          MaxInviteFaults         \* bound: statements that fail

ASSUME InvitesAssumption ==
    /\ Inviters \subseteq Users
    /\ Keys = Addresses
    /\ {InviteDefaultMaxUses, InviteDefaultExpiresInSeconds, InviteMaxExpiresInSeconds, MaxInvitesPerServer,
        MaxCodes, MaxInviteFaults} \subseteq Nat
    /\ AskedUses \cup AskedExpiry \subseteq Nat

VARIABLES
    server_invites,       \* table: a sequence in the order of creation; a deleted row keeps its place
    InviteCodeToServerId, \* the codes that are cached
    members,              \* user and server
    jo,                   \* per thread: its call
    admitted,             \* history: code -> those its uses let in
    miscounted,           \* history: a count of a server's invites failed
    invite_faults         \* counted up to their bound

inviteTables == <<server_invites, members>>
inviteVars == <<inviteTables, InviteCodeToServerId, jo, admitted, miscounted, invite_faults>>

Codes == 1..Len(server_invites)

\* user and server of the call, its code and page; cached: the code was in the cache;
\* dead: it was no good when the call began; stale: an invite came or went since.
NoInviteCall == [user |-> 0, server |-> 0, code |-> 0, dead |-> FALSE, cached |-> FALSE, stale |-> FALSE, total |-> 0, page |-> <<>>]

CreateInvite == <<"mayInvite", "countInvites", "uploadInvite", "cacheInvite">>
JoinViaInvite == <<"isBanned", "lookUp", "consumeInvite", "addUser", "clearAbuse">>
DeleteInvite == <<"mayInvite", "deleteRow", "uncacheInvite">>
ListInvites == <<"mayInvite", "countListed", "selectListed">>
InviteOps == {"createInvite", "joinInvite", "deleteInvite", "listInvites"}

Live(code) == ~server_invites[code].deleted
Expired(code) == server_invites[code].expires_at <= now
Usable(code) ==
    code # 0 /\ Live(code) /\ ~Expired(code) /\ server_invites[code].current_uses < server_invites[code].max_uses
ActiveInvites(s) == {c \in Codes : Live(c) /\ ~Expired(c) /\ server_invites[c].server = s}

Lifetime(asked) ==
    LET resolved == IF asked = 0 THEN InviteDefaultExpiresInSeconds ELSE asked
    IN IF resolved > InviteMaxExpiresInSeconds THEN InviteMaxExpiresInSeconds ELSE resolved

Invite(s, uses, lifetime) ==
    [server |-> s, max_uses |-> IF uses = 0 THEN InviteDefaultMaxUses ELSE uses, current_uses |-> 0,
     expires_at |-> now + Lifetime(lifetime), deleted |-> FALSE]

\* A backend that has started, with invites and with or without their codes in the cache.
InvitesStart(invites) ==
    /\ server_invites = invites
    /\ InviteCodeToServerId \in {{}, Codes}
    /\ members = Inviters \X Servers
    /\ jo = [th \in Threads |-> NoInviteCall]
    /\ admitted = [c \in Codes |-> {}]
    /\ miscounted = FALSE
    /\ invite_faults = 0

InviteFault == invite_faults < MaxInviteFaults /\ invite_faults' = invite_faults + 1

(***************************************************************************)
(* The handlers.                                                           *)
(***************************************************************************)
BeginInviteCall(th, op, rec) ==
    /\ jo' = [jo EXCEPT ![th] = rec]
    /\ UNCHANGED <<inviteTables, InviteCodeToServerId, admitted, miscounted, invite_faults, abuseVars>>

\* The attempt counts before the permission is looked at.
HandleServerCreateInvite(th, u, s, a) ==
    /\ Limited(th, "createInvite", a, CheckThenCount \o CreateInvite)
    /\ BeginInviteCall(th, "createInvite", [NoInviteCall EXCEPT !.user = u, !.server = s])

\* Of the codes that were drawn, or one that never was.
HandleServerJoinInvite(th, u, code, a) ==
    /\ Limited(th, "joinInvite", a, CheckThenCount \o JoinViaInvite)
    /\ BeginInviteCall(th, "joinInvite",
           [NoInviteCall EXCEPT !.user = u, !.code = code, !.dead = ~Usable(code)])

HandleServerDeleteInvite(th, u, s, code) ==
    /\ Enter(th, DeleteInvite, "deleteInvite")
    /\ BeginInviteCall(th, "deleteInvite", [NoInviteCall EXCEPT !.user = u, !.server = s, !.code = code])
    /\ UNCHANGED limitVars

HandleServerListInvites(th, u, s) ==
    /\ Enter(th, ListInvites, "listInvites")
    /\ BeginInviteCall(th, "listInvites", [NoInviteCall EXCEPT !.user = u, !.server = s])
    /\ UNCHANGED limitVars

InviteReply(th) ==
    /\ Busy(th) /\ Head(pc[th]) \in InviteOps
    /\ Finish(th)
    /\ jo' = [jo EXCEPT ![th] = NoInviteCall]
    /\ UNCHANGED <<inviteTables, InviteCodeToServerId, admitted, miscounted, invite_faults, abuseVars, limitVars>>

NoInviteFault == UNCHANGED <<miscounted, invite_faults>>
Aside == UNCHANGED <<limitVars, abuseVars>>

\* IsUserInServer and UserHasPermission.
UserHasPermission(th) ==
    /\ AtStep(th, "mayInvite")
    /\ AdvanceIf(th, jo[th].user \in Inviters)
    /\ UNCHANGED inviteVars /\ Aside

(***************************************************************************)
(* Creating an invite.                                                     *)
(***************************************************************************)
\* Mutant: one invite more.
GetActiveInviteCountForServer_OneMore(th) ==
    /\ AtStep(th, "countInvites")
    /\ AdvanceIf(th, MaxInvitesPerServer > 0 => Cardinality(ActiveInvites(jo[th].server)) <= MaxInvitesPerServer)
    /\ NoInviteFault
    /\ UNCHANGED <<inviteTables, InviteCodeToServerId, jo, admitted>> /\ Aside

\* A count that fails is none; a maximum of 0 is no maximum.
GetActiveInviteCountForServer(th) ==
    /\ AtStep(th, "countInvites")
    /\ \/ /\ AdvanceIf(th, MaxInvitesPerServer > 0 => Cardinality(ActiveInvites(jo[th].server)) < MaxInvitesPerServer)
          /\ NoInviteFault
       \/ MaxInvitesPerServer > 0 /\ InviteFault /\ Advance(th) /\ miscounted' = TRUE
    /\ UNCHANGED <<inviteTables, InviteCodeToServerId, jo, admitted>> /\ Aside

\* The lists of server s that are being read go stale.
Stale(s) == [th \in Threads |-> IF jo[th].server = s THEN [jo[th] EXCEPT !.stale = TRUE] ELSE jo[th]]

UploadInviteToDB(th) ==
    /\ AtStep(th, "uploadInvite")
    /\ \/ /\ Len(server_invites) < MaxCodes
          /\ \E uses \in AskedUses, lifetime \in AskedExpiry :
                 server_invites' = Append(server_invites, Invite(jo[th].server, uses, lifetime))
          /\ admitted' = Append(admitted, {})
          /\ jo' = [Stale(jo[th].server) EXCEPT ![th].code = Len(server_invites')]
          /\ Advance(th)
          /\ NoInviteFault
       \/ InviteFault /\ Return(th) /\ UNCHANGED <<server_invites, admitted, jo, miscounted>>
    /\ UNCHANGED <<members, InviteCodeToServerId>> /\ Aside

CacheInvite(th) ==
    /\ AtStep(th, "cacheInvite")
    /\ InviteCodeToServerId' = InviteCodeToServerId \cup {jo[th].code}
    /\ Advance(th)
    /\ UNCHANGED <<inviteTables, jo, admitted>> /\ NoInviteFault /\ Aside

(***************************************************************************)
(* Joining with a code.                                                    *)
(***************************************************************************)
RefuseBanned(th) ==
    /\ AtStep(th, "isBanned")
    /\ AdvanceIf(th, ~IsInviteAbuseBanned(key[th]))
    /\ UNCHANGED inviteVars /\ Aside

Rejected == <<"addAbuse", "joinInvite">>

\* A code that is cached and rejected is taken from the cache.
LookUpCode(th) ==
    /\ AtStep(th, "lookUp")
    /\ Advance(th)
    /\ jo' = [jo EXCEPT ![th].cached = jo[th].code \in InviteCodeToServerId]
    /\ UNCHANGED <<inviteTables, InviteCodeToServerId, admitted>> /\ NoInviteFault /\ Aside

Consume(th) ==
    /\ server_invites' = [server_invites EXCEPT ![jo[th].code].current_uses = @ + 1]
    /\ jo' = [jo EXCEPT ![th].server = server_invites[jo[th].code].server]
    /\ Advance(th)
    /\ UNCHANGED invite_faults

Reject(th) ==
    /\ pc' = [pc EXCEPT ![th] = (IF jo[th].cached THEN <<"forgetCode">> ELSE <<>>) \o Rejected]
    /\ UNCHANGED <<server_invites, jo>>

\* Mutant: a code that is cached is not looked up in the table.
ConsumeInviteFromDB_TrustsCache(th) ==
    /\ AtStep(th, "consumeInvite")
    /\ IF Usable(jo[th].code) \/ jo[th].cached THEN Consume(th)
       ELSE Reject(th) /\ UNCHANGED invite_faults
    /\ UNCHANGED <<members, InviteCodeToServerId, admitted, miscounted>> /\ Aside

\* One transaction; one that fails rejects the code.
ConsumeInviteFromDB(th) ==
    /\ AtStep(th, "consumeInvite")
    /\ \/ Usable(jo[th].code) /\ Consume(th)
       \/ ~Usable(jo[th].code) /\ Reject(th) /\ UNCHANGED invite_faults
       \/ InviteFault /\ Reject(th)
    /\ UNCHANGED <<members, InviteCodeToServerId, admitted, miscounted>> /\ Aside

ForgetCode(th) ==
    /\ AtStep(th, "forgetCode") \/ AtStep(th, "uncacheInvite")
    /\ InviteCodeToServerId' = InviteCodeToServerId \ {jo[th].code}
    /\ Advance(th)
    /\ UNCHANGED <<inviteTables, jo, admitted>> /\ NoInviteFault /\ Aside

RecordAbuse(th) ==
    /\ AtStep(th, "addAbuse")
    /\ AddInviteAbuseAttempt(key[th])
    /\ Advance(th)
    /\ UNCHANGED <<inviteVars, limitVars>>

\* Who is a member already succeeds as well; an INSERT that fails leaves the use consumed.
AddUserToServer(th) ==
    LET who == <<jo[th].user, jo[th].server>> IN
    /\ AtStep(th, "addUser")
    /\ \/ /\ members' = members \cup {who}
          /\ admitted' = IF who \in members THEN admitted ELSE [admitted EXCEPT ![jo[th].code] = @ \cup {who[1]}]
          /\ Advance(th)
          /\ UNCHANGED invite_faults
       \/ who \notin members /\ InviteFault /\ Return(th) /\ UNCHANGED <<members, admitted>>
    /\ UNCHANGED <<server_invites, InviteCodeToServerId, jo, miscounted>> /\ Aside

ClearAbuse(th) ==
    /\ AtStep(th, "clearAbuse")
    /\ ClearInviteAbuseForIp(key[th])
    /\ Advance(th)
    /\ UNCHANGED <<inviteVars, limitVars>>

(***************************************************************************)
(* Deleting and listing.                                                   *)
(***************************************************************************)
\* Only of the server the caller named.
DeleteInviteFromDB(th) ==
    LET found == Live(jo[th].code) /\ server_invites[jo[th].code].server = jo[th].server IN
    /\ AtStep(th, "deleteRow")
    /\ \/ /\ found
          /\ server_invites' = [server_invites EXCEPT ![jo[th].code].deleted = TRUE]
          /\ jo' = Stale(jo[th].server)
          /\ Advance(th)
          /\ UNCHANGED invite_faults
       \/ ~found /\ Return(th) /\ UNCHANGED <<server_invites, jo, invite_faults>>
       \/ InviteFault /\ Return(th) /\ UNCHANGED <<server_invites, jo>>
    /\ UNCHANGED <<members, InviteCodeToServerId, admitted, miscounted>> /\ Aside

\* Used up and expired ones too.
InvitesOf(s) == {c \in Codes : Live(c) /\ server_invites[c].server = s}

CountListed(th) ==
    /\ AtStep(th, "countListed")
    /\ jo' = [jo EXCEPT ![th].total = Cardinality(InvitesOf(jo[th].server)), ![th].stale = FALSE]
    /\ AdvanceIf(th, InvitesOf(jo[th].server) # {})
    /\ UNCHANGED <<inviteTables, InviteCodeToServerId, admitted>> /\ NoInviteFault /\ Aside

\* Newest first; a page as long as the count.
ListInvitesFromDB(th) ==
    LET found == InvitesOf(jo[th].server)
    IN /\ AtStep(th, "selectListed")
       /\ \E page \in [1..Cardinality(found) -> found] :
              /\ \A i, j \in DOMAIN page : i < j => page[i] > page[j]
              /\ jo' = [jo EXCEPT ![th].page = page]
       /\ Advance(th)
       /\ UNCHANGED <<inviteTables, InviteCodeToServerId, admitted>> /\ NoInviteFault /\ Aside

InviteStep(th) ==
    \/ UserHasPermission(th) \/ GetActiveInviteCountForServer(th) \/ UploadInviteToDB(th) \/ CacheInvite(th)
    \/ RefuseBanned(th) \/ LookUpCode(th) \/ ConsumeInviteFromDB(th) \/ ForgetCode(th) \/ RecordAbuse(th)
    \/ AddUserToServer(th) \/ ClearAbuse(th)
    \/ DeleteInviteFromDB(th) \/ CountListed(th) \/ ListInvitesFromDB(th)
    \/ InviteReply(th)
    \/ CountingStep(th) /\ UNCHANGED <<inviteVars, abuseVars>>

Joins(th, u) == \E code \in {0} \cup Codes, a \in Addresses : HandleServerJoinInvite(th, u, code, a)

Keeping(th, u) ==
    \E s \in Servers :
        \/ \E a \in Addresses : HandleServerCreateInvite(th, u, s, a)
        \/ HandleServerListInvites(th, u, s)

Deletes(th, u) == \E s \in Servers, code \in Codes : HandleServerDeleteInvite(th, u, s, code)

\* Everything but the tables goes.
InvitesRestart ==
    /\ pc' = Idle
    /\ jo' = [th \in Threads |-> NoInviteCall]
    /\ InviteCodeToServerId' = {}
    /\ FailedAttempts' = [a \in Addresses |-> {}]
    /\ BanUntil' = [a \in Addresses |-> 0]
    /\ failures' = [a \in Addresses |-> {}]
    /\ forgot' = {}
    /\ LimitsRestart
    /\ UNCHANGED <<now, inviteTables, admitted, miscounted, invite_faults, key>>

Clock == (Tick \/ PeriodicInviteAbuseCleanup) /\ UNCHANGED <<inviteVars, limitVars, pc>>

InvitesNext ==
    \/ \E th \in Threads : InviteStep(th) \/ \E u \in Users : Joins(th, u) \/ Deletes(th, u) \/ Keeping(th, u)
    \/ Clock \/ InvitesRestart
    \/ ResetRateLimits /\ UNCHANGED <<abuseVars, inviteVars>>

InvitesInit == LimitsInit /\ AbuseInit /\ InvitesStart(<<>>)
InvitesSpec == InvitesInit /\ [][InvitesNext]_<<pc, limitVars, abuseVars, inviteVars>>

(***************************************************************************)
(* Properties.                                                             *)
(***************************************************************************)
InvitesTypeOK ==
    /\ LimitsTypeOK /\ AbuseTypeOK
    /\ \A c \in Codes :
           /\ server_invites[c].server \in Servers
           /\ {server_invites[c].max_uses, server_invites[c].current_uses, server_invites[c].expires_at} \subseteq Nat
           /\ server_invites[c].deleted \in BOOLEAN
    /\ InviteCodeToServerId \subseteq Codes
    /\ members \subseteq Users \X Servers
    /\ \A th \in Threads :
           /\ jo[th].code \in {0} \cup Codes
           /\ \A i \in DOMAIN jo[th].page : jo[th].page[i] \in Codes
    /\ Len(admitted) = Len(server_invites)
    /\ \A c \in Codes : admitted[c] \subseteq Users
    /\ miscounted \in BOOLEAN
    /\ invite_faults \in 0..MaxInviteFaults

\* ServersManager.cpp:1638 "exceeding max_uses": a code lets in at most as many as it has uses,
\* whoever consumes it at once.
AdmittedWithinUses == \A c \in Codes : Cardinality(admitted[c]) <= server_invites[c].max_uses

\* docs/servers_api.md:937 "permanently removed and can no longer be used": a call that begins
\* after the invite was deleted, has expired or was used up lets nobody in, though the code
\* may still be cached.
DeadInviteAdmitsNobody == \A th \in Threads : AtStep(th, "addUser") => ~jo[th].dead

\* The count of a server's invites and the INSERT are two steps: the maximum can be passed,
\* but by no more than the threads that create at once, unless a count failed or there is no maximum.
InvitesNearlyCapped ==
    ~miscounted /\ MaxInvitesPerServer > 0 => \A s \in Servers :
        Cardinality(ActiveInvites(s)) <= MaxInvitesPerServer + Cardinality(Threads) - 1

\* docs/servers_api.md:967: a list has as many invites as its total says, each of the server
\* that was asked for, unless an invite of that server came or went between its two SELECTs.
ListHasTotal ==
    \A th \in Threads :
        AtStep(th, "listInvites") /\ ~jo[th].stale =>
            /\ Len(jo[th].page) \in {0, jo[th].total}
            /\ \A i \in DOMAIN jo[th].page : server_invites[jo[th].page[i]].server = jo[th].server

\* An invite admits whom it should and no more, and is listed as it is.
InvitesConsistent == InvitesTypeOK /\ AdmittedWithinUses /\ DeadInviteAdmitsNobody /\ ListHasTotal
=============================================================================
