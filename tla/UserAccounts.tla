---------------------------- MODULE UserAccounts ----------------------------
(***************************************************************************)
(* Accounts (FUserManager and the endpoints that call it): the table       *)
(* users, the objects cached of it and the map from mails to ids, with     *)
(* login, registration, login by a third party, changes of name and        *)
(* password and the reset of a password.  The codes that are mailed are in *)
(* MailedCodes, the sessions a login ends with in SessionKeys.             *)
(*                                                                         *)
(* An object that is cached stays until the backend stops, and is never    *)
(* replaced: a thread that downloads a user who was cached meanwhile goes  *)
(* on with an object of its own.  A SELECT that finds no row is taken to   *)
(* say so, as the code takes it, and validated input to be valid.          *)
(***************************************************************************)
EXTENDS Calls, MailedCodes, SequencesExt

CONSTANTS MaxUsers,         \* bound: rows of the table
          MaxAccountFaults  \* bound: statements that fail

\* 0 marks what is not there: it is no mail and no password.
ASSUME AccountsAssumption ==
    /\ {MaxUsers, MaxAccountFaults} \subseteq Nat
    /\ 0 \notin Mails /\ 0 \notin Passwords

VARIABLES
    users,               \* table: rows in the order of their ids
    UserDataBaseCache,   \* id -> what the cached object says
    UserMailToUserIdMap, \* mail -> id, or 0
    acc,                 \* per thread: its call
    doubted,             \* history, since the start: ids written while another thread wrote the same or
                         \* held a row it had not cached
    overlapped,          \* history: mails two threads registered at once
    submitted,           \* history: mail, code and password of the registrations
    account_faults       \* counted up to their bound

accountDoubts == <<doubted, overlapped, submitted>>
accountVars == <<users, UserDataBaseCache, UserMailToUserIdMap, acc, accountDoubts, account_faults>>

Ids == 1..MaxUsers
NoRow == [email |-> 0, username |-> 0, password |-> 0]
NoPassword == 0 \* of accounts a third party vouches for
UserRow == [email : Mails, username : Names, password : Passwords \cup {NoPassword}]

\* mail, field and value: the arguments; id: the user, whose object is mine (or first, for one
\* that GetUsersByIds returned) or, when that is NoRow, the cached one; good: the passwords a
\* login may pass with; in: it did; failed: a statement of it did.
NoAccountCall ==
    [mail |-> 0, field |-> "password", value |-> 0, old |-> 0, code |-> 0, id |-> 0, found |-> FALSE,
     mine |-> NoRow, first |-> NoRow, good |-> {}, in |-> FALSE, failed |-> FALSE]

GetUsersByIds == <<"lookUp", "selectById", "emplace">>
AddUserToCache == <<"cacheUser", "mapUser">>
FindUserByMail == <<"findMapped", "isKnown", "selectByMail">> \o AddUserToCache
UpdateUser == <<"update">> \o GetUsersByIds \o <<"set">>
RegisterUser == <<"isTaken", "insert">> \o AddUserToCache
LoginCached == <<"verify", "touch">> \o GetUsersByIds
LoginUser == <<"findCached", "selectByMail">> \o LoginCached \o AddUserToCache
LoginIntegration == FindUserByMail \o <<"orRegister">> \o RegisterUser \o FindUserByMail \o <<"loginMapped">>

\* A backend that has started on rows of users.
AccountsStart(rows) ==
    /\ users = rows
    /\ UserDataBaseCache = [i \in Ids |-> NoRow]
    /\ UserMailToUserIdMap = [m \in Mails |-> 0]
    /\ acc = [th \in Threads |-> NoAccountCall]
    /\ doubted = {}
    /\ overlapped = {}
    /\ submitted = {}
    /\ account_faults = 0

Registered(mail) == {i \in DOMAIN users : users[i].email = mail}

\* The thread has written the table and not yet its object.
Writing(th) == Contains(pc[th], "set") /\ ~Contains(pc[th], "update")

AccountFault == account_faults < MaxAccountFaults /\ account_faults' = account_faults + 1

(***************************************************************************)
(* The endpoints.                                                          *)
(***************************************************************************)
Begin(th, rec) ==
    /\ acc' = [acc EXCEPT ![th] = rec]
    /\ UNCHANGED <<users, UserDataBaseCache, UserMailToUserIdMap, doubted, overlapped, account_faults>>

\* What is the password while it is being written, or is doubted, is anybody's guess.
Login(th, mail, password) ==
    LET settled == \A i \in Registered(mail) :
                       i \notin doubted /\ \A o \in Threads : ~(Writing(o) /\ acc[o].id = i)
    IN /\ Enter(th, LoginUser, "login")
       /\ Begin(th, [NoAccountCall EXCEPT !.mail = mail, !.value = password,
                        !.good = IF settled THEN {users[i].password : i \in Registered(mail)}
                                 ELSE Passwords \cup {NoPassword}])
       /\ UNCHANGED <<codeVars, submitted>>

\* Google or Microsoft vouch for the mail.
Integrate(th, mail, username) ==
    /\ Enter(th, LoginIntegration, "integrate")
    /\ Begin(th, [NoAccountCall EXCEPT !.mail = mail, !.old = username, !.value = NoPassword])
    /\ UNCHANGED <<codeVars, submitted>>

Register(th, mail, username, password) ==
    /\ Enter(th, FindUserByMail \o <<"generateCode">>, "register")
    /\ Begin(th, [NoAccountCall EXCEPT !.mail = mail, !.old = username, !.value = password])
    /\ UNCHANGED <<codeVars, submitted>>

RegisterVerify(th, mail, code) ==
    /\ Enter(th, <<"validateCode">> \o RegisterUser \o <<"consumeCode">>, "registerVerify")
    /\ Begin(th, [NoAccountCall EXCEPT !.mail = mail, !.code = code])
    /\ UNCHANGED <<codeVars, submitted>>

\* id: of the session; old: the password the user says is the current one.
ChangePassword(th, id, old, password) ==
    /\ Enter(th, GetUsersByIds \o <<"verifyOld">> \o UpdateUser, "changePassword")
    /\ Begin(th, [NoAccountCall EXCEPT !.id = id, !.old = old, !.value = password])
    /\ UNCHANGED <<codeVars, submitted>>

ChangeName(th, id, username) ==
    /\ Enter(th, UpdateUser, "changeName")
    /\ Begin(th, [NoAccountCall EXCEPT !.id = id, !.field = "username", !.value = username, !.found = TRUE])
    /\ UNCHANGED <<codeVars, submitted>>

ResetPassByMail(th, mail) ==
    /\ Enter(th, FindUserByMail \o <<"generateToken">>, "reset")
    /\ Begin(th, [NoAccountCall EXCEPT !.mail = mail])
    /\ UNCHANGED <<codeVars, submitted>>

ResetPassByMailVerify(th, mail, token, password) ==
    /\ Enter(th, <<"validateToken">> \o FindUserByMail \o UpdateUser, "resetVerify")
    /\ Begin(th, [NoAccountCall EXCEPT !.mail = mail, !.code = token, !.value = password])
    /\ UNCHANGED <<codeVars, submitted>>

AccountOps == {"login", "integrate", "register", "registerVerify", "changePassword", "changeName", "reset", "resetVerify"}

AccountReply(th) ==
    /\ Busy(th) /\ Head(pc[th]) \in AccountOps
    /\ Finish(th)
    /\ Begin(th, NoAccountCall)
    /\ UNCHANGED <<codeVars, submitted>>

(***************************************************************************)
(* Finding a user: by id, by mail.                                         *)
(***************************************************************************)
Keep == UNCHANGED <<users, accountDoubts, codeVars>>
Set(th, rec) == acc' = [acc EXCEPT ![th] = rec]
NotFound(th) == [acc[th] EXCEPT !.found = FALSE]
Failed(th) == [acc[th] EXCEPT !.found = FALSE, !.failed = TRUE]

LookUp(th) ==
    /\ AtStep(th, "lookUp")
    /\ IF UserDataBaseCache[acc[th].id] # NoRow
       THEN Set(th, [acc[th] EXCEPT !.found = TRUE, !.first = NoRow]) /\ Leave(th, "emplace")
       ELSE UNCHANGED acc /\ Advance(th)
    /\ UNCHANGED <<UserDataBaseCache, UserMailToUserIdMap, account_faults>> /\ Keep

SelectById(th) ==
    /\ AtStep(th, "selectById")
    /\ \/ /\ Set(th, [acc[th] EXCEPT !.found = TRUE, !.first = users[acc[th].id]])
          /\ Advance(th)
          /\ UNCHANGED account_faults
       \/ AccountFault /\ Set(th, Failed(th)) /\ Leave(th, "emplace")
    /\ UNCHANGED <<UserDataBaseCache, UserMailToUserIdMap>> /\ Keep

\* Mutant: what is cached is replaced.
Emplaced_Replaces(id, row) == [UserDataBaseCache EXCEPT ![id] = row]

\* What is cached stays.
Emplaced(id, row) == [UserDataBaseCache EXCEPT ![id] = IF @ = NoRow THEN row ELSE @]

\* What is left of an object of one's own: none when it is the one that is cached.
Own(id, row) == IF UserDataBaseCache[id] = NoRow THEN NoRow ELSE row

Emplace(th) ==
    /\ AtStep(th, "emplace")
    /\ UserDataBaseCache' = Emplaced(acc[th].id, acc[th].first)
    /\ Set(th, [acc[th] EXCEPT !.first = Own(acc[th].id, @)])
    /\ Advance(th)
    /\ UNCHANGED <<UserMailToUserIdMap, account_faults>> /\ Keep

FindMapped(th) ==
    LET id == UserMailToUserIdMap[acc[th].mail] IN
    /\ AtStep(th, "findMapped")
    /\ IF id # 0
       THEN Set(th, [acc[th] EXCEPT !.id = id, !.found = TRUE]) /\ Leave(th, "mapUser")
       ELSE UNCHANGED acc /\ Advance(th)
    /\ UNCHANGED <<UserDataBaseCache, UserMailToUserIdMap, account_faults>> /\ Keep

\* Is there a row of the mail to download?
IsKnown(th) ==
    /\ AtStep(th, "isKnown")
    /\ \/ Registered(acc[th].mail) # {} /\ Advance(th) /\ UNCHANGED <<acc, account_faults>>
       \/ Registered(acc[th].mail) = {} /\ Set(th, NotFound(th)) /\ Leave(th, "mapUser") /\ UNCHANGED account_faults
       \/ AccountFault /\ Set(th, Failed(th)) /\ Leave(th, "mapUser")
    /\ UNCHANGED <<UserDataBaseCache, UserMailToUserIdMap>> /\ Keep

\* The first row of those that have the mail.
DownloadUserFromDBByMail(th) ==
    /\ AtStep(th, "selectByMail")
    /\ \/ /\ \E i \in Registered(acc[th].mail) :
                 Set(th, [acc[th] EXCEPT !.found = TRUE, !.id = i, !.mine = users[i]])
          /\ UNCHANGED account_faults
       \/ Registered(acc[th].mail) = {} /\ Set(th, NotFound(th)) /\ UNCHANGED account_faults
       \/ AccountFault /\ Set(th, Failed(th))
    /\ Advance(th)
    /\ UNCHANGED <<UserDataBaseCache, UserMailToUserIdMap>> /\ Keep

\* First the object, then its mail: two critical sections.
CacheUser(th) ==
    /\ AtStep(th, "cacheUser") \/ AtStep(th, "mapUser")
    /\ IF ~acc[th].found THEN UNCHANGED <<UserDataBaseCache, UserMailToUserIdMap, acc>>
       ELSE IF AtStep(th, "cacheUser")
       THEN /\ UserDataBaseCache' = Emplaced(acc[th].id, acc[th].mine)
            /\ Set(th, [acc[th] EXCEPT !.mine = Own(acc[th].id, @)])
            /\ UNCHANGED UserMailToUserIdMap
       ELSE /\ UserMailToUserIdMap' = [UserMailToUserIdMap EXCEPT ![acc[th].mail] = IF @ = 0 THEN acc[th].id ELSE @]
            /\ UNCHANGED <<UserDataBaseCache, acc>>
    /\ Advance(th)
    /\ UNCHANGED account_faults /\ Keep

(***************************************************************************)
(* Login.                                                                  *)
(***************************************************************************)
\* Who was in the cache is not mapped.
FindCached(th) ==
    LET cached == {i \in Ids : UserDataBaseCache[i].email = acc[th].mail} IN
    /\ AtStep(th, "findCached")
    /\ \/ /\ \E i \in cached : Set(th, [acc[th] EXCEPT !.found = TRUE, !.id = i])
          /\ pc' = [pc EXCEPT ![th] = Append(LoginCached, Op(th))]
       \/ cached = {} /\ UNCHANGED acc /\ Advance(th)
    /\ UNCHANGED <<UserDataBaseCache, UserMailToUserIdMap, account_faults>> /\ Keep

PasswordHash(th) ==
    IF acc[th].mine = NoRow THEN UserDataBaseCache[acc[th].id].password ELSE acc[th].mine.password

VerifyPasswords(th) ==
    /\ AtStep(th, "verify")
    /\ IF acc[th].found /\ PasswordHash(th) = acc[th].value
       THEN Set(th, [acc[th] EXCEPT !.in = TRUE]) /\ Advance(th)
       ELSE UNCHANGED acc /\ Return(th)
    /\ UNCHANGED <<UserDataBaseCache, UserMailToUserIdMap, account_faults>> /\ Keep

\* It caches the user it updates.  The second one, of OnLoginSuccessful, finds the user cached.
UpdateUserActivity(th) ==
    /\ AtStep(th, "touch")
    /\ \/ Advance(th) /\ UNCHANGED <<acc, account_faults>>
       \/ AccountFault /\ Leave(th, "emplace") /\ UNCHANGED acc
    /\ UNCHANGED <<UserDataBaseCache, UserMailToUserIdMap>> /\ Keep

LoginMapped(th) ==
    /\ AtStep(th, "loginMapped")
    /\ Set(th, [acc[th] EXCEPT !.in = @ \/ acc[th].found, !.id = UserMailToUserIdMap[acc[th].mail]])
    /\ Advance(th)
    /\ UNCHANGED <<UserDataBaseCache, UserMailToUserIdMap, account_faults>> /\ Keep

(***************************************************************************)
(* Registration.                                                           *)
(***************************************************************************)
\* A user who was found logs in; one who was not is registered, if the name will do.
OrRegister(th) ==
    /\ AtStep(th, "orRegister")
    /\ \/ acc[th].found /\ pc' = [pc EXCEPT ![th] = <<"loginMapped", "integrate">>]
       \/ ~acc[th].found /\ (Advance(th) \/ Return(th))
    /\ UNCHANGED <<UserDataBaseCache, UserMailToUserIdMap, acc, account_faults>> /\ Keep

\* Mutant: a question the database did not answer is answered with no.
DoesUserWithMailExists_FailsOpen(th) ==
    /\ AtStep(th, "isTaken")
    /\ overlapped' = IF \E o \in Threads \ {th} : AtStep(o, "insert") /\ acc[o].mail = acc[th].mail
                     THEN overlapped \cup {acc[th].mail} ELSE overlapped
    /\ \/ AdvanceIf(th, Registered(acc[th].mail) = {}) /\ UNCHANGED <<acc, account_faults>>
       \/ AccountFault /\ Set(th, Failed(th)) /\ Advance(th)
    /\ UNCHANGED <<users, UserDataBaseCache, UserMailToUserIdMap, doubted, submitted, codeVars>>

DoesUserWithMailExists(th) ==
    /\ AtStep(th, "isTaken")
    /\ overlapped' = IF \E o \in Threads \ {th} : AtStep(o, "insert") /\ acc[o].mail = acc[th].mail
                     THEN overlapped \cup {acc[th].mail} ELSE overlapped
    /\ \/ AdvanceIf(th, Registered(acc[th].mail) = {}) /\ UNCHANGED <<acc, account_faults>>
       \/ AccountFault /\ Set(th, Failed(th)) /\ Return(th)
    /\ UNCHANGED <<users, UserDataBaseCache, UserMailToUserIdMap, doubted, submitted, codeVars>>

Row(th) == [email |-> acc[th].mail, username |-> acc[th].old, password |-> acc[th].value]

\* Logins under way may pass with these as well.
NowGood(mail, passwords) ==
    [th \in Threads |-> IF Busy(th) /\ Op(th) = "login" /\ acc[th].mail = mail
                        THEN [acc[th] EXCEPT !.good = @ \cup passwords] ELSE acc[th]]

\* Mutant: the registration is looked up again, and may be another by now.
UploadUserToDataBase_Rereads(th) ==
    LET row == [Row(th) EXCEPT !.password = IF Op(th) = "registerVerify"
                                            THEN MailToPendingRegistration[acc[th].mail].password ELSE @]
    IN /\ AtStep(th, "insert")
       /\ Len(users) < MaxUsers
       /\ users' = Append(users, row)
       /\ acc' = [NowGood(row.email, {NoPassword, row.password}) EXCEPT ![th] =
                     [acc[th] EXCEPT !.id = Len(users) + 1, !.mine = row, !.found = TRUE]]
       /\ Advance(th)
       /\ UNCHANGED <<UserDataBaseCache, UserMailToUserIdMap, accountDoubts, account_faults, codeVars>>

\* The table has no unique key but the id.
UploadUserToDataBase(th) ==
    /\ AtStep(th, "insert")
    /\ \/ /\ Len(users) < MaxUsers
          /\ users' = Append(users, Row(th))
          /\ acc' = [NowGood(acc[th].mail, {NoPassword, acc[th].value}) EXCEPT ![th] =
                        [acc[th] EXCEPT !.id = Len(users) + 1, !.mine = Row(th), !.found = TRUE]]
          /\ Advance(th)
          /\ UNCHANGED account_faults
       \/ AccountFault /\ Set(th, Failed(th)) /\ Return(th) /\ UNCHANGED users
    /\ UNCHANGED <<UserDataBaseCache, UserMailToUserIdMap, accountDoubts, codeVars>>

GenerateCode(th) ==
    /\ AtStep(th, "generateCode")
    /\ IF acc[th].found THEN UNCHANGED <<codeVars, submitted>>
       ELSE \E code \in Codes :
                /\ GenerateVerificationCode(acc[th].mail, acc[th].old, acc[th].value, code)
                /\ submitted' = submitted \cup {<<acc[th].mail, code, acc[th].value>>}
    /\ Advance(th)
    /\ UNCHANGED <<users, UserDataBaseCache, UserMailToUserIdMap, acc, doubted, overlapped, account_faults>>

ValidateCode(th) ==
    LET pending == MailToPendingRegistration[acc[th].mail] IN
    /\ AtStep(th, "validateCode")
    /\ IF CodeValid(acc[th].mail, acc[th].code)
       THEN Set(th, [acc[th] EXCEPT !.old = pending.username, !.value = pending.password]) /\ Advance(th)
       ELSE UNCHANGED acc /\ Return(th)
    /\ UNCHANGED <<UserDataBaseCache, UserMailToUserIdMap, account_faults>> /\ Keep

Consume(th) ==
    /\ AtStep(th, "consumeCode")
    /\ ConsumeCode(acc[th].mail, acc[th].code)
    /\ Advance(th)
    /\ UNCHANGED accountVars

(***************************************************************************)
(* Changes and resets.                                                     *)
(***************************************************************************)
VerifyOld(th) ==
    LET hash == IF acc[th].first = NoRow THEN UserDataBaseCache[acc[th].id].password ELSE acc[th].first.password IN
    /\ AtStep(th, "verifyOld")
    /\ AdvanceIf(th, acc[th].found /\ hash = acc[th].old)
    /\ UNCHANGED <<UserDataBaseCache, UserMailToUserIdMap, acc, account_faults>> /\ Keep

\* Another thread writes the same, or has a row it will cache.
Doubtful(th) ==
    \E o \in Threads \ {th} :
        /\ acc[o].id = acc[th].id
        /\ \/ Writing(o) /\ acc[o].field = acc[th].field
           \/ UserDataBaseCache[acc[th].id] = NoRow /\ (AtStep(o, "emplace") \/ acc[o].mine # NoRow)

\* Nobody but a user who was found is updated.
UpdateInDB(th) ==
    LET id == acc[th].id IN
    /\ AtStep(th, "update")
    /\ \/ /\ acc[th].found
          /\ users' = [users EXCEPT ![id][acc[th].field] = acc[th].value]
          /\ acc' = IF acc[th].field = "password" THEN NowGood(users[id].email, {acc[th].value}) ELSE acc
          /\ doubted' = IF Doubtful(th) THEN doubted \cup {id} ELSE doubted
          /\ Advance(th)
          /\ UNCHANGED account_faults
       \/ ~acc[th].found /\ Return(th) /\ UNCHANGED <<users, acc, doubted, account_faults>>
       \/ AccountFault /\ acc[th].found /\ Set(th, Failed(th)) /\ Return(th) /\ UNCHANGED <<users, doubted>>
    /\ UNCHANGED <<UserDataBaseCache, UserMailToUserIdMap, overlapped, submitted, codeVars>>

\* Mutant: the object is downloaded and found as it is, and not set.
SetObject_Trusts(th) ==
    /\ AtStep(th, "set")
    /\ Advance(th)
    /\ UNCHANGED <<UserDataBaseCache, UserMailToUserIdMap, acc, account_faults>> /\ Keep

\* The cached object, or one that nobody else sees.
SetObject(th) ==
    /\ AtStep(th, "set")
    /\ UserDataBaseCache' =
           IF acc[th].found /\ acc[th].first = NoRow
           THEN [UserDataBaseCache EXCEPT ![acc[th].id][acc[th].field] = acc[th].value]
           ELSE UserDataBaseCache
    /\ Advance(th)
    /\ UNCHANGED <<UserMailToUserIdMap, acc, account_faults>> /\ Keep

GenerateToken(th) ==
    /\ AtStep(th, "generateToken")
    /\ IF acc[th].found THEN \E token \in Codes : GenerateResetToken(acc[th].mail, token)
       ELSE UNCHANGED codeVars
    /\ Advance(th)
    /\ UNCHANGED accountVars

ValidateResetToken(th) ==
    /\ AtStep(th, "validateToken")
    /\ AdvanceIf(th, ResetTokenValid(acc[th].mail, acc[th].code))
    /\ UNCHANGED <<UserDataBaseCache, UserMailToUserIdMap, acc, account_faults>> /\ Keep

(***************************************************************************)
(* The specification.                                                      *)
(***************************************************************************)
AccountStep(th) ==
    \/ LookUp(th) \/ SelectById(th) \/ Emplace(th)
    \/ FindMapped(th) \/ IsKnown(th) \/ DownloadUserFromDBByMail(th) \/ CacheUser(th)
    \/ FindCached(th) \/ VerifyPasswords(th) \/ UpdateUserActivity(th) \/ LoginMapped(th)
    \/ OrRegister(th) \/ DoesUserWithMailExists(th) \/ UploadUserToDataBase(th)
    \/ GenerateCode(th) \/ ValidateCode(th) \/ Consume(th)
    \/ VerifyOld(th) \/ UpdateInDB(th) \/ SetObject(th)
    \/ GenerateToken(th) \/ ValidateResetToken(th)
    \/ AccountReply(th)

\* Everything but the table goes, calls under way with it.
AccountsRestart ==
    /\ pc' = Idle
    /\ UserDataBaseCache' = [i \in Ids |-> NoRow]
    /\ UserMailToUserIdMap' = [m \in Mails |-> 0]
    /\ MailToPendingRegistration' = [m \in Mails |-> NoPending]
    /\ TokenToStructureMap' = [c \in Codes |-> NoToken]
    /\ acc' = [th \in Threads |-> NoAccountCall]
    /\ issued' = {}
    /\ doubted' = {}
    /\ UNCHANGED <<now, users, overlapped, submitted, account_faults>>

Signs(th, m) == \E p \in Passwords : Login(th, m, p)

Changes(th) ==
    \E i \in DOMAIN users :
        \/ \E n \in Names : ChangeName(th, i, n)
        \/ \E old, p \in Passwords : old # p /\ ChangePassword(th, i, old, p)

Registers(th, m, n) ==
    \/ Integrate(th, m, n)
    \/ \E p \in Passwords : Register(th, m, n, p)
    \/ \E c \in Codes : RegisterVerify(th, m, c)

Resets(th, m) ==
    \/ ResetPassByMail(th, m)
    \/ \E c \in Codes, p \in Passwords : ResetPassByMailVerify(th, m, c, p)

\* Any number of users and calls, a restart at any moment.
AccountsInit ==
    /\ pc = Idle /\ now = 0 /\ NoCodes
    /\ users \in Seq(UserRow) /\ Len(users) <= MaxUsers
    /\ \A i, j \in DOMAIN users : users[i].email = users[j].email => i = j
    /\ AccountsStart(users)

AccountCall(th) ==
    \/ Changes(th)
    \/ \E m \in Mails : Signs(th, m) \/ Resets(th, m) \/ \E n \in Names : Registers(th, m, n)

AccountNext ==
    \/ \E th \in Threads : AccountCall(th) \/ AccountStep(th)
    \/ AccountsRestart
    \/ CodesClock /\ UNCHANGED <<pc, accountVars>>

AccountsSpec == AccountsInit /\ [][AccountNext]_<<pc, codeVars, accountVars>>

(***************************************************************************)
(* Properties.                                                             *)
(***************************************************************************)
AccountsTypeOK ==
    /\ MailedCodesTypeOK
    /\ users \in Seq(UserRow) /\ Len(users) <= MaxUsers
    /\ UserDataBaseCache \in [Ids -> UserRow \cup {NoRow}]
    /\ UserMailToUserIdMap \in [Mails -> {0} \cup Ids]
    /\ \A th \in Threads :
           /\ acc[th].id \in {0} \cup DOMAIN users
           /\ acc[th].mine \in UserRow \cup {NoRow} /\ acc[th].first \in UserRow \cup {NoRow}
    /\ doubted \subseteq Ids /\ overlapped \subseteq Mails
    /\ account_faults \in 0..MaxAccountFaults

\* UserManager.cpp:797 "Update cache": the cached object says what the row says when nobody is
\* writing it, however names, passwords, logins, failures and restarts overlapped; but for users
\* who were written by two threads at once, or while another thread had a row of theirs in hand.
CachedUserCurrent ==
    \A i \in Ids \ doubted :
        \/ UserDataBaseCache[i] = NoRow
        \/ \E th \in Threads : Writing(th) /\ acc[th].id = i
        \/ UserDataBaseCache[i] = users[i]

\* A mail that is mapped has its user cached: LoginIntegration reads UserDataBaseCache[Id]
\* (UserManager.cpp:295) without looking whether it is there.
MappedUserCached ==
    \A m \in Mails : UserMailToUserIdMap[m] # 0 => UserDataBaseCache[UserMailToUserIdMap[m]].email = m

\* The two caches of users are consistent with the table and with each other.
AccountsConsistent == AccountsTypeOK /\ CachedUserCurrent /\ MappedUserCached

\* A login passes with a password that was the account's during the call: one that was changed or
\* reset before is dead, and an account without a password is not entered with any.
RevokedPasswordDead ==
    \A th \in Threads : AtStep(th, "touch") => acc[th].value \in acc[th].good \/ acc[th].id \in doubted

\* docs/servers_api.md:72: a login with the password the account had all the while is not refused,
\* unless a statement of it failed.
RightPasswordAdmits ==
    \A th \in Threads :
        AtStep(th, "login") /\ acc[th].good = {acc[th].value} /\ ~acc[th].failed =>
            acc[th].in \/ acc[th].id \in doubted

\* A login is decided by the passwords the account had during the call, both ways.
PasswordsDecide == RevokedPasswordDead /\ RightPasswordAdmits

\* UserManager.cpp:104 "Check if mail is taken": a mail has one account, unless two threads
\* registered it at once.
OneAccountPerMail ==
    \A i, j \in DOMAIN users : i # j /\ users[i].email = users[j].email => users[i].email \in overlapped

\* EmailVerificationManager.h:29: an account gets the password that was submitted with the code
\* that verified it, not that of another registration of the same mail.
AccountAsVerified ==
    \A th \in Threads :
        Busy(th) /\ Op(th) = "registerVerify" /\ acc[th].mine # NoRow =>
            <<acc[th].mail, acc[th].code, acc[th].mine.password>> \in submitted

\* PasswordResetManager.h:37: a reset is under way only for an account whose mail was sent a token since the
\* start, though tokens of different mails may be the same.
ResetOnlyWhereAsked ==
    \A th \in Threads :
        Writing(th) /\ Op(th) = "resetVerify" => users[acc[th].id].email \in issued

\* Nothing is created or reset but what a code in the hands of the mail's owner stands for.
MailedCodesProve == AccountAsVerified /\ ResetOnlyWhereAsked

\* PasswordResetManager.h:37 "Check if token is valid", :59 "Time for each token generate while
\* it's active": a token that has expired is refused.  (The code does not look at the time.)
ExpiredTokenRefused ==
    [][\A th \in Threads :
           AtStep(th, "validateToken") /\ pc'[th] = Tail(pc[th]) => now <= TokenToStructureMap[acc[th].code].expires]_<<pc, codeVars, accountVars>>
=============================================================================
