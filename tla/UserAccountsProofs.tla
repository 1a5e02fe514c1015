------------------------- MODULE UserAccountsProofs -------------------------
(***************************************************************************)
(* Proofs about UserAccounts for every set of threads, mails, names,       *)
(* passwords and codes.                                                    *)
(***************************************************************************)
EXTENDS UserAccounts, SequenceTheorems, TLAPS

(***************************************************************************)
(* The ways a call may go, and its steps on each.                          *)
(***************************************************************************)
Ways == {"login", "loginCached", "integrate", "register", "registerVerify",
         "changePassword", "changeName", "reset", "resetVerify"}

Steps(w) ==
    CASE w = "login" -> Append(LoginUser, "login")
      [] w = "loginCached" -> Append(LoginCached, "login")
      [] w = "integrate" -> Append(LoginIntegration, "integrate")
      [] w = "register" -> Append(FindUserByMail \o <<"generateCode">>, "register")
      [] w = "registerVerify" -> Append(<<"validateCode">> \o RegisterUser \o <<"consumeCode">>, "registerVerify")
      [] w = "changePassword" -> Append(GetUsersByIds \o <<"verifyOld">> \o UpdateUser, "changePassword")
      [] w = "changeName" -> Append(UpdateUser, "changeName")
      [] w = "reset" -> Append(FindUserByMail \o <<"generateToken">>, "reset")
      [] OTHER -> Append(<<"validateToken">> \o FindUserByMail \o UpdateUser, "resetVerify")

StepNames ==
    AccountOps \cup
    {"lookUp", "selectById", "emplace", "findMapped", "isKnown", "selectByMail", "cacheUser", "mapUser",
     "findCached", "verify", "touch", "loginMapped", "orRegister", "isTaken", "insert", "generateCode",
     "validateCode", "consumeCode", "verifyOld", "update", "set", "generateToken", "validateToken"}

Ends(w) == Len(Steps(w))
OpOf(w) == IF w = "loginCached" THEN "login" ELSE w

\* What is left of a way from its i-th step.
Rest(w, i) == SubSeq(Steps(w), i, Ends(w))

(***************************************************************************)
(* The invariant: what is true of the tables and of each thread at its     *)
(* place.                                                                  *)
(***************************************************************************)
Changing(w) == w \in {"changePassword", "changeName"}
LoggingIn(w) == w \in {"login", "loginCached"}

\* Behind the UPDATE, up to the step that sets the object.
WritingAt(w, i) ==
    \/ w = "changePassword" /\ i \in 6..9
    \/ w = "changeName" /\ i \in 2..5
    \/ w = "resetVerify" /\ i \in 8..11

\* What the call was given.
Given(th, w, i) ==
    /\ acc[th].field = IF w = "changeName" THEN "username" ELSE "password"
    /\ w = "changeName" => acc[th].value \in Names
    /\ w \in {"login", "loginCached", "register", "changePassword", "resetVerify"} => acc[th].value \in Passwords
    /\ ~Changing(w) => acc[th].mail \in Mails
    /\ w = "resetVerify" => acc[th].code \in Codes
    /\ w \in {"integrate", "register"} \/ (w = "registerVerify" /\ i \in 2..6) =>
           acc[th].old \in Names /\ acc[th].value \in Passwords \cup {NoPassword}

\* The user the call is about: where there is one for sure, and where it has the mail.
KnownAt(w, i) ==
    \/ Changing(w) \/ w = "loginCached"
    \/ w = "login" /\ i \in 4..9
    \/ w = "resetVerify" /\ i \in 8..11

AboutUser(th, w, i) ==
    /\ acc[th].id \in {0} \cup DOMAIN users
    /\ KnownAt(w, i) => acc[th].id # 0
    /\ KnownAt(w, i) /\ ~Changing(w) => users[acc[th].id].email = acc[th].mail
    /\ acc[th].found /\ ~Changing(w) /\ ~(w = "integrate" /\ i = 17) => acc[th].id # 0 /\ users[acc[th].id].email = acc[th].mail

\* A row in hand would be cached as it is in the table, unless it is doubted.
Fresh(row, id) == row.email = users[id].email /\ (id \in doubted \/ row = users[id])
Uncached(th) == acc[th].id # 0 /\ UserDataBaseCache[acc[th].id] = NoRow

InHand(th, w, i) ==
    /\ acc[th].mine \in UserRow \cup {NoRow} /\ acc[th].first \in UserRow \cup {NoRow}
    /\ acc[th].mine # NoRow /\ Uncached(th) => Fresh(acc[th].mine, acc[th].id)
    /\ Changing(w) \/ w = "loginCached" \/ (w = "login" /\ i \in 1..2) \/ (w = "resetVerify" /\ i \in 1..4) =>
           acc[th].mine = NoRow
    /\ w = "resetVerify" /\ i = 5 /\ ~acc[th].found => acc[th].mine = NoRow
    /\ w = "resetVerify" /\ i \in 6..12 /\ acc[th].mine # NoRow => ~Uncached(th)
    /\ w = "login" /\ ((i = 3 /\ acc[th].found) \/ i \in 4..7) => acc[th].mine # NoRow
    /\ w = "loginCached" => ~Uncached(th)

\* At the steps that cache a user, map a mail or set an object.
AtCaches(th, w, i) ==
    /\ Steps(w)[i] = "emplace" => acc[th].first # NoRow /\ acc[th].found /\ (Uncached(th) => Fresh(acc[th].first, acc[th].id))
    /\ Steps(w)[i] = "cacheUser" /\ acc[th].found /\ Uncached(th) => acc[th].mine # NoRow
    /\ Steps(w)[i] = "mapUser" /\ acc[th].found => ~Uncached(th)
    /\ Steps(w)[i] = "set" /\ acc[th].found /\ acc[th].first = NoRow => ~Uncached(th)
    /\ WritingAt(w, i) => acc[th].id \in doubted \/ users[acc[th].id][acc[th].field] = acc[th].value

\* At the steps that need a code.
Proven(th, w, i) ==
    /\ w = "registerVerify" /\ i \in 2..6 => <<acc[th].mail, acc[th].code, acc[th].value>> \in submitted
    /\ w = "registerVerify" /\ acc[th].mine # NoRow => <<acc[th].mail, acc[th].code, acc[th].mine.password>> \in submitted
    /\ w = "resetVerify" /\ i \in 2..11 => acc[th].mail \in issued

\* good holds the passwords of the account there have been since the call began.
Wide(th) == Passwords \cup {NoPassword} \subseteq acc[th].good
Covers(th) ==
    \A j \in Registered(acc[th].mail) \ doubted :
        /\ users[j].password \in acc[th].good
        /\ UserDataBaseCache[j] # NoRow => UserDataBaseCache[j].password \in acc[th].good
Another(th) == (\E x \in acc[th].good : x # acc[th].value) \/ (acc[th].good = {} /\ Registered(acc[th].mail) = {})

Decided(th, w, i) ==
    LoggingIn(w) =>
        /\ Wide(th) \/ Covers(th)
        /\ Wide(th) \/ acc[th].mine = NoRow \/ acc[th].id \in doubted \/ acc[th].mine.password \in acc[th].good
        /\ w = "login" /\ i \in 1..2 => Another(th) \/ Registered(acc[th].mail) # {}
        /\ w = "login" /\ i = 3 => acc[th].found \/ acc[th].failed \/ Another(th)
        /\ w = "loginCached" /\ i = 1 => acc[th].found
        /\ Steps(w)[i] = "touch" => acc[th].value \in acc[th].good \/ acc[th].id \in doubted
        /\ (w = "login" /\ i \in 4..9) \/ (w = "loginCached" /\ i \in 2..5) => acc[th].in
        /\ i = Ends(w) => acc[th].in \/ acc[th].failed \/ acc[th].id \in doubted \/ Another(th)

At(th, w, i) ==
    /\ Given(th, w, i) /\ AboutUser(th, w, i) /\ InHand(th, w, i)
    /\ AtCaches(th, w, i) /\ Proven(th, w, i) /\ Decided(th, w, i)

ThreadOK(th) ==
    \/ pc[th] = <<>> /\ acc[th] = NoAccountCall
    \/ \E w \in Ways : \E i \in 1..Ends(w) : pc[th] = Rest(w, i) /\ At(th, w, i)

\* The thread will set the cached object.
SetsLater(th) ==
    Writing(th) /\ (AtStep(th, "lookUp") \/ (AtStep(th, "set") /\ acc[th].found /\ acc[th].first = NoRow))

CacheOK ==
    /\ \A i \in Ids : UserDataBaseCache[i] # NoRow =>
           i \in DOMAIN users /\ UserDataBaseCache[i].email = users[i].email
    /\ \A i \in Ids \ doubted, f \in {"username", "password"} :
           UserDataBaseCache[i] # NoRow =>
               \/ UserDataBaseCache[i][f] = users[i][f]
               \/ \E th \in Threads : SetsLater(th) /\ acc[th].id = i /\ acc[th].field = f

CodesOK ==
    /\ \A m \in Mails :
           MailToPendingRegistration[m] # NoPending =>
               <<m, MailToPendingRegistration[m].code, MailToPendingRegistration[m].password>> \in submitted
    /\ \A c \in Codes : TokenToStructureMap[c] # NoToken => TokenToStructureMap[c].mail \in issued

\* Who is about to insert a row of a mail.
Inserting(th) == AtStep(th, "insert")
InsertsOK ==
    /\ \A th \in Threads : Inserting(th) => Registered(acc[th].mail) = {} \/ acc[th].mail \in overlapped
    /\ \A th, o \in Threads :
           Inserting(th) /\ Inserting(o) /\ th # o /\ acc[th].mail = acc[o].mail => acc[th].mail \in overlapped

CallRecord ==
    [mail : Mails \cup {0}, field : {"username", "password"}, value : Passwords \cup Names \cup {0},
     old : Passwords \cup Names \cup {0}, code : Codes \cup {0}, id : {0} \cup Ids, found : BOOLEAN,
     mine : UserRow \cup {NoRow}, first : UserRow \cup {NoRow}, good : SUBSET (Passwords \cup {NoPassword}),
     in : BOOLEAN, failed : BOOLEAN]

TablesOK ==
    /\ MailedCodesTypeOK
    /\ users \in Seq(UserRow) /\ Len(users) <= MaxUsers
    /\ UserDataBaseCache \in [Ids -> UserRow \cup {NoRow}]
    /\ UserMailToUserIdMap \in [Mails -> {0} \cup Ids]
    /\ doubted \subseteq Ids /\ overlapped \subseteq Mails
    /\ account_faults \in 0..MaxAccountFaults
    /\ pc \in [Threads -> Seq(StepNames)] /\ acc \in [Threads -> CallRecord]

AccountInv ==
    /\ TablesOK /\ CacheOK /\ MappedUserCached /\ CodesOK /\ OneAccountPerMail /\ InsertsOK
    /\ \A th \in Threads : ThreadOK(th)

(***************************************************************************)
(* The steps of each way, and what is left of one.                         *)
(***************************************************************************)
LEMMA LoginSteps ==
  /\ Ends("login") = 10
  /\ LET s == Steps("login") IN
    /\ s[1] = "findCached" /\ s[2] = "selectByMail" /\ s[3] = "verify" /\ s[4] = "touch"
    /\ s[5] = "lookUp" /\ s[6] = "selectById" /\ s[7] = "emplace" /\ s[8] = "cacheUser"
    /\ s[9] = "mapUser" /\ s[10] = "login"
  <1> DEFINE s == Steps("login")
  <1>1. Ends("login") = 10
    BY SMTT(30) DEF Ends, Steps, LoginUser, LoginCached, GetUsersByIds, AddUserToCache
  <1>2. /\ s[1] = "findCached" /\ s[2] = "selectByMail" /\ s[3] = "verify" /\ s[4] = "touch"
    /\ s[5] = "lookUp" /\ s[6] = "selectById" /\ s[7] = "emplace" /\ s[8] = "cacheUser"
    /\ s[9] = "mapUser" /\ s[10] = "login"
    BY SMTT(30) DEF Steps, LoginUser, LoginCached, GetUsersByIds, AddUserToCache
  <1> QED BY <1>1, <1>2

LEMMA LoginCachedSteps ==
  /\ Ends("loginCached") = 6
  /\ LET s == Steps("loginCached") IN
    /\ s[1] = "verify" /\ s[2] = "touch" /\ s[3] = "lookUp" /\ s[4] = "selectById"
    /\ s[5] = "emplace" /\ s[6] = "login"
  <1> DEFINE s == Steps("loginCached")
  <1>1. Ends("loginCached") = 6
    BY SMTT(30) DEF Ends, Steps, LoginCached, GetUsersByIds
  <1>2. /\ s[1] = "verify" /\ s[2] = "touch" /\ s[3] = "lookUp" /\ s[4] = "selectById"
    /\ s[5] = "emplace" /\ s[6] = "login"
    BY SMTT(30) DEF Steps, LoginCached, GetUsersByIds
  <1> QED BY <1>1, <1>2

LEMMA IntegrateSteps ==
  /\ Ends("integrate") = 17
  /\ LET s == Steps("integrate") IN
    /\ s[1] = "findMapped" /\ s[2] = "isKnown" /\ s[3] = "selectByMail" /\ s[4] = "cacheUser"
    /\ s[5] = "mapUser" /\ s[6] = "orRegister" /\ s[7] = "isTaken" /\ s[8] = "insert"
    /\ s[9] = "cacheUser" /\ s[10] = "mapUser" /\ s[11] = "findMapped" /\ s[12] = "isKnown"
    /\ s[13] = "selectByMail" /\ s[14] = "cacheUser" /\ s[15] = "mapUser" /\ s[16] = "loginMapped"
    /\ s[17] = "integrate"
  <1> DEFINE s == Steps("integrate")
  <1>1. Ends("integrate") = 17
    BY SMTT(30) DEF Ends, Steps, LoginIntegration, FindUserByMail, RegisterUser, AddUserToCache
  <1>2. /\ s[1] = "findMapped" /\ s[2] = "isKnown" /\ s[3] = "selectByMail" /\ s[4] = "cacheUser"
    /\ s[5] = "mapUser" /\ s[6] = "orRegister" /\ s[7] = "isTaken" /\ s[8] = "insert"
    /\ s[9] = "cacheUser" /\ s[10] = "mapUser" /\ s[11] = "findMapped" /\ s[12] = "isKnown"
    /\ s[13] = "selectByMail" /\ s[14] = "cacheUser" /\ s[15] = "mapUser" /\ s[16] = "loginMapped"
    /\ s[17] = "integrate"
    BY SMTT(30) DEF Steps, LoginIntegration, FindUserByMail, RegisterUser, AddUserToCache
  <1> QED BY <1>1, <1>2

LEMMA RegisterSteps ==
  /\ Ends("register") = 7
  /\ LET s == Steps("register") IN
    /\ s[1] = "findMapped" /\ s[2] = "isKnown" /\ s[3] = "selectByMail" /\ s[4] = "cacheUser"
    /\ s[5] = "mapUser" /\ s[6] = "generateCode" /\ s[7] = "register"
  <1> DEFINE s == Steps("register")
  <1>1. Ends("register") = 7
    BY SMTT(30) DEF Ends, Steps, FindUserByMail, AddUserToCache
  <1>2. /\ s[1] = "findMapped" /\ s[2] = "isKnown" /\ s[3] = "selectByMail" /\ s[4] = "cacheUser"
    /\ s[5] = "mapUser" /\ s[6] = "generateCode" /\ s[7] = "register"
    BY SMTT(30) DEF Steps, FindUserByMail, AddUserToCache
  <1> QED BY <1>1, <1>2

LEMMA RegisterVerifySteps ==
  /\ Ends("registerVerify") = 7
  /\ LET s == Steps("registerVerify") IN
    /\ s[1] = "validateCode" /\ s[2] = "isTaken" /\ s[3] = "insert" /\ s[4] = "cacheUser"
    /\ s[5] = "mapUser" /\ s[6] = "consumeCode" /\ s[7] = "registerVerify"
  <1> DEFINE s == Steps("registerVerify")
  <1>1. Ends("registerVerify") = 7
    BY SMTT(30) DEF Ends, Steps, RegisterUser, AddUserToCache
  <1>2. /\ s[1] = "validateCode" /\ s[2] = "isTaken" /\ s[3] = "insert" /\ s[4] = "cacheUser"
    /\ s[5] = "mapUser" /\ s[6] = "consumeCode" /\ s[7] = "registerVerify"
    BY SMTT(30) DEF Steps, RegisterUser, AddUserToCache
  <1> QED BY <1>1, <1>2

LEMMA ChangePasswordSteps ==
  /\ Ends("changePassword") = 10
  /\ LET s == Steps("changePassword") IN
    /\ s[1] = "lookUp" /\ s[2] = "selectById" /\ s[3] = "emplace" /\ s[4] = "verifyOld"
    /\ s[5] = "update" /\ s[6] = "lookUp" /\ s[7] = "selectById" /\ s[8] = "emplace"
    /\ s[9] = "set" /\ s[10] = "changePassword"
  <1> DEFINE s == Steps("changePassword")
  <1>1. Ends("changePassword") = 10
    BY SMTT(30) DEF Ends, Steps, UpdateUser, GetUsersByIds
  <1>2. /\ s[1] = "lookUp" /\ s[2] = "selectById" /\ s[3] = "emplace" /\ s[4] = "verifyOld"
    /\ s[5] = "update" /\ s[6] = "lookUp" /\ s[7] = "selectById" /\ s[8] = "emplace"
    /\ s[9] = "set" /\ s[10] = "changePassword"
    BY SMTT(30) DEF Steps, UpdateUser, GetUsersByIds
  <1> QED BY <1>1, <1>2

LEMMA ChangeNameSteps ==
  /\ Ends("changeName") = 6
  /\ LET s == Steps("changeName") IN
    /\ s[1] = "update" /\ s[2] = "lookUp" /\ s[3] = "selectById" /\ s[4] = "emplace"
    /\ s[5] = "set" /\ s[6] = "changeName"
  <1> DEFINE s == Steps("changeName")
  <1>1. Ends("changeName") = 6
    BY SMTT(30) DEF Ends, Steps, UpdateUser, GetUsersByIds
  <1>2. /\ s[1] = "update" /\ s[2] = "lookUp" /\ s[3] = "selectById" /\ s[4] = "emplace"
    /\ s[5] = "set" /\ s[6] = "changeName"
    BY SMTT(30) DEF Steps, UpdateUser, GetUsersByIds
  <1> QED BY <1>1, <1>2

LEMMA ResetSteps ==
  /\ Ends("reset") = 7
  /\ LET s == Steps("reset") IN
    /\ s[1] = "findMapped" /\ s[2] = "isKnown" /\ s[3] = "selectByMail" /\ s[4] = "cacheUser"
    /\ s[5] = "mapUser" /\ s[6] = "generateToken" /\ s[7] = "reset"
  <1> DEFINE s == Steps("reset")
  <1>1. Ends("reset") = 7
    BY SMTT(30) DEF Ends, Steps, FindUserByMail, AddUserToCache
  <1>2. /\ s[1] = "findMapped" /\ s[2] = "isKnown" /\ s[3] = "selectByMail" /\ s[4] = "cacheUser"
    /\ s[5] = "mapUser" /\ s[6] = "generateToken" /\ s[7] = "reset"
    BY SMTT(30) DEF Steps, FindUserByMail, AddUserToCache
  <1> QED BY <1>1, <1>2

LEMMA ResetVerifySteps ==
  /\ Ends("resetVerify") = 12
  /\ LET s == Steps("resetVerify") IN
    /\ s[1] = "validateToken" /\ s[2] = "findMapped" /\ s[3] = "isKnown" /\ s[4] = "selectByMail"
    /\ s[5] = "cacheUser" /\ s[6] = "mapUser" /\ s[7] = "update" /\ s[8] = "lookUp"
    /\ s[9] = "selectById" /\ s[10] = "emplace" /\ s[11] = "set" /\ s[12] = "resetVerify"
  <1> DEFINE s == Steps("resetVerify")
  <1>1. Ends("resetVerify") = 12
    BY SMTT(30) DEF Ends, Steps, FindUserByMail, AddUserToCache, UpdateUser, GetUsersByIds
  <1>2. /\ s[1] = "validateToken" /\ s[2] = "findMapped" /\ s[3] = "isKnown" /\ s[4] = "selectByMail"
    /\ s[5] = "cacheUser" /\ s[6] = "mapUser" /\ s[7] = "update" /\ s[8] = "lookUp"
    /\ s[9] = "selectById" /\ s[10] = "emplace" /\ s[11] = "set" /\ s[12] = "resetVerify"
    BY SMTT(30) DEF Steps, FindUserByMail, AddUserToCache, UpdateUser, GetUsersByIds
  <1> QED BY <1>1, <1>2

LEMMA StepsTyped ==
  ASSUME NEW w \in Ways
  PROVE  Steps(w) \in Seq(StepNames)
  <1>1. CASE w = "login"
    BY <1>1, SMTT(30) DEF Steps, LoginUser, LoginCached, GetUsersByIds, AddUserToCache, StepNames, AccountOps
  <1>2. CASE w = "loginCached"
    BY <1>2, SMTT(30) DEF Steps, LoginCached, GetUsersByIds, StepNames, AccountOps
  <1>3. CASE w = "integrate"
    BY <1>3, SMTT(30) DEF Steps, LoginIntegration, FindUserByMail, RegisterUser, AddUserToCache, StepNames, AccountOps
  <1>4. CASE w = "register"
    BY <1>4, SMTT(30) DEF Steps, FindUserByMail, AddUserToCache, StepNames, AccountOps
  <1>5. CASE w = "registerVerify"
    BY <1>5, SMTT(30) DEF Steps, RegisterUser, AddUserToCache, StepNames, AccountOps
  <1>6. CASE w = "changePassword"
    BY <1>6, SMTT(30) DEF Steps, UpdateUser, GetUsersByIds, StepNames, AccountOps
  <1>7. CASE w = "changeName"
    BY <1>7, SMTT(30) DEF Steps, UpdateUser, GetUsersByIds, StepNames, AccountOps
  <1>8. CASE w = "reset"
    BY <1>8, SMTT(30) DEF Steps, FindUserByMail, AddUserToCache, StepNames, AccountOps
  <1>9. CASE w = "resetVerify"
    BY <1>9, SMTT(30) DEF Steps, FindUserByMail, AddUserToCache, UpdateUser, GetUsersByIds, StepNames, AccountOps
  <1> QED BY <1>1, <1>2, <1>3, <1>4, <1>5, <1>6, <1>7, <1>8, <1>9 DEF Ways

LEMMA UpTo17 ==
  \A i \in 1..17 : i \in {1, 2, 3, 4, 5, 6, 7, 8, 9, 10, 11, 12, 13, 14, 15, 16, 17}
  OBVIOUS

LEMMA StepsAre ==
  ASSUME NEW w \in Ways
  PROVE  /\ Steps(w) \in Seq(StepNames) /\ Ends(w) \in 6..17
         /\ Steps(w)[Ends(w)] = OpOf(w)
  <1>1. CASE w = "login"
    BY <1>1, StepsTyped, LoginSteps DEF OpOf
  <1>2. CASE w = "loginCached"
    BY <1>2, StepsTyped, LoginCachedSteps DEF OpOf
  <1>3. CASE w = "integrate"
    <2>1. Steps(w) \in Seq(StepNames)
      BY StepsTyped
    <2>2. Ends(w) = 17
      BY <1>3, IntegrateSteps
    <2>3. Steps(w)[Ends(w)] = OpOf(w)
      BY <1>3, <2>2, IntegrateSteps DEF OpOf
    <2> QED BY <2>1, <2>2, <2>3
  <1>4. CASE w = "register"
    BY <1>4, StepsTyped, RegisterSteps DEF OpOf
  <1>5. CASE w = "registerVerify"
    BY <1>5, StepsTyped, RegisterVerifySteps DEF OpOf
  <1>6. CASE w = "changePassword"
    BY <1>6, StepsTyped, ChangePasswordSteps DEF OpOf
  <1>7. CASE w = "changeName"
    BY <1>7, StepsTyped, ChangeNameSteps DEF OpOf
  <1>8. CASE w = "reset"
    BY <1>8, StepsTyped, ResetSteps DEF OpOf
  <1>9. CASE w = "resetVerify"
    BY <1>9, StepsTyped, ResetVerifySteps DEF OpOf
  <1> QED BY <1>1, <1>2, <1>3, <1>4, <1>5, <1>6, <1>7, <1>8, <1>9 DEF Ways

\* Where each step is.
LEMMA LoginPlaces ==
  /\ Ends("login") = 10
  /\ \A i \in 1..10 : LET x == Steps("login")[i] IN
       /\ x \in {"findCached", "selectByMail", "verify", "touch", "lookUp", "selectById", "emplace",
            "cacheUser", "mapUser", "login"}
       /\ (x = "findCached" => i = 1) /\ (x = "selectByMail" => i = 2) /\ (x = "verify" => i = 3)
       /\ (x = "touch" => i = 4) /\ (x = "lookUp" => i = 5) /\ (x = "selectById" => i = 6)
       /\ (x = "emplace" => i = 7) /\ (x = "cacheUser" => i = 8) /\ (x = "mapUser" => i = 9)
       /\ (x = "login" => i = 10)
  BY LoginSteps, UpTo17

LEMMA LoginCachedPlaces ==
  /\ Ends("loginCached") = 6
  /\ \A i \in 1..6 : LET x == Steps("loginCached")[i] IN
       /\ x \in {"verify", "touch", "lookUp", "selectById", "emplace", "login"}
       /\ (x = "verify" => i = 1) /\ (x = "touch" => i = 2) /\ (x = "lookUp" => i = 3)
       /\ (x = "selectById" => i = 4) /\ (x = "emplace" => i = 5) /\ (x = "login" => i = 6)
  BY LoginCachedSteps, UpTo17

LEMMA IntegratePlaces ==
  /\ Ends("integrate") = 17
  /\ \A i \in 1..17 : LET x == Steps("integrate")[i] IN
       /\ x \in {"findMapped", "isKnown", "selectByMail", "cacheUser", "mapUser", "orRegister",
            "isTaken", "insert", "loginMapped", "integrate"}
       /\ (x = "findMapped" => i \in {1, 11}) /\ (x = "isKnown" => i \in {2, 12}) /\ (x = "selectByMail" => i \in {3, 13})
       /\ (x = "cacheUser" => i \in {4, 9, 14}) /\ (x = "mapUser" => i \in {5, 10, 15}) /\ (x = "orRegister" => i = 6)
       /\ (x = "isTaken" => i = 7) /\ (x = "insert" => i = 8) /\ (x = "loginMapped" => i = 16)
       /\ (x = "integrate" => i = 17)
  BY IntegrateSteps, UpTo17

LEMMA RegisterPlaces ==
  /\ Ends("register") = 7
  /\ \A i \in 1..7 : LET x == Steps("register")[i] IN
       /\ x \in {"findMapped", "isKnown", "selectByMail", "cacheUser", "mapUser", "generateCode",
            "register"}
       /\ (x = "findMapped" => i = 1) /\ (x = "isKnown" => i = 2) /\ (x = "selectByMail" => i = 3)
       /\ (x = "cacheUser" => i = 4) /\ (x = "mapUser" => i = 5) /\ (x = "generateCode" => i = 6)
       /\ (x = "register" => i = 7)
  BY RegisterSteps, UpTo17

LEMMA RegisterVerifyPlaces ==
  /\ Ends("registerVerify") = 7
  /\ \A i \in 1..7 : LET x == Steps("registerVerify")[i] IN
       /\ x \in {"validateCode", "isTaken", "insert", "cacheUser", "mapUser", "consumeCode",
            "registerVerify"}
       /\ (x = "validateCode" => i = 1) /\ (x = "isTaken" => i = 2) /\ (x = "insert" => i = 3)
       /\ (x = "cacheUser" => i = 4) /\ (x = "mapUser" => i = 5) /\ (x = "consumeCode" => i = 6)
       /\ (x = "registerVerify" => i = 7)
  BY RegisterVerifySteps, UpTo17

LEMMA ChangePasswordPlaces ==
  /\ Ends("changePassword") = 10
  /\ \A i \in 1..10 : LET x == Steps("changePassword")[i] IN
       /\ x \in {"lookUp", "selectById", "emplace", "verifyOld", "update", "set", "changePassword"}
       /\ (x = "lookUp" => i \in {1, 6}) /\ (x = "selectById" => i \in {2, 7}) /\ (x = "emplace" => i \in {3, 8})
       /\ (x = "verifyOld" => i = 4) /\ (x = "update" => i = 5) /\ (x = "set" => i = 9)
       /\ (x = "changePassword" => i = 10)
  BY ChangePasswordSteps, UpTo17

LEMMA ChangeNamePlaces ==
  /\ Ends("changeName") = 6
  /\ \A i \in 1..6 : LET x == Steps("changeName")[i] IN
       /\ x \in {"update", "lookUp", "selectById", "emplace", "set", "changeName"}
       /\ (x = "update" => i = 1) /\ (x = "lookUp" => i = 2) /\ (x = "selectById" => i = 3)
       /\ (x = "emplace" => i = 4) /\ (x = "set" => i = 5) /\ (x = "changeName" => i = 6)
  BY ChangeNameSteps, UpTo17

LEMMA ResetPlaces ==
  /\ Ends("reset") = 7
  /\ \A i \in 1..7 : LET x == Steps("reset")[i] IN
       /\ x \in {"findMapped", "isKnown", "selectByMail", "cacheUser", "mapUser", "generateToken",
            "reset"}
       /\ (x = "findMapped" => i = 1) /\ (x = "isKnown" => i = 2) /\ (x = "selectByMail" => i = 3)
       /\ (x = "cacheUser" => i = 4) /\ (x = "mapUser" => i = 5) /\ (x = "generateToken" => i = 6)
       /\ (x = "reset" => i = 7)
  BY ResetSteps, UpTo17

LEMMA ResetVerifyPlaces ==
  /\ Ends("resetVerify") = 12
  /\ \A i \in 1..12 : LET x == Steps("resetVerify")[i] IN
       /\ x \in {"validateToken", "findMapped", "isKnown", "selectByMail", "cacheUser", "mapUser",
            "update", "lookUp", "selectById", "emplace", "set", "resetVerify"}
       /\ (x = "validateToken" => i = 1) /\ (x = "findMapped" => i = 2) /\ (x = "isKnown" => i = 3)
       /\ (x = "selectByMail" => i = 4) /\ (x = "cacheUser" => i = 5) /\ (x = "mapUser" => i = 6)
       /\ (x = "update" => i = 7) /\ (x = "lookUp" => i = 8) /\ (x = "selectById" => i = 9)
       /\ (x = "emplace" => i = 10) /\ (x = "set" => i = 11) /\ (x = "resetVerify" => i = 12)
  BY ResetVerifySteps, UpTo17

LEMMA Lengths ==
  /\ Ends("login") = 10 /\ Ends("loginCached") = 6 /\ Ends("integrate") = 17 /\ Ends("register") = 7
  /\ Ends("registerVerify") = 7 /\ Ends("changePassword") = 10 /\ Ends("changeName") = 6
  /\ Ends("reset") = 7 /\ Ends("resetVerify") = 12
  BY LoginPlaces, LoginCachedPlaces, IntegratePlaces, RegisterPlaces, RegisterVerifyPlaces,
     ChangePasswordPlaces, ChangeNamePlaces, ResetPlaces, ResetVerifyPlaces

LEMMA FindCachedPlace ==
  ASSUME NEW w \in Ways, NEW i \in 1..Ends(w), Steps(w)[i] = "findCached"
  PROVE  w = "login" /\ i = 1
  BY LoginPlaces, LoginCachedPlaces, IntegratePlaces, RegisterPlaces, RegisterVerifyPlaces,
     ChangePasswordPlaces, ChangeNamePlaces, ResetPlaces, ResetVerifyPlaces DEF Ways

LEMMA SelectByMailPlace ==
  ASSUME NEW w \in Ways, NEW i \in 1..Ends(w), Steps(w)[i] = "selectByMail"
  PROVE  \/ w = "login" /\ i = 2
         \/ w = "integrate" /\ i \in {3, 13}
         \/ w = "register" /\ i = 3
         \/ w = "reset" /\ i = 3
         \/ w = "resetVerify" /\ i = 4
  BY LoginPlaces, LoginCachedPlaces, IntegratePlaces, RegisterPlaces, RegisterVerifyPlaces,
     ChangePasswordPlaces, ChangeNamePlaces, ResetPlaces, ResetVerifyPlaces DEF Ways

LEMMA VerifyPlace ==
  ASSUME NEW w \in Ways, NEW i \in 1..Ends(w), Steps(w)[i] = "verify"
  PROVE  \/ w = "login" /\ i = 3
         \/ w = "loginCached" /\ i = 1
  BY LoginPlaces, LoginCachedPlaces, IntegratePlaces, RegisterPlaces, RegisterVerifyPlaces,
     ChangePasswordPlaces, ChangeNamePlaces, ResetPlaces, ResetVerifyPlaces DEF Ways

LEMMA TouchPlace ==
  ASSUME NEW w \in Ways, NEW i \in 1..Ends(w), Steps(w)[i] = "touch"
  PROVE  \/ w = "login" /\ i = 4
         \/ w = "loginCached" /\ i = 2
  BY LoginPlaces, LoginCachedPlaces, IntegratePlaces, RegisterPlaces, RegisterVerifyPlaces,
     ChangePasswordPlaces, ChangeNamePlaces, ResetPlaces, ResetVerifyPlaces DEF Ways

LEMMA LookUpPlace ==
  ASSUME NEW w \in Ways, NEW i \in 1..Ends(w), Steps(w)[i] = "lookUp"
  PROVE  \/ w = "login" /\ i = 5
         \/ w = "loginCached" /\ i = 3
         \/ w = "changePassword" /\ i \in {1, 6}
         \/ w = "changeName" /\ i = 2
         \/ w = "resetVerify" /\ i = 8
  BY LoginPlaces, LoginCachedPlaces, IntegratePlaces, RegisterPlaces, RegisterVerifyPlaces,
     ChangePasswordPlaces, ChangeNamePlaces, ResetPlaces, ResetVerifyPlaces DEF Ways

LEMMA SelectByIdPlace ==
  ASSUME NEW w \in Ways, NEW i \in 1..Ends(w), Steps(w)[i] = "selectById"
  PROVE  \/ w = "login" /\ i = 6
         \/ w = "loginCached" /\ i = 4
         \/ w = "changePassword" /\ i \in {2, 7}
         \/ w = "changeName" /\ i = 3
         \/ w = "resetVerify" /\ i = 9
  BY LoginPlaces, LoginCachedPlaces, IntegratePlaces, RegisterPlaces, RegisterVerifyPlaces,
     ChangePasswordPlaces, ChangeNamePlaces, ResetPlaces, ResetVerifyPlaces DEF Ways

LEMMA EmplacePlace ==
  ASSUME NEW w \in Ways, NEW i \in 1..Ends(w), Steps(w)[i] = "emplace"
  PROVE  \/ w = "login" /\ i = 7
         \/ w = "loginCached" /\ i = 5
         \/ w = "changePassword" /\ i \in {3, 8}
         \/ w = "changeName" /\ i = 4
         \/ w = "resetVerify" /\ i = 10
  BY LoginPlaces, LoginCachedPlaces, IntegratePlaces, RegisterPlaces, RegisterVerifyPlaces,
     ChangePasswordPlaces, ChangeNamePlaces, ResetPlaces, ResetVerifyPlaces DEF Ways

LEMMA CacheUserPlace ==
  ASSUME NEW w \in Ways, NEW i \in 1..Ends(w), Steps(w)[i] = "cacheUser"
  PROVE  \/ w = "login" /\ i = 8
         \/ w = "integrate" /\ i \in {4, 9, 14}
         \/ w = "register" /\ i = 4
         \/ w = "registerVerify" /\ i = 4
         \/ w = "reset" /\ i = 4
         \/ w = "resetVerify" /\ i = 5
  BY LoginPlaces, LoginCachedPlaces, IntegratePlaces, RegisterPlaces, RegisterVerifyPlaces,
     ChangePasswordPlaces, ChangeNamePlaces, ResetPlaces, ResetVerifyPlaces DEF Ways

LEMMA MapUserPlace ==
  ASSUME NEW w \in Ways, NEW i \in 1..Ends(w), Steps(w)[i] = "mapUser"
  PROVE  \/ w = "login" /\ i = 9
         \/ w = "integrate" /\ i \in {5, 10, 15}
         \/ w = "register" /\ i = 5
         \/ w = "registerVerify" /\ i = 5
         \/ w = "reset" /\ i = 5
         \/ w = "resetVerify" /\ i = 6
  BY LoginPlaces, LoginCachedPlaces, IntegratePlaces, RegisterPlaces, RegisterVerifyPlaces,
     ChangePasswordPlaces, ChangeNamePlaces, ResetPlaces, ResetVerifyPlaces DEF Ways

LEMMA FindMappedPlace ==
  ASSUME NEW w \in Ways, NEW i \in 1..Ends(w), Steps(w)[i] = "findMapped"
  PROVE  \/ w = "integrate" /\ i \in {1, 11}
         \/ w = "register" /\ i = 1
         \/ w = "reset" /\ i = 1
         \/ w = "resetVerify" /\ i = 2
  BY LoginPlaces, LoginCachedPlaces, IntegratePlaces, RegisterPlaces, RegisterVerifyPlaces,
     ChangePasswordPlaces, ChangeNamePlaces, ResetPlaces, ResetVerifyPlaces DEF Ways

LEMMA IsKnownPlace ==
  ASSUME NEW w \in Ways, NEW i \in 1..Ends(w), Steps(w)[i] = "isKnown"
  PROVE  \/ w = "integrate" /\ i \in {2, 12}
         \/ w = "register" /\ i = 2
         \/ w = "reset" /\ i = 2
         \/ w = "resetVerify" /\ i = 3
  BY LoginPlaces, LoginCachedPlaces, IntegratePlaces, RegisterPlaces, RegisterVerifyPlaces,
     ChangePasswordPlaces, ChangeNamePlaces, ResetPlaces, ResetVerifyPlaces DEF Ways

LEMMA OrRegisterPlace ==
  ASSUME NEW w \in Ways, NEW i \in 1..Ends(w), Steps(w)[i] = "orRegister"
  PROVE  w = "integrate" /\ i = 6
  BY LoginPlaces, LoginCachedPlaces, IntegratePlaces, RegisterPlaces, RegisterVerifyPlaces,
     ChangePasswordPlaces, ChangeNamePlaces, ResetPlaces, ResetVerifyPlaces DEF Ways

LEMMA IsTakenPlace ==
  ASSUME NEW w \in Ways, NEW i \in 1..Ends(w), Steps(w)[i] = "isTaken"
  PROVE  \/ w = "integrate" /\ i = 7
         \/ w = "registerVerify" /\ i = 2
  BY LoginPlaces, LoginCachedPlaces, IntegratePlaces, RegisterPlaces, RegisterVerifyPlaces,
     ChangePasswordPlaces, ChangeNamePlaces, ResetPlaces, ResetVerifyPlaces DEF Ways

LEMMA InsertPlace ==
  ASSUME NEW w \in Ways, NEW i \in 1..Ends(w), Steps(w)[i] = "insert"
  PROVE  \/ w = "integrate" /\ i = 8
         \/ w = "registerVerify" /\ i = 3
  BY LoginPlaces, LoginCachedPlaces, IntegratePlaces, RegisterPlaces, RegisterVerifyPlaces,
     ChangePasswordPlaces, ChangeNamePlaces, ResetPlaces, ResetVerifyPlaces DEF Ways

LEMMA LoginMappedPlace ==
  ASSUME NEW w \in Ways, NEW i \in 1..Ends(w), Steps(w)[i] = "loginMapped"
  PROVE  w = "integrate" /\ i = 16
  BY LoginPlaces, LoginCachedPlaces, IntegratePlaces, RegisterPlaces, RegisterVerifyPlaces,
     ChangePasswordPlaces, ChangeNamePlaces, ResetPlaces, ResetVerifyPlaces DEF Ways

LEMMA GenerateCodePlace ==
  ASSUME NEW w \in Ways, NEW i \in 1..Ends(w), Steps(w)[i] = "generateCode"
  PROVE  w = "register" /\ i = 6
  BY LoginPlaces, LoginCachedPlaces, IntegratePlaces, RegisterPlaces, RegisterVerifyPlaces,
     ChangePasswordPlaces, ChangeNamePlaces, ResetPlaces, ResetVerifyPlaces DEF Ways

LEMMA ValidateCodePlace ==
  ASSUME NEW w \in Ways, NEW i \in 1..Ends(w), Steps(w)[i] = "validateCode"
  PROVE  w = "registerVerify" /\ i = 1
  BY LoginPlaces, LoginCachedPlaces, IntegratePlaces, RegisterPlaces, RegisterVerifyPlaces,
     ChangePasswordPlaces, ChangeNamePlaces, ResetPlaces, ResetVerifyPlaces DEF Ways

LEMMA ConsumeCodePlace ==
  ASSUME NEW w \in Ways, NEW i \in 1..Ends(w), Steps(w)[i] = "consumeCode"
  PROVE  w = "registerVerify" /\ i = 6
  BY LoginPlaces, LoginCachedPlaces, IntegratePlaces, RegisterPlaces, RegisterVerifyPlaces,
     ChangePasswordPlaces, ChangeNamePlaces, ResetPlaces, ResetVerifyPlaces DEF Ways

LEMMA VerifyOldPlace ==
  ASSUME NEW w \in Ways, NEW i \in 1..Ends(w), Steps(w)[i] = "verifyOld"
  PROVE  w = "changePassword" /\ i = 4
  BY LoginPlaces, LoginCachedPlaces, IntegratePlaces, RegisterPlaces, RegisterVerifyPlaces,
     ChangePasswordPlaces, ChangeNamePlaces, ResetPlaces, ResetVerifyPlaces DEF Ways

LEMMA UpdatePlace ==
  ASSUME NEW w \in Ways, NEW i \in 1..Ends(w), Steps(w)[i] = "update"
  PROVE  \/ w = "changePassword" /\ i = 5
         \/ w = "changeName" /\ i = 1
         \/ w = "resetVerify" /\ i = 7
  BY LoginPlaces, LoginCachedPlaces, IntegratePlaces, RegisterPlaces, RegisterVerifyPlaces,
     ChangePasswordPlaces, ChangeNamePlaces, ResetPlaces, ResetVerifyPlaces DEF Ways

LEMMA SetPlace ==
  ASSUME NEW w \in Ways, NEW i \in 1..Ends(w), Steps(w)[i] = "set"
  PROVE  \/ w = "changePassword" /\ i = 9
         \/ w = "changeName" /\ i = 5
         \/ w = "resetVerify" /\ i = 11
  BY LoginPlaces, LoginCachedPlaces, IntegratePlaces, RegisterPlaces, RegisterVerifyPlaces,
     ChangePasswordPlaces, ChangeNamePlaces, ResetPlaces, ResetVerifyPlaces DEF Ways

LEMMA GenerateTokenPlace ==
  ASSUME NEW w \in Ways, NEW i \in 1..Ends(w), Steps(w)[i] = "generateToken"
  PROVE  w = "reset" /\ i = 6
  BY LoginPlaces, LoginCachedPlaces, IntegratePlaces, RegisterPlaces, RegisterVerifyPlaces,
     ChangePasswordPlaces, ChangeNamePlaces, ResetPlaces, ResetVerifyPlaces DEF Ways

LEMMA ValidateTokenPlace ==
  ASSUME NEW w \in Ways, NEW i \in 1..Ends(w), Steps(w)[i] = "validateToken"
  PROVE  w = "resetVerify" /\ i = 1
  BY LoginPlaces, LoginCachedPlaces, IntegratePlaces, RegisterPlaces, RegisterVerifyPlaces,
     ChangePasswordPlaces, ChangeNamePlaces, ResetPlaces, ResetVerifyPlaces DEF Ways

LEMMA RestIs ==
  ASSUME NEW w \in Ways, NEW i \in 1..Ends(w)
  PROVE  /\ Rest(w, i) \in Seq(StepNames) /\ Len(Rest(w, i)) = Ends(w) - i + 1
         /\ \A j \in 1..(Ends(w) - i + 1) : Rest(w, i)[j] = Steps(w)[i + j - 1]
         /\ Rest(w, i) # <<>> /\ Head(Rest(w, i)) = Steps(w)[i]
         /\ Rest(w, i)[Len(Rest(w, i))] = OpOf(w)
  <1> DEFINE s == Steps(w)
             n == Ends(w)
  <1>1. s \in Seq(StepNames) /\ n \in Nat /\ n = Len(s) /\ s[n] = OpOf(w)
    BY StepsAre DEF Ends
  <1>2. i \in 1..n /\ n \in i..n /\ i \in Nat
    BY <1>1
  <1>3. /\ Rest(w, i) \in Seq(StepNames) /\ Len(Rest(w, i)) = n - i + 1
        /\ \A j \in 1..(n - i + 1) : Rest(w, i)[j] = s[i + j - 1]
    BY <1>1, <1>2, SubSeqProperties DEF Rest
  <1>4. Rest(w, i) # <<>> /\ Head(Rest(w, i)) = s[i] /\ Rest(w, i)[Len(Rest(w, i))] = s[n]
    BY <1>1, <1>2, <1>3
  <1> QED BY <1>1, <1>3, <1>4

LEMMA TailOfRest ==
  ASSUME NEW w \in Ways, NEW i \in 1..Ends(w), i # Ends(w)
  PROVE  Tail(Rest(w, i)) = Rest(w, i + 1)
  <1>1. i + 1 \in 1..Ends(w) /\ Ends(w) \in Nat
    BY StepsAre
  <1>2. /\ Tail(Rest(w, i)) \in Seq(StepNames) /\ Len(Tail(Rest(w, i))) = Ends(w) - i
        /\ \A j \in 1..(Ends(w) - i) : Tail(Rest(w, i))[j] = Rest(w, i)[j + 1]
    BY RestIs, <1>1, HeadTailProperties
  <1>3. /\ Rest(w, i + 1) \in Seq(StepNames) /\ Len(Rest(w, i + 1)) = Ends(w) - i
        /\ \A j \in 1..(Ends(w) - i) : Rest(w, i + 1)[j] = Steps(w)[i + j]
    <2>1. Ends(w) - (i + 1) + 1 = Ends(w) - i
      BY <1>1
    <2>2. /\ Rest(w, i + 1) \in Seq(StepNames) /\ Len(Rest(w, i + 1)) = Ends(w) - i
          /\ \A j \in 1..(Ends(w) - i) : Rest(w, i + 1)[j] = Steps(w)[i + 1 + j - 1]
      BY <1>1, <2>1, RestIs
    <2>3. \A j \in 1..(Ends(w) - i) : i + 1 + j - 1 = i + j
      BY <1>1
    <2> QED BY <2>2, <2>3
  <1>4. \A j \in 1..(Ends(w) - i) : Tail(Rest(w, i))[j] = Rest(w, i + 1)[j]
    <2> SUFFICES ASSUME NEW j \in 1..(Ends(w) - i) PROVE Tail(Rest(w, i))[j] = Rest(w, i + 1)[j]
      OBVIOUS
    <2>1. j + 1 \in 1..(Ends(w) - i + 1) /\ i + (j + 1) - 1 = i + j
      BY <1>1
    <2>2. Rest(w, i)[j + 1] = Steps(w)[i + j]
      BY <2>1, RestIs
    <2> QED BY <2>2, <1>2, <1>3
  <1> QED BY <1>2, <1>3, <1>4, SeqEqual

LEMMA LastOfRest ==
  ASSUME NEW w \in Ways
  PROVE  Rest(w, Ends(w)) = <<OpOf(w)>> /\ Tail(Rest(w, Ends(w))) = <<>>
  <1>1. Ends(w) \in 1..Ends(w) /\ Ends(w) \in Nat
    BY StepsAre
  <1>2. Rest(w, Ends(w)) \in Seq(StepNames) /\ Len(Rest(w, Ends(w))) = 1 /\ Rest(w, Ends(w))[1] = OpOf(w)
    <2>1. Ends(w) - Ends(w) + 1 = 1
      BY <1>1
    <2>2. /\ Rest(w, Ends(w)) \in Seq(StepNames) /\ Len(Rest(w, Ends(w))) = Ends(w) - Ends(w) + 1
          /\ Rest(w, Ends(w))[Len(Rest(w, Ends(w)))] = OpOf(w)
      BY <1>1, RestIs
    <2> QED BY <2>1, <2>2
  <1>3. Rest(w, Ends(w)) = <<OpOf(w)>>
    BY <1>2
  <1> QED BY <1>3

\* A call within the call that ends at k goes on behind it.
LEMMA LeaveRest ==
  ASSUME NEW w \in Ways, NEW i \in 1..Ends(w), NEW k \in i..(Ends(w) - 1), NEW end,
         Steps(w)[k] = end, \A j \in i..(k - 1) : Steps(w)[j] # end,
         NEW th \in Threads, pc[th] = Rest(w, i), Leave(th, end)
  PROVE  pc' = [pc EXCEPT ![th] = Rest(w, k + 1)]
  <1> DEFINE p == Rest(w, i)
             n == Ends(w)
             ends == {j \in DOMAIN p : p[j] = end}
             first == CHOOSE j \in ends : \A l \in ends : j <= l
             m == k - i + 1
  <1>1. n \in Nat /\ i \in Nat /\ k \in Nat /\ i <= k /\ k < n /\ 1 <= i
    BY StepsAre
  <1>2. p \in Seq(StepNames) /\ Len(p) = n - i + 1 /\ \A j \in 1..(n - i + 1) : p[j] = Steps(w)[i + j - 1]
    BY RestIs
  <1>3. m \in 1..(n - i) /\ m \in DOMAIN p /\ i + m - 1 = k
    BY <1>1, <1>2
  <1>4. m \in ends
    BY <1>2, <1>3
  <1>5. \A j \in ends : j \in Nat /\ m <= j
    <2> SUFFICES ASSUME NEW j \in ends, j < m PROVE FALSE
      BY <1>2, <1>3
    <2>1. j \in 1..(n - i + 1) /\ p[j] = end
      BY <1>2
    <2>2. i + j - 1 \in i..(k - 1) /\ Steps(w)[i + j - 1] = end
      BY <2>1, <1>1, <1>2, <1>3
    <2> QED BY <2>2
  <1>6. first \in ends /\ \A l \in ends : first <= l
    BY <1>4, <1>5
  <1>7. first = m
    BY <1>4, <1>5, <1>6, <1>3
  <1>8. SubSeq(p, m + 1, Len(p)) = Rest(w, k + 1)
    <2> DEFINE q == SubSeq(p, m + 1, Len(p))
               t == Rest(w, k + 1)
    <2>1. k + 1 \in 1..n
      BY <1>1
    <2>2. t \in Seq(StepNames) /\ Len(t) = n - k /\ \A j \in 1..(n - k) : t[j] = Steps(w)[k + j]
      BY <2>1, RestIs, <1>1
    <2>3. m + 1 \in 1..Len(p) /\ Len(p) \in m + 1..Len(p) /\ Len(p) - (m + 1) + 1 = n - k
      BY <1>1, <1>2, <1>3
    <2>4. q \in Seq(StepNames) /\ Len(q) = n - k /\ \A j \in 1..(n - k) : q[j] = p[m + 1 + j - 1]
      BY <2>3, <1>2, SubSeqProperties
    <2>5. \A j \in 1..(n - k) : q[j] = t[j]
      <3> SUFFICES ASSUME NEW j \in 1..(n - k) PROVE q[j] = t[j]
        OBVIOUS
      <3>1. m + j \in 1..(n - i + 1) /\ m + 1 + j - 1 = m + j /\ i + (m + j) - 1 = k + j
        BY <1>1, <1>3
      <3>2. p[m + j] = Steps(w)[k + j]
        BY <3>1, <1>2
      <3> QED BY <3>1, <3>2, <2>2, <2>4
    <2> QED BY <2>2, <2>4, <2>5, SeqEqual
  <1>9. pc' = [pc EXCEPT ![th] = IF ends = {} THEN <<Op(th)>> ELSE SubSeq(@, first + 1, Len(@))]
    BY DEF Leave
  <1> QED BY <1>4, <1>7, <1>8, <1>9

LEMMA WholeRest ==
  ASSUME NEW w \in Ways
  PROVE  Rest(w, 1) = Steps(w)
  BY StepsTyped, SubSeqFull DEF Rest, Ends

LEMMA LoginCachedBegins == Append(LoginCached, "login") = Rest("loginCached", 1)
  BY WholeRest DEF Steps, Ways

(***************************************************************************)
(* What a thread's steps say of it.                                        *)
(***************************************************************************)
LEMMA Holds ==
  ASSUME NEW w \in Ways, NEW i \in 1..Ends(w), NEW p, p = Rest(w, i)
  PROVE  /\ p # <<>> /\ p[Len(p)] = OpOf(w) /\ Head(p) = Steps(w)[i] /\ p \in Seq(StepNames)
         /\ Contains(p, "set") /\ ~Contains(p, "update") <=> WritingAt(w, i)
  <1>1. /\ p # <<>> /\ p[Len(p)] = OpOf(w) /\ Head(p) = Steps(w)[i] /\ p \in Seq(StepNames)
        /\ Len(p) = Ends(w) - i + 1 /\ \A j \in 1..(Ends(w) - i + 1) : p[j] = Steps(w)[i + j - 1]
    BY RestIs
  <1>2. Ends(w) \in Nat /\ i \in Nat /\ i <= Ends(w) /\ 1 <= i
    BY StepsAre
  <1>3. ASSUME NEW x
        PROVE  Contains(p, x) <=> \E k \in i..Ends(w) : Steps(w)[k] = x
    <2>1. ASSUME NEW j \in 1..Len(p), p[j] = x PROVE \E k \in i..Ends(w) : Steps(w)[k] = x
      BY <1>1, <1>2, <2>1
    <2>2. ASSUME NEW k \in i..Ends(w), Steps(w)[k] = x PROVE \E j \in 1..Len(p) : p[j] = x
      <3>1. k - i + 1 \in 1..(Ends(w) - i + 1) /\ i + (k - i + 1) - 1 = k
        BY <1>2
      <3>2. p[k - i + 1] = x
        BY <3>1, <1>1, <2>2
      <3> QED BY <3>1, <3>2, <1>1
    <2> QED BY <2>1, <2>2 DEF Contains
  <1>4. Contains(p, "set") <=> \/ w = "changePassword" /\ i <= 9
                               \/ w = "changeName" /\ i <= 5
                               \/ w = "resetVerify" /\ i <= 11
    BY <1>2, <1>3, SetPlace, ChangePasswordSteps, ChangeNameSteps, ResetVerifySteps, Lengths
  <1>5. Contains(p, "update") <=> \/ w = "changePassword" /\ i <= 5
                                  \/ w = "changeName" /\ i <= 1
                                  \/ w = "resetVerify" /\ i <= 7
    BY <1>2, <1>3, UpdatePlace, ChangePasswordSteps, ChangeNameSteps, ResetVerifySteps, Lengths
  <1> QED BY <1>1, <1>2, <1>4, <1>5 DEF WritingAt

LEMMA Reads ==
  ASSUME NEW th \in Threads, NEW w \in Ways, NEW i \in 1..Ends(w), pc[th] = Rest(w, i)
  PROVE  /\ Busy(th) /\ Op(th) = OpOf(w) /\ \A x : AtStep(th, x) <=> Steps(w)[i] = x
         /\ Writing(th) <=> WritingAt(w, i)
  BY Holds DEF Busy, Op, AtStep, Writing

LEMMA ReadsNext ==
  ASSUME NEW th \in Threads, NEW w \in Ways, NEW i \in 1..Ends(w), pc'[th] = Rest(w, i)
  PROVE  /\ Busy(th)' /\ Op(th)' = OpOf(w) /\ \A x : AtStep(th, x)' <=> Steps(w)[i] = x
         /\ Writing(th)' <=> WritingAt(w, i)
  BY Holds DEF Busy, Op, AtStep, Writing

LEMMA ReadsIdle ==
  ASSUME NEW th \in Threads
  PROVE  /\ pc[th] = <<>> => ~Busy(th) /\ ~Writing(th) /\ \A x : ~AtStep(th, x)
         /\ pc'[th] = <<>> => ~Busy(th)' /\ ~Writing(th)' /\ \A x : ~AtStep(th, x)'
  BY DEF Busy, AtStep, Writing, Contains

\* A thread that has something to do is at a step of a way.
LEMMA Place ==
  ASSUME AccountInv, NEW th \in Threads, pc[th] # <<>>
  PROVE  \E w \in Ways : \E i \in 1..Ends(w) : pc[th] = Rest(w, i) /\ At(th, w, i) /\ Head(pc[th]) = Steps(w)[i]
  BY RestIs DEF AccountInv, ThreadOK

(***************************************************************************)
(* Going on: to the next step, to the reply, behind a call within.         *)
(***************************************************************************)
LEMMA Goes ==
  ASSUME NEW th \in Threads, NEW w \in Ways, NEW i \in 1..Ends(w), pc[th] = Rest(w, i)
  PROVE  /\ i # Ends(w) /\ Advance(th) => pc' = [pc EXCEPT ![th] = Rest(w, i + 1)]
         /\ Return(th) => pc' = [pc EXCEPT ![th] = Rest(w, Ends(w))]
         /\ i + 1 \in Nat /\ (i # Ends(w) => i + 1 \in 1..Ends(w)) /\ Ends(w) \in 1..Ends(w)
  <1>1. Ends(w) \in Nat /\ Ends(w) >= 6 /\ i \in Nat /\ i <= Ends(w)
    BY StepsAre
  <1>2. ASSUME i # Ends(w), Advance(th) PROVE pc' = [pc EXCEPT ![th] = Rest(w, i + 1)]
    BY <1>2, TailOfRest DEF Advance
  <1>3. ASSUME Return(th) PROVE pc' = [pc EXCEPT ![th] = Rest(w, Ends(w))]
    BY <1>3, LastOfRest, Reads DEF Return
  <1> QED BY <1>1, <1>2, <1>3

(***************************************************************************)
(* Steps of a thread that change nothing but its place and its call.       *)
(***************************************************************************)
LEMMA AtKept ==
  ASSUME NEW o \in Threads, acc'[o] = acc[o], UNCHANGED <<users, UserDataBaseCache, doubted, submitted, issued>>,
         NEW w, NEW i, At(o, w, i)
  PROVE  At(o, w, i)'
  <1>1. Given(o, w, i)' /\ AboutUser(o, w, i)'
    BY DEF At, Given, AboutUser
  <1>2. InHand(o, w, i)'
    BY DEF At, InHand, Fresh, Uncached
  <1>3. AtCaches(o, w, i)' /\ Proven(o, w, i)'
    BY DEF At, AtCaches, Proven, Fresh, Uncached
  <1>4. Decided(o, w, i)'
    BY DEF At, Decided, Wide, Covers, Another, Registered
  <1> QED BY <1>1, <1>2, <1>3, <1>4 DEF At

LEMMA OtherKept ==
  ASSUME NEW o \in Threads, ThreadOK(o), pc'[o] = pc[o], acc'[o] = acc[o],
         UNCHANGED <<users, UserDataBaseCache, doubted, submitted, issued>>
  PROVE  ThreadOK(o)'
  BY AtKept DEF ThreadOK

\* A thread moves on, its call and the map of mails and the mails registered at once change with it.
LEMMA LocalCore ==
  ASSUME AccountInv, NEW th \in Threads, NEW v \in Ways, NEW j \in 1..Ends(v),
         pc' = [pc EXCEPT ![th] = Rest(v, j)],
         acc' \in [Threads -> CallRecord], \A o \in Threads \ {th} : acc'[o] = acc[o],
         UNCHANGED <<users, UserDataBaseCache, doubted, submitted, codeVars>>,
         UserMailToUserIdMap' \in [Mails -> {0} \cup Ids], MappedUserCached',
         overlapped \subseteq overlapped', overlapped' \subseteq Mails,
         account_faults' \in 0..MaxAccountFaults, InsertsOK',
         SetsLater(th) /\ ~Uncached(th) =>
             SetsLater(th)' /\ acc'[th].id = acc[th].id /\ acc'[th].field = acc[th].field,
         At(th, v, j)'
  PROVE  AccountInv'
  <1>1. pc'[th] = Rest(v, j) /\ (\A o \in Threads \ {th} : pc'[o] = pc[o]) /\ pc' \in [Threads -> Seq(StepNames)]
    BY RestIs DEF AccountInv, TablesOK
  <1>2. TablesOK'
    BY <1>1 DEF AccountInv, TablesOK, MailedCodesTypeOK, codeVars
  <1>3. \A o \in Threads : ThreadOK(o)'
    BY <1>1, OtherKept DEF ThreadOK, AccountInv, codeVars
  <1>4. ASSUME NEW o \in Threads \ {th} PROVE SetsLater(o)' <=> SetsLater(o)
    BY <1>1 DEF SetsLater, Writing, AtStep, Busy
  <1>5. CacheOK'
    BY <1>4 DEF Uncached, AccountInv, CacheOK
  <1>6. CodesOK' /\ OneAccountPerMail'
    BY DEF AccountInv, CodesOK, OneAccountPerMail, codeVars
  <1> QED BY <1>2, <1>3, <1>5, <1>6 DEF AccountInv

LEMMA LocalStep ==
  ASSUME AccountInv, NEW th \in Threads, NEW v \in Ways, NEW j \in 1..Ends(v),
         pc' = [pc EXCEPT ![th] = Rest(v, j)],
         acc' \in [Threads -> CallRecord], \A o \in Threads \ {th} : acc'[o] = acc[o],
         UNCHANGED <<users, UserDataBaseCache, UserMailToUserIdMap, doubted, overlapped, submitted, codeVars>>,
         account_faults' \in 0..MaxAccountFaults,
         Steps(v)[j] # "insert",
         SetsLater(th) /\ ~Uncached(th) =>
             SetsLater(th)' /\ acc'[th].id = acc[th].id /\ acc'[th].field = acc[th].field,
         At(th, v, j)'
  PROVE  AccountInv'
  <1>1. pc'[th] = Rest(v, j) /\ \A o \in Threads \ {th} : pc'[o] = pc[o]
    BY DEF AccountInv, TablesOK
  <1>2. InsertsOK'
    <2>1. ~Inserting(th)'
      BY <1>1, ReadsNext DEF Inserting
    <2>2. ASSUME NEW o \in Threads \ {th} PROVE Inserting(o)' <=> Inserting(o)
      BY <1>1 DEF Inserting, AtStep, Busy
    <2>3. \A m : Registered(m)' = Registered(m)
      BY DEF Registered
    <2> QED BY <2>1, <2>2, <2>3 DEF AccountInv, InsertsOK
  <1>3. MappedUserCached' /\ UserMailToUserIdMap' \in [Mails -> {0} \cup Ids] /\ overlapped' \subseteq Mails
    BY DEF AccountInv, TablesOK, MappedUserCached
  <1> QED BY <1>2, <1>3, LocalCore

LEMMA Starts ==
  ASSUME AccountInv, NEW th \in Threads, NEW x, AtStep(th, x)
  PROVE  \E w \in Ways : \E i \in 1..Ends(w) : pc[th] = Rest(w, i) /\ At(th, w, i) /\ Steps(w)[i] = x
  BY Place DEF AtStep, Busy

LEMMA Tables ==
  ASSUME AccountInv
  PROVE  /\ DOMAIN users \subseteq Ids /\ Len(users) \in Nat /\ DOMAIN users = 1..Len(users) /\ 0 \notin DOMAIN users
         /\ \A j \in DOMAIN users : users[j] \in UserRow
         /\ \A th \in Threads : acc[th] \in CallRecord
         /\ 0 \notin Ids /\ NoRow \notin UserRow
  <1>1. users \in Seq(UserRow) /\ Len(users) \in Nat /\ Len(users) <= MaxUsers /\ MaxUsers \in Nat
    BY AccountsAssumption DEF AccountInv, TablesOK
  <1>2. NoRow \notin UserRow
    BY AccountsAssumption DEF UserRow, NoRow
  <1> QED BY <1>1, <1>2 DEF Ids, AccountInv, TablesOK

\* r is q but for the fields F.
SameBut(r, q, F) ==
    \A f \in {"mail", "field", "value", "old", "code", "id", "found", "mine", "first", "good", "in", "failed"} \ F :
        r[f] = q[f]

\* A thread at a step that is not about an object moves on, its call to be r.
LEMMA Moves ==
  ASSUME AccountInv, NEW th \in Threads, NEW w \in Ways, NEW i \in 1..Ends(w), pc[th] = Rest(w, i),
         Steps(w)[i] \notin {"lookUp", "set"},
         NEW v \in Ways, NEW j \in 1..Ends(v), NEW r \in CallRecord,
         pc' = [pc EXCEPT ![th] = Rest(v, j)], acc' = [acc EXCEPT ![th] = r],
         UNCHANGED <<users, UserDataBaseCache, UserMailToUserIdMap, doubted, overlapped, submitted, codeVars>>,
         account_faults' \in 0..MaxAccountFaults,
         Steps(v)[j] # "insert", At(th, v, j)'
  PROVE  AccountInv'
  <1>1. ~SetsLater(th)
    BY Reads DEF SetsLater
  <1>2. acc' \in [Threads -> CallRecord] /\ \A o \in Threads \ {th} : acc'[o] = acc[o]
    BY DEF AccountInv, TablesOK
  <1> QED BY <1>1, <1>2, LocalStep

LEMMA Stays ==
  ASSUME AccountInv, NEW th \in Threads, NEW w \in Ways, NEW i \in 1..Ends(w), pc[th] = Rest(w, i),
         Steps(w)[i] \notin {"lookUp", "set"},
         NEW v \in Ways, NEW j \in 1..Ends(v),
         pc' = [pc EXCEPT ![th] = Rest(v, j)], UNCHANGED acc,
         UNCHANGED <<users, UserDataBaseCache, UserMailToUserIdMap, doubted, overlapped, submitted, codeVars>>,
         account_faults' \in 0..MaxAccountFaults,
         Steps(v)[j] # "insert", At(th, v, j)
  PROVE  AccountInv'
  <1>1. acc[th] \in CallRecord /\ acc' = [acc EXCEPT ![th] = acc[th]]
    BY Tables DEF AccountInv, TablesOK
  <1>2. At(th, v, j)'
    BY AtKept DEF codeVars
  <1> QED BY <1>1, <1>2, Moves

\* What a login may pass with is what it was.
LEMMA GoodKept ==
  ASSUME NEW th \in Threads, acc'[th].mail = acc[th].mail, acc'[th].good = acc[th].good, acc'[th].value = acc[th].value,
         UNCHANGED <<users, UserDataBaseCache, doubted>>
  PROVE  /\ Wide(th)' <=> Wide(th)
         /\ Covers(th)' <=> Covers(th)
         /\ Another(th)' <=> Another(th)
         /\ Registered(acc[th].mail)' = Registered(acc[th].mail)
  BY DEF Wide, Covers, Another, Registered

LEMMA MailZero == NoToken.mail \notin Mails /\ NoRow.email \notin Mails
  BY AccountsAssumption DEF NoToken, NoRow

LEMMA CallLoggedIn ==
  ASSUME NEW c \in CallRecord, NEW b \in BOOLEAN, NEW id \in {0} \cup Ids
  PROVE  [c EXCEPT !.in = b, !.id = id] \in CallRecord
  BY DEF CallRecord

LEMMA FaultCounted ==
  ASSUME AccountInv
  PROVE  (AccountFault => account_faults' \in 0..MaxAccountFaults)
         /\ (UNCHANGED account_faults => account_faults' \in 0..MaxAccountFaults)
  BY AccountsAssumption DEF AccountInv, TablesOK, AccountFault

LEMMA LookUpInv ==
  ASSUME AccountInv, NEW th \in Threads, LookUp(th)
  PROVE  AccountInv'
  <1>0. PICK w \in Ways : \E i \in 1..Ends(w) : pc[th] = Rest(w, i) /\ At(th, w, i) /\ Steps(w)[i] = "lookUp"
    BY Starts DEF LookUp
  <1>1. PICK i \in 1..Ends(w) : pc[th] = Rest(w, i) /\ At(th, w, i) /\ Steps(w)[i] = "lookUp"
    BY <1>0
  <1>2. \/ w = "login" /\ i = 5
        \/ w = "loginCached" /\ i = 3
        \/ w = "changePassword" /\ i \in {1, 6}
        \/ w = "changeName" /\ i = 2
        \/ w = "resetVerify" /\ i = 8
    BY <1>1, LookUpPlace
  <1>3. /\ i + 1 \in 1..Ends(w) /\ i + 2 \in i..(Ends(w) - 1) /\ i + 3 \in 1..Ends(w) /\ i # Ends(w)
        /\ Steps(w)[i + 1] = "selectById" /\ Steps(w)[i + 2] = "emplace"
    BY <1>2, Lengths, LoginSteps, LoginCachedSteps, ChangePasswordSteps, ChangeNameSteps, ResetVerifySteps
  <1>4. acc[th] \in CallRecord /\ acc[th].id \in DOMAIN users /\ acc[th].id # 0 /\ acc[th].id \in Ids
    BY <1>1, <1>2, Tables DEF At, AboutUser, KnownAt, Changing
  <1>5. UNCHANGED <<users, UserDataBaseCache, UserMailToUserIdMap, doubted, overlapped, submitted, codeVars, account_faults>>
    BY DEF LookUp, Keep, accountDoubts
  <1>6. CASE UserDataBaseCache[acc[th].id] # NoRow
    <2> DEFINE r == [acc[th] EXCEPT !.found = TRUE, !.first = NoRow]
    <2>1. acc' = [acc EXCEPT ![th] = r] /\ Leave(th, "emplace")
      BY <1>6 DEF LookUp, Set
    <2>2. pc' = [pc EXCEPT ![th] = Rest(w, i + 3)]
      BY <1>1, <1>3, <2>1, LeaveRest
    <2>3. r \in CallRecord
      BY <1>4 DEF CallRecord
    <2>4. /\ acc' \in [Threads -> CallRecord] /\ (\A o \in Threads \ {th} : acc'[o] = acc[o]) /\ acc'[th] = r
          /\ r.found = TRUE /\ r.first = NoRow
          /\ r.mail = acc[th].mail /\ r.field = acc[th].field /\ r.value = acc[th].value /\ r.old = acc[th].old
          /\ r.code = acc[th].code /\ r.id = acc[th].id /\ r.mine = acc[th].mine /\ r.good = acc[th].good
          /\ r.in = acc[th].in /\ r.failed = acc[th].failed
      BY <2>1, <2>3, <1>4 DEF AccountInv, TablesOK, CallRecord
    <2> HIDE DEF r
    <2>5. Given(th, w, i + 3)' /\ AboutUser(th, w, i + 3)'
      BY <1>1, <1>2, <1>4, <1>5, <2>4 DEF At, Given, AboutUser, KnownAt, Changing
    <2>6. InHand(th, w, i + 3)' /\ Proven(th, w, i + 3)'
      BY <1>1, <1>2, <1>4, <1>5, <1>6, <2>4 DEF At, InHand, Proven, Changing, Uncached, Fresh, codeVars
    <2>7. AtCaches(th, w, i + 3)'
      BY <1>1, <1>2, <1>4, <1>5, <1>6, <2>4, LoginSteps, LoginCachedSteps, ChangePasswordSteps, ChangeNameSteps, ResetVerifySteps
      DEF At, AtCaches, WritingAt, Uncached, Fresh
    <2>8. Decided(th, w, i + 3)'
      BY <1>1, <1>2, <1>4, <1>5, <2>4, LoginSteps, LoginCachedSteps, Lengths
      DEF At, Decided, LoggingIn, Wide, Covers, Another, Registered
    <2>9. Steps(w)[i + 3] # "insert"
      BY <1>2, LoginSteps, LoginCachedSteps, ChangePasswordSteps, ChangeNameSteps, ResetVerifySteps
    <2>10. SetsLater(th) => SetsLater(th)'
      <3>1. pc'[th] = Rest(w, i + 3)
        BY <2>2 DEF AccountInv, TablesOK
      <3>2. WritingAt(w, i) => WritingAt(w, i + 3) /\ Steps(w)[i + 3] = "set"
        BY <1>2, ChangePasswordSteps, ChangeNameSteps, ResetVerifySteps DEF WritingAt
      <3> QED BY <3>1, <3>2, <1>1, <1>3, <2>4, Reads, ReadsNext DEF SetsLater
    <2> QED BY <1>3, <1>5, <2>2, <2>4, <2>5, <2>6, <2>7, <2>8, <2>9, <2>10, LocalStep DEF At, AccountInv, TablesOK
  <1>7. CASE UserDataBaseCache[acc[th].id] = NoRow
    <2>1. UNCHANGED acc /\ pc' = [pc EXCEPT ![th] = Rest(w, i + 1)]
      BY <1>7, <1>1, <1>3, Goes DEF LookUp
    <2>2. Given(th, w, i + 1)' /\ AboutUser(th, w, i + 1)' /\ InHand(th, w, i + 1)' /\ Proven(th, w, i + 1)'
      BY <1>1, <1>2, <1>4, <1>5, <2>1 DEF At, Given, AboutUser, KnownAt, Changing, InHand, Proven, Uncached, Fresh, codeVars
    <2>3. AtCaches(th, w, i + 1)'
      BY <1>1, <1>2, <1>3, <1>4, <1>5, <2>1 DEF At, AtCaches, WritingAt
    <2>4. Decided(th, w, i + 1)'
      BY <1>1, <1>2, <1>3, <1>4, <1>5, <2>1, Lengths DEF At, Decided, LoggingIn, Wide, Covers, Another, Registered
    <2> QED BY <1>3, <1>4, <1>5, <1>7, <2>1, <2>2, <2>3, <2>4, LocalStep DEF At, AccountInv, TablesOK, Uncached
  <1> QED BY <1>6, <1>7

LEMMA SelectByIdInv ==
  ASSUME AccountInv, NEW th \in Threads, SelectById(th)
  PROVE  AccountInv'
  <1>0. PICK w \in Ways : \E i \in 1..Ends(w) : pc[th] = Rest(w, i) /\ At(th, w, i) /\ Steps(w)[i] = "selectById"
    BY Starts DEF SelectById
  <1>1. PICK i \in 1..Ends(w) : pc[th] = Rest(w, i) /\ At(th, w, i) /\ Steps(w)[i] = "selectById"
    BY <1>0
  <1>2. \/ w = "login" /\ i = 6
        \/ w = "loginCached" /\ i = 4
        \/ w = "changePassword" /\ i \in {2, 7}
        \/ w = "changeName" /\ i = 3
        \/ w = "resetVerify" /\ i = 9
    BY <1>1, SelectByIdPlace
  <1>3. /\ i + 1 \in i..(Ends(w) - 1) /\ i + 2 \in 1..Ends(w) /\ i # Ends(w) /\ i + 1 \in 1..Ends(w)
        /\ Steps(w)[i + 1] = "emplace" /\ Steps(w)[i + 2] \in {"cacheUser", "login", "verifyOld", "set"}
        /\ Steps(w)[i + 2] = "cacheUser" => w = "login"
    BY <1>2, LoginSteps, LoginCachedSteps, ChangePasswordSteps, ChangeNameSteps, ResetVerifySteps
  <1>4. acc[th] \in CallRecord /\ acc[th].id \in DOMAIN users /\ acc[th].id # 0 /\ acc[th].id \in Ids
    BY <1>1, <1>2, Tables DEF At, AboutUser, KnownAt, Changing
  <1>5. UNCHANGED <<users, UserDataBaseCache, UserMailToUserIdMap, doubted, overlapped, submitted, codeVars>>
    BY DEF SelectById, Keep, accountDoubts
  <1>6. CASE Set(th, [acc[th] EXCEPT !.found = TRUE, !.first = users[acc[th].id]]) /\ Advance(th) /\ UNCHANGED account_faults
    <2> DEFINE r == [acc[th] EXCEPT !.found = TRUE, !.first = users[acc[th].id]]
    <2>1. acc' = [acc EXCEPT ![th] = r] /\ pc' = [pc EXCEPT ![th] = Rest(w, i + 1)]
      BY <1>6, <1>1, <1>3, Goes DEF Set
    <2>2. /\ r \in CallRecord /\ SameBut(r, acc[th], {"found", "first"}) /\ r.found = TRUE
          /\ r.first = users[acc[th].id] /\ r.first \in UserRow /\ r.first # NoRow
      <3>1. users[acc[th].id] \in UserRow /\ users[acc[th].id] # NoRow
        BY <1>4, Tables
      <3>2. r \in CallRecord
        BY <1>4, <3>1 DEF CallRecord
      <3>3. r.found = TRUE /\ r.first = users[acc[th].id]
        BY <1>4 DEF CallRecord
      <3>4. SameBut(r, acc[th], {"found", "first"})
        BY <1>4 DEF CallRecord, SameBut
      <3> QED BY <3>1, <3>2, <3>3, <3>4
    <2> HIDE DEF r
    <2>3. acc'[th] = r
      BY <2>1, Tables DEF AccountInv, TablesOK
    <2>4. Given(th, w, i + 1)' /\ AboutUser(th, w, i + 1)'
      BY <1>1, <1>2, <1>4, <1>5, <2>2, <2>3 DEF At, Given, AboutUser, KnownAt, Changing, SameBut
    <2>5. InHand(th, w, i + 1)' /\ Proven(th, w, i + 1)'
      BY <1>1, <1>2, <1>4, <1>5, <2>2, <2>3 DEF At, InHand, Proven, Changing, Uncached, Fresh, codeVars, SameBut
    <2>6. AtCaches(th, w, i + 1)'
      BY <1>1, <1>2, <1>3, <1>4, <1>5, <2>2, <2>3 DEF At, AtCaches, WritingAt, Uncached, Fresh, SameBut
    <2>7. Decided(th, w, i + 1)'
      BY <1>1, <1>2, <1>3, <1>4, <1>5, <2>2, <2>3, Lengths
      DEF At, Decided, LoggingIn, Wide, Covers, Another, Registered, SameBut
    <2>8. At(th, w, i + 1)'
      BY <2>4, <2>5, <2>6, <2>7 DEF At
    <2>9. Steps(w)[i + 1] # "insert" /\ Steps(w)[i] \notin {"lookUp", "set"}
      BY <1>1, <1>3
    <2>10. account_faults' \in 0..MaxAccountFaults
      BY <1>6, FaultCounted
    <2> QED BY <1>1, <1>3, <1>5, <2>1, <2>2, <2>8, <2>9, <2>10, Moves
  <1>7. CASE AccountFault /\ Set(th, Failed(th)) /\ Leave(th, "emplace")
    <2>b. (\A k \in i..(i + 1 - 1) : Steps(w)[k] # "emplace") /\ i + 1 + 1 = i + 2
      BY <1>1, <1>3
    <2> DEFINE r == [acc[th] EXCEPT !.found = FALSE, !.failed = TRUE]
    <2>1. acc' = [acc EXCEPT ![th] = r] /\ pc' = [pc EXCEPT ![th] = Rest(w, i + 2)]
      BY <1>7, <1>1, <1>3, <2>b, LeaveRest DEF Set, Failed
    <2>2. r \in CallRecord
      BY <1>4, <1>7, <2>b DEF CallRecord
    <2>3. r.found = FALSE /\ r.failed = TRUE
      BY <1>4 DEF CallRecord
    <2>4. SameBut(r, acc[th], {"found", "failed"})
      BY <1>4 DEF CallRecord, SameBut
    <2> HIDE DEF r
    <2>5. acc'[th] = r
      BY <2>1 DEF AccountInv, TablesOK
    <2>6. Given(th, w, i + 2)' /\ AboutUser(th, w, i + 2)'
      BY <1>7, <1>1, <1>2, <1>3, <1>4, <1>5, <2>b, <2>2, <2>3, <2>4, <2>5
      DEF At, Given, AboutUser, KnownAt, Changing, SameBut, codeVars
    <2>7. InHand(th, w, i + 2)' /\ Proven(th, w, i + 2)'
      BY <1>7, <1>1, <1>2, <1>3, <1>4, <1>5, <2>b, <2>2, <2>3, <2>4, <2>5
      DEF At, InHand, Proven, Changing, Uncached, Fresh, SameBut, codeVars
    <2>8. AtCaches(th, w, i + 2)'
      BY <1>7, <1>1, <1>2, <1>3, <1>4, <1>5, <2>b, <2>2, <2>3, <2>4, <2>5
      DEF At, AtCaches, WritingAt, Uncached, Fresh, SameBut, codeVars
    <2>9. Decided(th, w, i + 2)'
      BY <1>7, <1>1, <1>2, <1>3, <1>4, <1>5, <2>b, <2>2, <2>3, <2>4, <2>5
      DEF At, Decided, LoggingIn, Wide, Covers, Another, Registered, SameBut, codeVars
    <2>10. At(th, w, i + 2)' /\ account_faults' \in 0..MaxAccountFaults
      BY <1>7, <2>b, <2>6, <2>7, <2>8, <2>9, FaultCounted DEF At
    <2> QED BY <1>1, <1>3, <1>4, <1>5, <2>b, <2>1, <2>2, <2>10, Moves
  <1> QED BY <1>6, <1>7 DEF SelectById

LEMMA FindMappedInv ==
  ASSUME AccountInv, NEW th \in Threads, FindMapped(th)
  PROVE  AccountInv'
  <1>0. PICK w \in Ways : \E i \in 1..Ends(w) : pc[th] = Rest(w, i) /\ At(th, w, i) /\ Steps(w)[i] = "findMapped"
    BY Starts DEF FindMapped
  <1>1. PICK i \in 1..Ends(w) : pc[th] = Rest(w, i) /\ At(th, w, i) /\ Steps(w)[i] = "findMapped"
    BY <1>0
  <1>2. \/ w = "integrate" /\ i \in {1, 11}
        \/ w \in {"register", "reset"} /\ i = 1
        \/ w = "resetVerify" /\ i = 2
    BY <1>1, FindMappedPlace
  <1>3. /\ i # Ends(w) /\ i + 1 \in 1..Ends(w) /\ i + 4 \in i..(Ends(w) - 1) /\ i + 5 \in 1..Ends(w)
        /\ Steps(w)[i + 1] = "isKnown" /\ Steps(w)[i + 2] = "selectByMail" /\ Steps(w)[i + 3] = "cacheUser" /\ Steps(w)[i + 4] = "mapUser"
        /\ Steps(w)[i + 5] \in {"orRegister", "loginMapped", "generateCode", "generateToken", "update"}
    BY <1>2, IntegrateSteps, RegisterSteps, ResetSteps, ResetVerifySteps
  <1>4. acc[th] \in CallRecord /\ Ends(w) \in 1..Ends(w)
    BY Tables, StepsAre
  <1>5. UNCHANGED <<users, UserDataBaseCache, UserMailToUserIdMap, doubted, overlapped, submitted, codeVars>>
    BY DEF FindMapped, Keep, accountDoubts
  <1>6. CASE UserMailToUserIdMap[acc[th].mail] # 0
    <2> DEFINE r == [acc[th] EXCEPT !.id = UserMailToUserIdMap[acc[th].mail], !.found = TRUE]
    <2>a. /\ acc[th].mail \in Mails /\ UserMailToUserIdMap[acc[th].mail] \in Ids
          /\ UserMailToUserIdMap[acc[th].mail] \in DOMAIN users
          /\ UserDataBaseCache[UserMailToUserIdMap[acc[th].mail]] # NoRow
          /\ users[UserMailToUserIdMap[acc[th].mail]].email = acc[th].mail
      BY <1>1, <1>2, <1>6, AccountsAssumption DEF At, Given, Changing, AccountInv, TablesOK,
         MappedUserCached, NoRow, CacheOK
    <2>b. Leave(th, "mapUser") /\ (\A k \in i..(i + 4 - 1) : Steps(w)[k] # "mapUser")
      BY <1>1, <1>3, <1>6 DEF FindMapped
    <2>c. UNCHANGED account_faults
      BY DEF FindMapped
    <2>1. acc' = [acc EXCEPT ![th] = r] /\ pc' = [pc EXCEPT ![th] = Rest(w, i + 5)]
      BY <1>6, <1>1, <1>3, <2>a, <2>b, <2>c, LeaveRest DEF Set, FindMapped
    <2>2. r \in CallRecord
      BY <1>4, <1>6, <2>a, <2>b, <2>c DEF CallRecord
    <2>3. r.id = UserMailToUserIdMap[acc[th].mail] /\ r.found = TRUE
      BY <1>4 DEF CallRecord
    <2>4. SameBut(r, acc[th], {"id", "found"})
      BY <1>4 DEF CallRecord, SameBut
    <2> HIDE DEF r
    <2>5. acc'[th] = r
      BY <2>1 DEF AccountInv, TablesOK
    <2>6. Given(th, w, i + 5)' /\ AboutUser(th, w, i + 5)'
      BY <1>6, <1>1, <1>2, <1>3, <1>4, <1>5, <2>a, <2>b, <2>c, <2>2, <2>3, <2>4, <2>5
      DEF At, Given, AboutUser, KnownAt, Changing, SameBut, codeVars
    <2>7. InHand(th, w, i + 5)' /\ Proven(th, w, i + 5)'
      BY <1>6, <1>1, <1>2, <1>3, <1>4, <1>5, <2>a, <2>b, <2>c, <2>2, <2>3, <2>4, <2>5
      DEF At, InHand, Proven, Changing, Uncached, Fresh, SameBut, codeVars
    <2>8. AtCaches(th, w, i + 5)'
      BY <1>6, <1>1, <1>2, <1>3, <1>4, <1>5, <2>a, <2>b, <2>c, <2>2, <2>3, <2>4, <2>5
      DEF At, AtCaches, WritingAt, Uncached, Fresh, SameBut, codeVars
    <2>9. Decided(th, w, i + 5)'
      BY <1>6, <1>1, <1>2, <1>3, <1>4, <1>5, <2>a, <2>b, <2>c, <2>2, <2>3, <2>4, <2>5
      DEF At, Decided, LoggingIn, Wide, Covers, Another, Registered, SameBut, codeVars
    <2>10. At(th, w, i + 5)' /\ account_faults' \in 0..MaxAccountFaults
      BY <1>6, <2>a, <2>b, <2>c, <2>6, <2>7, <2>8, <2>9, FaultCounted DEF At
    <2> QED BY <1>1, <1>3, <1>4, <1>5, <2>a, <2>b, <2>c, <2>1, <2>2, <2>10, Moves
  <1>7. CASE UserMailToUserIdMap[acc[th].mail] = 0
    <2>c. UNCHANGED account_faults
      BY DEF FindMapped
    <2>1. UNCHANGED acc /\ pc' = [pc EXCEPT ![th] = Rest(w, i + 1)]
      BY <1>7, <1>1, <1>3, <2>c, Goes DEF FindMapped
    <2>2. Given(th, w, i + 1) /\ AboutUser(th, w, i + 1)
      BY <1>7, <1>1, <1>2, <1>3, <1>4, <2>c DEF At, Given, AboutUser, KnownAt, Changing
    <2>3. InHand(th, w, i + 1) /\ Proven(th, w, i + 1)
      BY <1>7, <1>1, <1>2, <1>3, <1>4, <2>c DEF At, InHand, Proven, Changing, Uncached, Fresh
    <2>4. AtCaches(th, w, i + 1)
      BY <1>7, <1>1, <1>2, <1>3, <1>4, <2>c DEF At, AtCaches, WritingAt, Uncached, Fresh
    <2>5. Decided(th, w, i + 1)
      BY <1>7, <1>1, <1>2, <1>3, <1>4, <2>c DEF At, Decided, LoggingIn, Wide, Covers, Another, Registered
    <2> QED BY <1>7, <1>1, <1>3, <1>4, <1>5, <2>1, <2>2, <2>3, <2>4, <2>5, <2>c, Stays, FaultCounted DEF At
  <1> QED BY <1>6, <1>7

LEMMA IsKnownInv ==
  ASSUME AccountInv, NEW th \in Threads, IsKnown(th)
  PROVE  AccountInv'
  <1>0. PICK w \in Ways : \E i \in 1..Ends(w) : pc[th] = Rest(w, i) /\ At(th, w, i) /\ Steps(w)[i] = "isKnown"
    BY Starts DEF IsKnown
  <1>1. PICK i \in 1..Ends(w) : pc[th] = Rest(w, i) /\ At(th, w, i) /\ Steps(w)[i] = "isKnown"
    BY <1>0
  <1>2. \/ w = "integrate" /\ i \in {2, 12}
        \/ w \in {"register", "reset"} /\ i = 2
        \/ w = "resetVerify" /\ i = 3
    BY <1>1, IsKnownPlace
  <1>3. /\ i # Ends(w) /\ i + 1 \in 1..Ends(w) /\ i + 3 \in i..(Ends(w) - 1) /\ i + 4 \in 1..Ends(w)
        /\ Steps(w)[i + 1] = "selectByMail" /\ Steps(w)[i + 2] = "cacheUser" /\ Steps(w)[i + 3] = "mapUser"
        /\ Steps(w)[i + 4] \in {"orRegister", "loginMapped", "generateCode", "generateToken", "update"}
    BY <1>2, IntegrateSteps, RegisterSteps, ResetSteps, ResetVerifySteps
  <1>4. acc[th] \in CallRecord /\ Ends(w) \in 1..Ends(w)
    BY Tables, StepsAre
  <1>5. UNCHANGED <<users, UserDataBaseCache, UserMailToUserIdMap, doubted, overlapped, submitted, codeVars>>
    BY DEF IsKnown, Keep, accountDoubts
  <1>6. CASE Advance(th) /\ UNCHANGED <<acc, account_faults>>
    <2>1. UNCHANGED acc /\ pc' = [pc EXCEPT ![th] = Rest(w, i + 1)]
      BY <1>6, <1>1, <1>3, Goes
    <2>2. Given(th, w, i + 1) /\ AboutUser(th, w, i + 1)
      BY <1>6, <1>1, <1>2, <1>3, <1>4 DEF At, Given, AboutUser, KnownAt, Changing
    <2>3. InHand(th, w, i + 1) /\ Proven(th, w, i + 1)
      BY <1>6, <1>1, <1>2, <1>3, <1>4 DEF At, InHand, Proven, Changing, Uncached, Fresh
    <2>4. AtCaches(th, w, i + 1)
      BY <1>6, <1>1, <1>2, <1>3, <1>4 DEF At, AtCaches, WritingAt, Uncached, Fresh
    <2>5. Decided(th, w, i + 1)
      BY <1>6, <1>1, <1>2, <1>3, <1>4 DEF At, Decided, LoggingIn, Wide, Covers, Another, Registered
    <2> QED BY <1>6, <1>1, <1>3, <1>4, <1>5, <2>1, <2>2, <2>3, <2>4, <2>5, Stays, FaultCounted DEF At
  <1>7. CASE Registered(acc[th].mail) = {} /\ Set(th, NotFound(th)) /\ Leave(th, "mapUser") /\ UNCHANGED account_faults
    <2> DEFINE r == [acc[th] EXCEPT !.found = FALSE]
    <2>b. \A k \in i..(i + 3 - 1) : Steps(w)[k] # "mapUser"
      BY <1>1, <1>3
    <2>1. acc' = [acc EXCEPT ![th] = r] /\ pc' = [pc EXCEPT ![th] = Rest(w, i + 4)]
      BY <1>7, <1>1, <1>3, <2>b, LeaveRest DEF Set, NotFound
    <2>2. r \in CallRecord
      BY <1>4, <1>7, <2>b DEF CallRecord
    <2>3. r.found = FALSE
      BY <1>4 DEF CallRecord
    <2>4. SameBut(r, acc[th], {"found"})
      BY <1>4 DEF CallRecord, SameBut
    <2> HIDE DEF r
    <2>5. acc'[th] = r
      BY <2>1 DEF AccountInv, TablesOK
    <2>6. Given(th, w, i + 4)' /\ AboutUser(th, w, i + 4)'
      BY <1>7, <1>1, <1>2, <1>3, <1>4, <1>5, <2>b, <2>2, <2>3, <2>4, <2>5
      DEF At, Given, AboutUser, KnownAt, Changing, SameBut, codeVars
    <2>7. InHand(th, w, i + 4)' /\ Proven(th, w, i + 4)'
      BY <1>7, <1>1, <1>2, <1>3, <1>4, <1>5, <2>b, <2>2, <2>3, <2>4, <2>5
      DEF At, InHand, Proven, Changing, Uncached, Fresh, SameBut, codeVars
    <2>8. AtCaches(th, w, i + 4)'
      BY <1>7, <1>1, <1>2, <1>3, <1>4, <1>5, <2>b, <2>2, <2>3, <2>4, <2>5
      DEF At, AtCaches, WritingAt, Uncached, Fresh, SameBut, codeVars
    <2>9. Decided(th, w, i + 4)'
      BY <1>7, <1>1, <1>2, <1>3, <1>4, <1>5, <2>b, <2>2, <2>3, <2>4, <2>5
      DEF At, Decided, LoggingIn, Wide, Covers, Another, Registered, SameBut, codeVars
    <2>10. At(th, w, i + 4)' /\ account_faults' \in 0..MaxAccountFaults
      BY <1>7, <2>b, <2>6, <2>7, <2>8, <2>9, FaultCounted DEF At
    <2> QED BY <1>1, <1>3, <1>4, <1>5, <2>b, <2>1, <2>2, <2>10, Moves
  <1>8. CASE AccountFault /\ Set(th, Failed(th)) /\ Leave(th, "mapUser")
    <2> DEFINE r == [acc[th] EXCEPT !.found = FALSE, !.failed = TRUE]
    <2>b. \A k \in i..(i + 3 - 1) : Steps(w)[k] # "mapUser"
      BY <1>1, <1>3
    <2>1. acc' = [acc EXCEPT ![th] = r] /\ pc' = [pc EXCEPT ![th] = Rest(w, i + 4)]
      BY <1>8, <1>1, <1>3, <2>b, LeaveRest DEF Set, Failed
    <2>2. r \in CallRecord
      BY <1>4, <1>8, <2>b DEF CallRecord
    <2>3. r.found = FALSE /\ r.failed = TRUE
      BY <1>4 DEF CallRecord
    <2>4. SameBut(r, acc[th], {"found", "failed"})
      BY <1>4 DEF CallRecord, SameBut
    <2> HIDE DEF r
    <2>5. acc'[th] = r
      BY <2>1 DEF AccountInv, TablesOK
    <2>6. Given(th, w, i + 4)' /\ AboutUser(th, w, i + 4)'
      BY <1>8, <1>1, <1>2, <1>3, <1>4, <1>5, <2>b, <2>2, <2>3, <2>4, <2>5
      DEF At, Given, AboutUser, KnownAt, Changing, SameBut, codeVars
    <2>7. InHand(th, w, i + 4)' /\ Proven(th, w, i + 4)'
      BY <1>8, <1>1, <1>2, <1>3, <1>4, <1>5, <2>b, <2>2, <2>3, <2>4, <2>5
      DEF At, InHand, Proven, Changing, Uncached, Fresh, SameBut, codeVars
    <2>8. AtCaches(th, w, i + 4)'
      BY <1>8, <1>1, <1>2, <1>3, <1>4, <1>5, <2>b, <2>2, <2>3, <2>4, <2>5
      DEF At, AtCaches, WritingAt, Uncached, Fresh, SameBut, codeVars
    <2>9. Decided(th, w, i + 4)'
      BY <1>8, <1>1, <1>2, <1>3, <1>4, <1>5, <2>b, <2>2, <2>3, <2>4, <2>5
      DEF At, Decided, LoggingIn, Wide, Covers, Another, Registered, SameBut, codeVars
    <2>10. At(th, w, i + 4)' /\ account_faults' \in 0..MaxAccountFaults
      BY <1>8, <2>b, <2>6, <2>7, <2>8, <2>9, FaultCounted DEF At
    <2> QED BY <1>1, <1>3, <1>4, <1>5, <2>b, <2>1, <2>2, <2>10, Moves
  <1> QED BY <1>6, <1>7, <1>8 DEF IsKnown

LEMMA DownloadByMailInv ==
  ASSUME AccountInv, NEW th \in Threads, DownloadUserFromDBByMail(th)
  PROVE  AccountInv'
  <1>0. PICK w \in Ways : \E i \in 1..Ends(w) : pc[th] = Rest(w, i) /\ At(th, w, i) /\ Steps(w)[i] = "selectByMail"
    BY Starts DEF DownloadUserFromDBByMail
  <1>1. PICK i \in 1..Ends(w) : pc[th] = Rest(w, i) /\ At(th, w, i) /\ Steps(w)[i] = "selectByMail"
    BY <1>0
  <1>2. \/ w = "login" /\ i = 2
        \/ w = "integrate" /\ i \in {3, 13}
        \/ w \in {"register", "reset"} /\ i = 3
        \/ w = "resetVerify" /\ i = 4
    BY <1>1, SelectByMailPlace
  <1>3. /\ i # Ends(w) /\ i + 1 \in 1..Ends(w)
        /\ w = "login" => Steps(w)[i + 1] = "verify" /\ i + 1 = 3
        /\ w # "login" => Steps(w)[i + 1] = "cacheUser"
        /\ w = "resetVerify" => i + 1 = 5
        /\ ~WritingAt(w, i + 1) /\ ~KnownAt(w, i + 1) /\ i + 1 # Ends(w)
    BY <1>2, LoginSteps, IntegrateSteps, RegisterSteps, ResetSteps, ResetVerifySteps DEF WritingAt, KnownAt, Changing
  <1>4. acc[th] \in CallRecord /\ Ends(w) \in 1..Ends(w)
    BY Tables, StepsAre
  <1>5. UNCHANGED <<users, UserDataBaseCache, UserMailToUserIdMap, doubted, overlapped, submitted, codeVars>>
    BY DEF DownloadUserFromDBByMail, Keep, accountDoubts
  <1>6. ASSUME NEW k \in Registered(acc[th].mail), UNCHANGED account_faults, Advance(th),
               Set(th, [acc[th] EXCEPT !.found = TRUE, !.id = k, !.mine = users[k]])
        PROVE  AccountInv'
    <2> DEFINE r == [acc[th] EXCEPT !.found = TRUE, !.id = k, !.mine = users[k]]
    <2>a. /\ acc[th].mail \in Mails /\ k \in DOMAIN users /\ k \in Ids /\ k # 0 /\ users[k].email = acc[th].mail
          /\ users[k] \in UserRow /\ users[k] # NoRow
      BY <1>6, <1>1, <1>2, Tables DEF At, Given, Changing, Registered
    <2>1. acc' = [acc EXCEPT ![th] = r] /\ pc' = [pc EXCEPT ![th] = Rest(w, i + 1)]
      BY <1>6, <1>1, <1>3, <2>a, Goes DEF Set
    <2>2. r \in CallRecord
      BY <1>4, <1>6, <2>a DEF CallRecord
    <2>3. r.found = TRUE /\ r.id = k /\ r.mine = users[k]
      BY <1>4 DEF CallRecord
    <2>4. SameBut(r, acc[th], {"found", "id", "mine"})
      BY <1>4 DEF CallRecord, SameBut
    <2> HIDE DEF r
    <2>5. acc'[th] = r
      BY <2>1 DEF AccountInv, TablesOK
    <2>6. Given(th, w, i + 1)' /\ AboutUser(th, w, i + 1)'
      BY <1>6, <1>1, <1>2, <1>3, <1>4, <1>5, <2>a, <2>2, <2>3, <2>4, <2>5
      DEF At, Given, AboutUser, KnownAt, Changing, SameBut, codeVars
    <2>7. InHand(th, w, i + 1)' /\ Proven(th, w, i + 1)'
      BY <1>6, <1>1, <1>2, <1>3, <1>4, <1>5, <2>a, <2>2, <2>3, <2>4, <2>5
      DEF At, InHand, Proven, Changing, Uncached, Fresh, SameBut, codeVars
    <2>8. AtCaches(th, w, i + 1)'
      BY <1>6, <1>1, <1>2, <1>3, <1>4, <1>5, <2>a, <2>2, <2>3, <2>4, <2>5
      DEF At, AtCaches, WritingAt, Uncached, Fresh, SameBut, codeVars
    <2>9. Decided(th, w, i + 1)'
      BY <1>6, <1>1, <1>2, <1>3, <1>4, <1>5, <2>a, <2>2, <2>3, <2>4, <2>5
      DEF At, Decided, LoggingIn, Wide, Covers, Another, Registered, SameBut, codeVars
    <2>10. At(th, w, i + 1)' /\ account_faults' \in 0..MaxAccountFaults
      BY <1>6, <2>a, <2>6, <2>7, <2>8, <2>9, FaultCounted DEF At
    <2> QED BY <1>1, <1>3, <1>4, <1>5, <2>a, <2>1, <2>2, <2>10, Moves
  <1>7. CASE Registered(acc[th].mail) = {} /\ Set(th, NotFound(th)) /\ Advance(th) /\ UNCHANGED account_faults
    <2> DEFINE r == [acc[th] EXCEPT !.found = FALSE]
    <2>1. acc' = [acc EXCEPT ![th] = r] /\ pc' = [pc EXCEPT ![th] = Rest(w, i + 1)]
      BY <1>7, <1>1, <1>3, Goes DEF Set, NotFound
    <2>2. r \in CallRecord
      BY <1>4, <1>7 DEF CallRecord
    <2>3. r.found = FALSE
      BY <1>4 DEF CallRecord
    <2>4. SameBut(r, acc[th], {"found"})
      BY <1>4 DEF CallRecord, SameBut
    <2> HIDE DEF r
    <2>5. acc'[th] = r
      BY <2>1 DEF AccountInv, TablesOK
    <2>6. Given(th, w, i + 1)' /\ AboutUser(th, w, i + 1)'
      BY <1>7, <1>1, <1>2, <1>3, <1>4, <1>5, <2>2, <2>3, <2>4, <2>5
      DEF At, Given, AboutUser, KnownAt, Changing, SameBut, codeVars
    <2>7. InHand(th, w, i + 1)' /\ Proven(th, w, i + 1)'
      BY <1>7, <1>1, <1>2, <1>3, <1>4, <1>5, <2>2, <2>3, <2>4, <2>5
      DEF At, InHand, Proven, Changing, Uncached, Fresh, SameBut, codeVars
    <2>8. AtCaches(th, w, i + 1)'
      BY <1>7, <1>1, <1>2, <1>3, <1>4, <1>5, <2>2, <2>3, <2>4, <2>5
      DEF At, AtCaches, WritingAt, Uncached, Fresh, SameBut, codeVars
    <2>9. Decided(th, w, i + 1)'
      BY <1>7, <1>1, <1>2, <1>3, <1>4, <1>5, <2>2, <2>3, <2>4, <2>5
      DEF At, Decided, LoggingIn, Wide, Covers, Another, Registered, SameBut, codeVars
    <2>10. At(th, w, i + 1)' /\ account_faults' \in 0..MaxAccountFaults
      BY <1>7, <2>6, <2>7, <2>8, <2>9, FaultCounted DEF At
    <2> QED BY <1>1, <1>3, <1>4, <1>5, <2>1, <2>2, <2>10, Moves
  <1>8. CASE AccountFault /\ Set(th, Failed(th)) /\ Advance(th)
    <2> DEFINE r == [acc[th] EXCEPT !.found = FALSE, !.failed = TRUE]
    <2>1. acc' = [acc EXCEPT ![th] = r] /\ pc' = [pc EXCEPT ![th] = Rest(w, i + 1)]
      BY <1>8, <1>1, <1>3, Goes DEF Set, Failed
    <2>2. r \in CallRecord
      BY <1>4, <1>8 DEF CallRecord
    <2>3. r.found = FALSE /\ r.failed = TRUE
      BY <1>4 DEF CallRecord
    <2>4. SameBut(r, acc[th], {"found", "failed"})
      BY <1>4 DEF CallRecord, SameBut
    <2> HIDE DEF r
    <2>5. acc'[th] = r
      BY <2>1 DEF AccountInv, TablesOK
    <2>6. Given(th, w, i + 1)' /\ AboutUser(th, w, i + 1)'
      BY <1>8, <1>1, <1>2, <1>3, <1>4, <1>5, <2>2, <2>3, <2>4, <2>5
      DEF At, Given, AboutUser, KnownAt, Changing, SameBut, codeVars
    <2>7. InHand(th, w, i + 1)' /\ Proven(th, w, i + 1)'
      BY <1>8, <1>1, <1>2, <1>3, <1>4, <1>5, <2>2, <2>3, <2>4, <2>5
      DEF At, InHand, Proven, Changing, Uncached, Fresh, SameBut, codeVars
    <2>8. AtCaches(th, w, i + 1)'
      BY <1>8, <1>1, <1>2, <1>3, <1>4, <1>5, <2>2, <2>3, <2>4, <2>5
      DEF At, AtCaches, WritingAt, Uncached, Fresh, SameBut, codeVars
    <2>9. Decided(th, w, i + 1)'
      BY <1>8, <1>1, <1>2, <1>3, <1>4, <1>5, <2>2, <2>3, <2>4, <2>5
      DEF At, Decided, LoggingIn, Wide, Covers, Another, Registered, SameBut, codeVars
    <2>10. At(th, w, i + 1)' /\ account_faults' \in 0..MaxAccountFaults
      BY <1>8, <2>6, <2>7, <2>8, <2>9, FaultCounted DEF At
    <2> QED BY <1>1, <1>3, <1>4, <1>5, <2>1, <2>2, <2>10, Moves
  <1> QED BY <1>6, <1>7, <1>8 DEF DownloadUserFromDBByMail

LEMMA FindCachedInv ==
  ASSUME AccountInv, NEW th \in Threads, FindCached(th)
  PROVE  AccountInv'
  <1>0. PICK w \in Ways : \E i \in 1..Ends(w) : pc[th] = Rest(w, i) /\ At(th, w, i) /\ Steps(w)[i] = "findCached"
    BY Starts DEF FindCached
  <1>1. PICK i \in 1..Ends(w) : pc[th] = Rest(w, i) /\ At(th, w, i) /\ Steps(w)[i] = "findCached"
    BY <1>0
  <1>2. w = "login" /\ i = 1
    BY <1>1, FindCachedPlace
  <1>3. /\ i # Ends(w) /\ i + 1 \in 1..Ends(w) /\ i + 1 = 2 /\ Steps(w)[i + 1] = "selectByMail" /\ i + 1 # Ends(w)
        /\ Op(th) = "login"
    BY <1>1, <1>2, LoginSteps, Reads DEF OpOf
  <1>4. acc[th] \in CallRecord /\ Ends(w) \in 1..Ends(w)
    BY Tables, StepsAre
  <1>5. UNCHANGED <<users, UserDataBaseCache, UserMailToUserIdMap, doubted, overlapped, submitted, codeVars>>
    BY DEF FindCached, Keep, accountDoubts
  <1>6. ASSUME NEW k \in Ids, UserDataBaseCache[k].email = acc[th].mail, UNCHANGED account_faults,
               Set(th, [acc[th] EXCEPT !.found = TRUE, !.id = k]), pc' = [pc EXCEPT ![th] = Append(LoginCached, Op(th))]
        PROVE  AccountInv'
    <2> DEFINE r == [acc[th] EXCEPT !.found = TRUE, !.id = k]
    <2>a. /\ acc[th].mail \in Mails /\ k # 0 /\ k \in DOMAIN users /\ users[k].email = acc[th].mail
          /\ UserDataBaseCache[k] # NoRow
      BY <1>1, <1>2, <1>6, AccountsAssumption, Tables DEF At, Given, Changing, NoRow, AccountInv,
         CacheOK
    <2>b. /\ "loginCached" \in Ways /\ 1 \in 1..Ends("loginCached") /\ 1 # Ends("loginCached")
          /\ Steps("loginCached")[1] = "verify"
      BY LoginCachedSteps DEF Ways
    <2>c. Append(LoginCached, Op(th)) = Rest("loginCached", 1)
      BY <1>3, LoginCachedBegins
    <2>1. acc' = [acc EXCEPT ![th] = r] /\ pc' = [pc EXCEPT ![th] = Rest("loginCached", 1)]
      BY <1>6, <1>1, <1>3, <2>a, <2>b, <2>c, <1>6 DEF Set
    <2>2. r \in CallRecord
      BY <1>4, <1>6, <2>a, <2>b, <2>c DEF CallRecord
    <2>3. r.found = TRUE /\ r.id = k
      BY <1>4 DEF CallRecord
    <2>4. SameBut(r, acc[th], {"found", "id"})
      BY <1>4 DEF CallRecord, SameBut
    <2> HIDE DEF r
    <2>5. acc'[th] = r
      BY <2>1 DEF AccountInv, TablesOK
    <2>6. Given(th, "loginCached", 1)' /\ AboutUser(th, "loginCached", 1)'
      BY <1>6, <1>1, <1>2, <1>3, <1>4, <1>5, <2>a, <2>b, <2>c, <2>2, <2>3, <2>4, <2>5
      DEF At, Given, AboutUser, KnownAt, Changing, SameBut, codeVars
    <2>7. InHand(th, "loginCached", 1)' /\ Proven(th, "loginCached", 1)'
      BY <1>6, <1>1, <1>2, <1>3, <1>4, <1>5, <2>a, <2>b, <2>c, <2>2, <2>3, <2>4, <2>5
      DEF At, InHand, Proven, Changing, Uncached, Fresh, SameBut, codeVars
    <2>8. AtCaches(th, "loginCached", 1)'
      BY <1>6, <1>1, <1>2, <1>3, <1>4, <1>5, <2>a, <2>b, <2>c, <2>2, <2>3, <2>4, <2>5
      DEF At, AtCaches, WritingAt, Uncached, Fresh, SameBut, codeVars
    <2>9. Decided(th, "loginCached", 1)'
      BY <1>1, <1>2, <1>5, <2>b, <2>3, <2>4, <2>5, GoodKept DEF SameBut, At, InHand, Decided,
         LoggingIn
    <2>10. At(th, "loginCached", 1)' /\ account_faults' \in 0..MaxAccountFaults
      BY <1>6, <2>a, <2>b, <2>c, <2>6, <2>7, <2>8, <2>9, FaultCounted DEF At
    <2> QED BY <1>1, <1>3, <1>4, <1>5, <2>a, <2>b, <2>c, <2>1, <2>2, <2>10, Moves
  <1>7. CASE UNCHANGED <<acc, account_faults>> /\ Advance(th)
    <2>1. UNCHANGED acc /\ pc' = [pc EXCEPT ![th] = Rest(w, i + 1)]
      BY <1>7, <1>1, <1>3, Goes
    <2>2. Given(th, w, i + 1) /\ AboutUser(th, w, i + 1)
      BY <1>7, <1>1, <1>2, <1>3, <1>4 DEF At, Given, AboutUser, KnownAt, Changing
    <2>3. InHand(th, w, i + 1) /\ Proven(th, w, i + 1)
      BY <1>7, <1>1, <1>2, <1>3, <1>4 DEF At, InHand, Proven, Changing, Uncached, Fresh
    <2>4. AtCaches(th, w, i + 1)
      BY <1>7, <1>1, <1>2, <1>3, <1>4 DEF At, AtCaches, WritingAt, Uncached, Fresh
    <2>5. Decided(th, w, i + 1)
      BY <1>7, <1>1, <1>2, <1>3, <1>4 DEF At, Decided, LoggingIn, Wide, Covers, Another, Registered
    <2> QED BY <1>7, <1>1, <1>3, <1>4, <1>5, <2>1, <2>2, <2>3, <2>4, <2>5, Stays, FaultCounted DEF At
  <1> QED BY <1>6, <1>7 DEF FindCached

LEMMA VerifyPasswordsInv ==
  ASSUME AccountInv, NEW th \in Threads, VerifyPasswords(th)
  PROVE  AccountInv'
  <1>0. PICK w \in Ways : \E i \in 1..Ends(w) : pc[th] = Rest(w, i) /\ At(th, w, i) /\ Steps(w)[i] = "verify"
    BY Starts DEF VerifyPasswords
  <1>1. PICK i \in 1..Ends(w) : pc[th] = Rest(w, i) /\ At(th, w, i) /\ Steps(w)[i] = "verify"
    BY <1>0
  <1>2. \/ w = "login" /\ i = 3
        \/ w = "loginCached" /\ i = 1
    BY <1>1, VerifyPlace
  <1>3. /\ i # Ends(w) /\ i + 1 \in 1..Ends(w) /\ Steps(w)[i + 1] = "touch" /\ i + 1 # Ends(w)
        /\ Steps(w)[Ends(w)] = "login" /\ (w = "login" => Ends(w) = 10) /\ (w = "loginCached" => Ends(w) = 6)
    BY <1>2, LoginSteps, LoginCachedSteps
  <1>4. acc[th] \in CallRecord /\ Ends(w) \in 1..Ends(w)
    BY Tables, StepsAre
  <1>5. UNCHANGED <<users, UserDataBaseCache, UserMailToUserIdMap, doubted, overlapped, submitted, codeVars>>
    BY DEF VerifyPasswords, Keep, accountDoubts
  <1>a. /\ acc[th].value \in Passwords /\ acc[th].value # NoPassword
        /\ acc[th].found => PasswordHash(th) \in acc[th].good \/ acc[th].id \in doubted
    <2>1. acc[th].value \in Passwords /\ acc[th].value # NoPassword
      BY <1>1, <1>2, AccountsAssumption DEF At, Given, NoPassword
    <2>2. ASSUME acc[th].found PROVE acc[th].id \in Registered(acc[th].mail)
      BY <1>1, <1>2, <2>2, Tables DEF At, AboutUser, Registered, Changing
    <2>3. ASSUME acc[th].found PROVE PasswordHash(th) \in acc[th].good \/ acc[th].id \in doubted
      <3> DEFINE id == acc[th].id
      <3>1. id \in Registered(acc[th].mail) /\ id \in Ids /\ id # 0
        BY <2>2, <2>3, Tables DEF Registered
      <3>2. UserDataBaseCache[id] \in UserRow \cup {NoRow} /\ acc[th].mine \in UserRow \cup {NoRow}
        BY <3>1, <1>1 DEF AccountInv, TablesOK, At, InHand
      <3>3. CASE acc[th].mine # NoRow
        BY <1>1, <1>2, <3>2, <3>3 DEF At, Decided, LoggingIn, PasswordHash, UserRow, Wide
      <3>4. CASE acc[th].mine = NoRow
        BY <1>1, <1>2, <2>3, <3>1, <3>2, <3>4 DEF At, InHand, Uncached, PasswordHash, UserRow,
           Decided, LoggingIn, Wide, Covers
      <3> QED BY <3>3, <3>4
    <2> QED BY <2>1, <2>3
  <1>6. CASE acc[th].found /\ PasswordHash(th) = acc[th].value
    <2> DEFINE r == [acc[th] EXCEPT !.in = TRUE]
    <2>c. UNCHANGED account_faults
      BY DEF VerifyPasswords
    <2>1. acc' = [acc EXCEPT ![th] = r] /\ pc' = [pc EXCEPT ![th] = Rest(w, i + 1)]
      BY <1>6, <1>1, <1>3, <2>c, <1>a, Goes DEF Set, VerifyPasswords
    <2>2. r \in CallRecord
      BY <1>4, <1>6, <2>c, <1>a DEF CallRecord
    <2>3. r.in = TRUE
      BY <1>4 DEF CallRecord
    <2>4. SameBut(r, acc[th], {"in"})
      BY <1>4 DEF CallRecord, SameBut
    <2> HIDE DEF r
    <2>5. acc'[th] = r
      BY <2>1 DEF AccountInv, TablesOK
    <2>6. Given(th, w, i + 1)' /\ AboutUser(th, w, i + 1)'
      BY <1>6, <1>1, <1>2, <1>3, <1>4, <1>5, <2>c, <1>a, <2>2, <2>3, <2>4, <2>5
      DEF At, Given, AboutUser, KnownAt, Changing, SameBut, codeVars
    <2>7. InHand(th, w, i + 1)' /\ Proven(th, w, i + 1)'
      BY <1>6, <1>1, <1>2, <1>3, <1>4, <1>5, <2>c, <1>a, <2>2, <2>3, <2>4, <2>5
      DEF At, InHand, Proven, Changing, Uncached, Fresh, SameBut, codeVars
    <2>8. AtCaches(th, w, i + 1)'
      BY <1>6, <1>1, <1>2, <1>3, <1>4, <1>5, <2>c, <1>a, <2>2, <2>3, <2>4, <2>5
      DEF At, AtCaches, WritingAt, Uncached, Fresh, SameBut, codeVars
    <2>9. Decided(th, w, i + 1)'
      BY <1>6, <1>1, <1>2, <1>3, <1>4, <1>5, <2>c, <1>a, <2>2, <2>3, <2>4, <2>5
      DEF At, Decided, LoggingIn, Wide, Covers, Another, Registered, SameBut, codeVars
    <2>10. At(th, w, i + 1)' /\ account_faults' \in 0..MaxAccountFaults
      BY <1>6, <2>c, <1>a, <2>6, <2>7, <2>8, <2>9, FaultCounted DEF At
    <2> QED BY <1>1, <1>3, <1>4, <1>5, <2>c, <1>a, <2>1, <2>2, <2>10, Moves
  <1>7. CASE ~(acc[th].found /\ PasswordHash(th) = acc[th].value)
    <2>c. UNCHANGED account_faults
      BY DEF VerifyPasswords
    <2>1. UNCHANGED acc /\ pc' = [pc EXCEPT ![th] = Rest(w, Ends(w))]
      BY <1>7, <1>1, <1>3, <2>c, <1>a, Goes DEF VerifyPasswords
    <2>2. Given(th, w, Ends(w)) /\ AboutUser(th, w, Ends(w))
      BY <1>7, <1>1, <1>2, <1>3, <1>4, <2>c, <1>a DEF At, Given, AboutUser, KnownAt, Changing
    <2>3. InHand(th, w, Ends(w)) /\ Proven(th, w, Ends(w))
      BY <1>7, <1>1, <1>2, <1>3, <1>4, <2>c, <1>a DEF At, InHand, Proven, Changing, Uncached, Fresh
    <2>4. AtCaches(th, w, Ends(w))
      BY <1>7, <1>1, <1>2, <1>3, <1>4, <2>c, <1>a DEF At, AtCaches, WritingAt, Uncached, Fresh
    <2>5. Decided(th, w, Ends(w))
      BY <1>7, <1>1, <1>2, <1>3, <1>4, <2>c, <1>a DEF At, Decided, LoggingIn, Wide, Covers, Another, Registered
    <2> QED BY <1>7, <1>1, <1>3, <1>4, <1>5, <2>1, <2>2, <2>3, <2>4, <2>5, <2>c, <1>a, Stays, FaultCounted DEF At
  <1> QED BY <1>6, <1>7

LEMMA UpdateUserActivityInv ==
  ASSUME AccountInv, NEW th \in Threads, UpdateUserActivity(th)
  PROVE  AccountInv'
  <1>0. PICK w \in Ways : \E i \in 1..Ends(w) : pc[th] = Rest(w, i) /\ At(th, w, i) /\ Steps(w)[i] = "touch"
    BY Starts DEF UpdateUserActivity
  <1>1. PICK i \in 1..Ends(w) : pc[th] = Rest(w, i) /\ At(th, w, i) /\ Steps(w)[i] = "touch"
    BY <1>0
  <1>2. \/ w = "login" /\ i = 4
        \/ w = "loginCached" /\ i = 2
    BY <1>1, TouchPlace
  <1>3. /\ i # Ends(w) /\ i + 1 \in 1..Ends(w) /\ i + 3 \in i..(Ends(w) - 1) /\ i + 4 \in 1..Ends(w)
        /\ Steps(w)[i + 1] = "lookUp" /\ Steps(w)[i + 2] = "selectById" /\ Steps(w)[i + 3] = "emplace"
        /\ w = "login" => Steps(w)[i + 4] = "cacheUser"
        /\ w = "loginCached" => i + 4 = Ends(w) /\ Steps(w)[i + 4] = "login"
    BY <1>2, LoginSteps, LoginCachedSteps
  <1>4. acc[th] \in CallRecord /\ Ends(w) \in 1..Ends(w)
    BY Tables, StepsAre
  <1>5. UNCHANGED <<users, UserDataBaseCache, UserMailToUserIdMap, doubted, overlapped, submitted, codeVars>>
    BY DEF UpdateUserActivity, Keep, accountDoubts
  <1>6. CASE Advance(th) /\ UNCHANGED <<acc, account_faults>>
    <2>1. UNCHANGED acc /\ pc' = [pc EXCEPT ![th] = Rest(w, i + 1)]
      BY <1>6, <1>1, <1>3, Goes
    <2>2. Given(th, w, i + 1) /\ AboutUser(th, w, i + 1)
      BY <1>6, <1>1, <1>2, <1>3, <1>4 DEF At, Given, AboutUser, KnownAt, Changing
    <2>3. InHand(th, w, i + 1) /\ Proven(th, w, i + 1)
      BY <1>6, <1>1, <1>2, <1>3, <1>4 DEF At, InHand, Proven, Changing, Uncached, Fresh
    <2>4. AtCaches(th, w, i + 1)
      BY <1>6, <1>1, <1>2, <1>3, <1>4 DEF At, AtCaches, WritingAt, Uncached, Fresh
    <2>5. Decided(th, w, i + 1)
      BY <1>6, <1>1, <1>2, <1>3, <1>4 DEF At, Decided, LoggingIn, Wide, Covers, Another, Registered
    <2> QED BY <1>6, <1>1, <1>3, <1>4, <1>5, <2>1, <2>2, <2>3, <2>4, <2>5, Stays, FaultCounted DEF At
  <1>7. CASE AccountFault /\ Leave(th, "emplace") /\ UNCHANGED acc
    <2>b. (\A k \in i..(i + 3 - 1) : Steps(w)[k] # "emplace") /\ i + 3 + 1 = i + 4
      BY <1>1, <1>3
    <2>1. UNCHANGED acc /\ pc' = [pc EXCEPT ![th] = Rest(w, i + 4)]
      BY <1>7, <1>1, <1>3, <2>b, LeaveRest
    <2>2. Given(th, w, i + 4) /\ AboutUser(th, w, i + 4)
      BY <1>7, <1>1, <1>2, <1>3, <1>4, <2>b DEF At, Given, AboutUser, KnownAt, Changing
    <2>3. InHand(th, w, i + 4) /\ Proven(th, w, i + 4)
      BY <1>7, <1>1, <1>2, <1>3, <1>4, <2>b DEF At, InHand, Proven, Changing, Uncached, Fresh
    <2>4. AtCaches(th, w, i + 4)
      BY <1>7, <1>1, <1>2, <1>3, <1>4, <2>b DEF At, InHand, AtCaches, WritingAt, Uncached, Fresh
    <2>5. Decided(th, w, i + 4)
      BY <1>7, <1>1, <1>2, <1>3, <1>4, <2>b DEF At, Decided, LoggingIn, Wide, Covers, Another, Registered
    <2> QED BY <1>7, <1>1, <1>2, <1>3, <1>4, <1>5, <2>1, <2>2, <2>3, <2>4, <2>5, <2>b, Stays, FaultCounted DEF At
  <1> QED BY <1>6, <1>7 DEF UpdateUserActivity

LEMMA LoginMappedInv ==
  ASSUME AccountInv, NEW th \in Threads, LoginMapped(th)
  PROVE  AccountInv'
  <1>0. PICK w \in Ways : \E i \in 1..Ends(w) : pc[th] = Rest(w, i) /\ At(th, w, i) /\ Steps(w)[i] = "loginMapped"
    BY Starts DEF LoginMapped
  <1>1. PICK i \in 1..Ends(w) : pc[th] = Rest(w, i) /\ At(th, w, i) /\ Steps(w)[i] = "loginMapped"
    BY <1>0
  <1>2. w = "integrate" /\ i = 16
    BY <1>1, LoginMappedPlace
  <1>3. /\ i # Ends(w) /\ i + 1 \in 1..Ends(w) /\ i + 1 = 17 /\ Steps(w)[i + 1] = "integrate"
    BY <1>2, IntegrateSteps
  <1>4. acc[th] \in CallRecord /\ Ends(w) \in 1..Ends(w)
    BY Tables, StepsAre
  <1>5. UNCHANGED <<users, UserDataBaseCache, UserMailToUserIdMap, doubted, overlapped, submitted, codeVars>>
    BY DEF LoginMapped, Keep, accountDoubts
  <1>a. /\ UserMailToUserIdMap[acc[th].mail] \in {0} \cup Ids
        /\ UserMailToUserIdMap[acc[th].mail] # 0 =>
               /\ UserMailToUserIdMap[acc[th].mail] \in DOMAIN users
               /\ UserDataBaseCache[UserMailToUserIdMap[acc[th].mail]] # NoRow
    BY <1>1, <1>2, AccountsAssumption DEF At, Given, Changing, AccountInv, TablesOK,
       MappedUserCached, NoRow, CacheOK
  <1>6. CASE TRUE
    <2> DEFINE r == [acc[th] EXCEPT !.in = (acc[th].in \/ acc[th].found), !.id = UserMailToUserIdMap[acc[th].mail]]
    <2>a. UNCHANGED account_faults /\ Set(th, r) /\ Advance(th)
      BY DEF LoginMapped, Set
    <2>b. /\ UserMailToUserIdMap[acc[th].mail] \in {0} \cup Ids
          /\ UserMailToUserIdMap[acc[th].mail] # 0 =>
                 /\ UserMailToUserIdMap[acc[th].mail] \in DOMAIN users
                 /\ UserDataBaseCache[UserMailToUserIdMap[acc[th].mail]] # NoRow
      BY <1>a
    <2>1. acc' = [acc EXCEPT ![th] = r] /\ pc' = [pc EXCEPT ![th] = Rest(w, i + 1)]
      BY <1>6, <1>1, <1>3, <2>a, <2>b, Goes DEF Set
    <2>2. r \in CallRecord
      BY <1>4, <2>b, CallLoggedIn
    <2>3. r.in = (acc[th].in \/ acc[th].found) /\ r.id = UserMailToUserIdMap[acc[th].mail]
      BY <1>4 DEF CallRecord
    <2>4. SameBut(r, acc[th], {"in", "id"})
      BY <1>4 DEF CallRecord, SameBut
    <2> HIDE DEF r
    <2>5. acc'[th] = r
      BY <2>1 DEF AccountInv, TablesOK
    <2>6. Given(th, w, i + 1)' /\ AboutUser(th, w, i + 1)'
      BY <1>6, <1>1, <1>2, <1>3, <1>4, <1>5, <2>a, <2>b, <2>2, <2>3, <2>4, <2>5
      DEF At, Given, AboutUser, KnownAt, Changing, SameBut, codeVars
    <2>7. InHand(th, w, i + 1)' /\ Proven(th, w, i + 1)'
      BY <1>6, <1>1, <1>2, <1>3, <1>4, <1>5, <2>a, <2>b, <2>2, <2>3, <2>4, <2>5
      DEF At, InHand, Proven, Changing, Uncached, Fresh, SameBut, codeVars
    <2>8. AtCaches(th, w, i + 1)'
      BY <1>6, <1>1, <1>2, <1>3, <1>4, <1>5, <2>a, <2>b, <2>2, <2>3, <2>4, <2>5
      DEF At, AtCaches, WritingAt, Uncached, Fresh, SameBut, codeVars
    <2>9. Decided(th, w, i + 1)'
      BY <1>6, <1>1, <1>2, <1>3, <1>4, <1>5, <2>a, <2>b, <2>2, <2>3, <2>4, <2>5
      DEF At, Decided, LoggingIn, Wide, Covers, Another, Registered, SameBut, codeVars
    <2>10. At(th, w, i + 1)' /\ account_faults' \in 0..MaxAccountFaults
      BY <1>6, <2>a, <2>b, <2>6, <2>7, <2>8, <2>9, FaultCounted DEF At
    <2> QED BY <1>1, <1>3, <1>4, <1>5, <2>a, <2>b, <2>1, <2>2, <2>10, Moves
  <1> QED BY <1>6

LEMMA OrRegisterInv ==
  ASSUME AccountInv, NEW th \in Threads, OrRegister(th)
  PROVE  AccountInv'
  <1>0. PICK w \in Ways : \E i \in 1..Ends(w) : pc[th] = Rest(w, i) /\ At(th, w, i) /\ Steps(w)[i] = "orRegister"
    BY Starts DEF OrRegister
  <1>1. PICK i \in 1..Ends(w) : pc[th] = Rest(w, i) /\ At(th, w, i) /\ Steps(w)[i] = "orRegister"
    BY <1>0
  <1>2. w = "integrate" /\ i = 6
    BY <1>1, OrRegisterPlace
  <1>3. /\ i # Ends(w) /\ i + 1 \in 1..Ends(w) /\ Steps(w)[i + 1] = "isTaken" /\ i + 10 \in 1..Ends(w) /\ i + 10 = 16
        /\ Steps(w)[i + 10] = "loginMapped" /\ Ends(w) = 17 /\ Steps(w)[Ends(w)] = "integrate"
    BY <1>2, IntegrateSteps
  <1>4. acc[th] \in CallRecord /\ Ends(w) \in 1..Ends(w)
    BY Tables, StepsAre
  <1>5. UNCHANGED <<users, UserDataBaseCache, UserMailToUserIdMap, doubted, overlapped, submitted, codeVars>>
    BY DEF OrRegister, Keep, accountDoubts
  <1>6. CASE pc' = [pc EXCEPT ![th] = <<"loginMapped", "integrate">>] /\ UNCHANGED <<acc, account_faults>>
    <2>a. Rest("integrate", 16) = <<"loginMapped", "integrate">>
      <3>0. "integrate" \in Ways /\ 16 \in 1..Ends("integrate") /\ Ends("integrate") = 17
        BY IntegrateSteps DEF Ways
      <3>1. Rest("integrate", 16) \in Seq(StepNames) /\ Len(Rest("integrate", 16)) = Ends("integrate") - 16 + 1
            /\ \A j \in 1..(Ends("integrate") - 16 + 1) : Rest("integrate", 16)[j] = Steps("integrate")[16 + j - 1]
        BY <3>0, RestIs
      <3>2. Len(Rest("integrate", 16)) = 2 /\ Rest("integrate", 16)[1] = "loginMapped" /\ Rest("integrate", 16)[2] = "integrate"
        <4>1. Len(Rest("integrate", 16)) = 2 /\ Ends("integrate") - 16 + 1 = 2
          <5>1. Ends("integrate") - 16 + 1 = 2
            BY <3>0
          <5>2. Len(Rest("integrate", 16)) = Ends("integrate") - 16 + 1
            BY <3>1
          <5> QED BY <5>1, <5>2
        <4>2. 1 \in 1..2 /\ 2 \in 1..2 /\ 16 + 1 - 1 = 16 /\ 16 + 2 - 1 = 17
          OBVIOUS
        <4>3. Rest("integrate", 16)[1] = Steps("integrate")[16] /\ Rest("integrate", 16)[2] = Steps("integrate")[17]
          BY <3>1, <4>1, <4>2
        <4> QED BY <4>1, <4>3, IntegrateSteps
      <3> QED BY <3>1, <3>2
    <2>1. UNCHANGED acc /\ pc' = [pc EXCEPT ![th] = Rest(w, i + 10)]
      BY <1>6, <1>1, <1>3, <2>a, <1>2
    <2>2. Given(th, w, i + 10) /\ AboutUser(th, w, i + 10)
      BY <1>6, <1>1, <1>2, <1>3, <1>4, <2>a DEF At, Given, AboutUser, KnownAt, Changing
    <2>3. InHand(th, w, i + 10) /\ Proven(th, w, i + 10)
      BY <1>6, <1>1, <1>2, <1>3, <1>4, <2>a DEF At, InHand, Proven, Changing, Uncached, Fresh
    <2>4. AtCaches(th, w, i + 10)
      BY <1>6, <1>1, <1>2, <1>3, <1>4, <2>a DEF At, AtCaches, WritingAt, Uncached, Fresh
    <2>5. Decided(th, w, i + 10)
      BY <1>6, <1>1, <1>2, <1>3, <1>4, <2>a DEF At, Decided, LoggingIn, Wide, Covers, Another, Registered
    <2> QED BY <1>6, <1>1, <1>3, <1>4, <1>5, <2>1, <2>2, <2>3, <2>4, <2>5, <2>a, Stays, FaultCounted DEF At
  <1>7. CASE Advance(th) /\ UNCHANGED <<acc, account_faults>>
    <2>1. UNCHANGED acc /\ pc' = [pc EXCEPT ![th] = Rest(w, i + 1)]
      BY <1>7, <1>1, <1>3, Goes
    <2>2. Given(th, w, i + 1) /\ AboutUser(th, w, i + 1)
      BY <1>7, <1>1, <1>2, <1>3, <1>4 DEF At, Given, AboutUser, KnownAt, Changing
    <2>3. InHand(th, w, i + 1) /\ Proven(th, w, i + 1)
      BY <1>7, <1>1, <1>2, <1>3, <1>4 DEF At, InHand, Proven, Changing, Uncached, Fresh
    <2>4. AtCaches(th, w, i + 1)
      BY <1>7, <1>1, <1>2, <1>3, <1>4 DEF At, AtCaches, WritingAt, Uncached, Fresh
    <2>5. Decided(th, w, i + 1)
      BY <1>7, <1>1, <1>2, <1>3, <1>4 DEF At, Decided, LoggingIn, Wide, Covers, Another, Registered
    <2> QED BY <1>7, <1>1, <1>3, <1>4, <1>5, <2>1, <2>2, <2>3, <2>4, <2>5, Stays, FaultCounted DEF At
  <1>8. CASE Return(th) /\ UNCHANGED <<acc, account_faults>>
    <2>1. UNCHANGED acc /\ pc' = [pc EXCEPT ![th] = Rest(w, Ends(w))]
      BY <1>8, <1>1, <1>3, Goes
    <2>2. Given(th, w, Ends(w)) /\ AboutUser(th, w, Ends(w))
      BY <1>8, <1>1, <1>2, <1>3, <1>4 DEF At, Given, AboutUser, KnownAt, Changing
    <2>3. InHand(th, w, Ends(w)) /\ Proven(th, w, Ends(w))
      BY <1>8, <1>1, <1>2, <1>3, <1>4 DEF At, InHand, Proven, Changing, Uncached, Fresh
    <2>4. AtCaches(th, w, Ends(w))
      BY <1>8, <1>1, <1>2, <1>3, <1>4 DEF At, AtCaches, WritingAt, Uncached, Fresh
    <2>5. Decided(th, w, Ends(w))
      BY <1>8, <1>1, <1>2, <1>3, <1>4 DEF At, Decided, LoggingIn, Wide, Covers, Another, Registered
    <2> QED BY <1>8, <1>1, <1>3, <1>4, <1>5, <2>1, <2>2, <2>3, <2>4, <2>5, Stays, FaultCounted DEF At
  <1> QED BY <1>6, <1>7, <1>8 DEF OrRegister

LEMMA VerifyOldInv ==
  ASSUME AccountInv, NEW th \in Threads, VerifyOld(th)
  PROVE  AccountInv'
  <1>0. PICK w \in Ways : \E i \in 1..Ends(w) : pc[th] = Rest(w, i) /\ At(th, w, i) /\ Steps(w)[i] = "verifyOld"
    BY Starts DEF VerifyOld
  <1>1. PICK i \in 1..Ends(w) : pc[th] = Rest(w, i) /\ At(th, w, i) /\ Steps(w)[i] = "verifyOld"
    BY <1>0
  <1>2. w = "changePassword" /\ i = 4
    BY <1>1, VerifyOldPlace
  <1>3. /\ i # Ends(w) /\ i + 1 \in 1..Ends(w) /\ Steps(w)[i + 1] = "update" /\ Steps(w)[Ends(w)] = "changePassword" /\ Ends(w) = 10
    BY <1>2, ChangePasswordSteps
  <1>4. acc[th] \in CallRecord /\ Ends(w) \in 1..Ends(w)
    BY Tables, StepsAre
  <1>5. UNCHANGED <<users, UserDataBaseCache, UserMailToUserIdMap, doubted, overlapped, submitted, codeVars>>
    BY DEF VerifyOld, Keep, accountDoubts
  <1>6. CASE Advance(th) /\ UNCHANGED <<acc, account_faults>>
    <2>1. UNCHANGED acc /\ pc' = [pc EXCEPT ![th] = Rest(w, i + 1)]
      BY <1>6, <1>1, <1>3, Goes
    <2>2. Given(th, w, i + 1) /\ AboutUser(th, w, i + 1)
      BY <1>6, <1>1, <1>2, <1>3, <1>4 DEF At, Given, AboutUser, KnownAt, Changing
    <2>3. InHand(th, w, i + 1) /\ Proven(th, w, i + 1)
      BY <1>6, <1>1, <1>2, <1>3, <1>4 DEF At, InHand, Proven, Changing, Uncached, Fresh
    <2>4. AtCaches(th, w, i + 1)
      BY <1>6, <1>1, <1>2, <1>3, <1>4 DEF At, AtCaches, WritingAt, Uncached, Fresh
    <2>5. Decided(th, w, i + 1)
      BY <1>6, <1>1, <1>2, <1>3, <1>4 DEF At, Decided, LoggingIn, Wide, Covers, Another, Registered
    <2> QED BY <1>6, <1>1, <1>3, <1>4, <1>5, <2>1, <2>2, <2>3, <2>4, <2>5, Stays, FaultCounted DEF At
  <1>7. CASE Return(th) /\ UNCHANGED <<acc, account_faults>>
    <2>1. UNCHANGED acc /\ pc' = [pc EXCEPT ![th] = Rest(w, Ends(w))]
      BY <1>7, <1>1, <1>3, Goes
    <2>2. Given(th, w, Ends(w)) /\ AboutUser(th, w, Ends(w))
      BY <1>7, <1>1, <1>2, <1>3, <1>4 DEF At, Given, AboutUser, KnownAt, Changing
    <2>3. InHand(th, w, Ends(w)) /\ Proven(th, w, Ends(w))
      BY <1>7, <1>1, <1>2, <1>3, <1>4 DEF At, InHand, Proven, Changing, Uncached, Fresh
    <2>4. AtCaches(th, w, Ends(w))
      BY <1>7, <1>1, <1>2, <1>3, <1>4 DEF At, AtCaches, WritingAt, Uncached, Fresh
    <2>5. Decided(th, w, Ends(w))
      BY <1>7, <1>1, <1>2, <1>3, <1>4 DEF At, Decided, LoggingIn, Wide, Covers, Another, Registered
    <2> QED BY <1>7, <1>1, <1>3, <1>4, <1>5, <2>1, <2>2, <2>3, <2>4, <2>5, Stays, FaultCounted DEF At
  <1> QED BY <1>6, <1>7 DEF VerifyOld, AdvanceIf

LEMMA ValidateResetTokenInv ==
  ASSUME AccountInv, NEW th \in Threads, ValidateResetToken(th)
  PROVE  AccountInv'
  <1>0. PICK w \in Ways : \E i \in 1..Ends(w) : pc[th] = Rest(w, i) /\ At(th, w, i) /\ Steps(w)[i] = "validateToken"
    BY Starts DEF ValidateResetToken
  <1>1. PICK i \in 1..Ends(w) : pc[th] = Rest(w, i) /\ At(th, w, i) /\ Steps(w)[i] = "validateToken"
    BY <1>0
  <1>2. w = "resetVerify" /\ i = 1
    BY <1>1, ValidateTokenPlace
  <1>3. /\ i # Ends(w) /\ i + 1 \in 1..Ends(w) /\ Steps(w)[i + 1] = "findMapped" /\ Steps(w)[Ends(w)] = "resetVerify" /\ Ends(w) = 12
    BY <1>2, ResetVerifySteps
  <1>4. acc[th] \in CallRecord /\ Ends(w) \in 1..Ends(w)
    BY Tables, StepsAre
  <1>5. UNCHANGED <<users, UserDataBaseCache, UserMailToUserIdMap, doubted, overlapped, submitted, codeVars>>
    BY DEF ValidateResetToken, Keep, accountDoubts
  <1>6. CASE ResetTokenValid(acc[th].mail, acc[th].code) /\ Advance(th) /\ UNCHANGED <<acc, account_faults>>
    <2>a. acc[th].mail \in issued
      BY <1>1, <1>2, <1>6, MailZero DEF At, Given, Changing, ResetTokenValid, AccountInv, CodesOK
    <2>1. UNCHANGED acc /\ pc' = [pc EXCEPT ![th] = Rest(w, i + 1)]
      BY <1>6, <1>1, <1>3, <2>a, Goes
    <2>2. Given(th, w, i + 1) /\ AboutUser(th, w, i + 1)
      BY <1>6, <1>1, <1>2, <1>3, <1>4, <2>a DEF At, Given, AboutUser, KnownAt, Changing
    <2>3. InHand(th, w, i + 1) /\ Proven(th, w, i + 1)
      BY <1>6, <1>1, <1>2, <1>3, <1>4, <2>a DEF At, InHand, Proven, Changing, Uncached, Fresh
    <2>4. AtCaches(th, w, i + 1)
      BY <1>6, <1>1, <1>2, <1>3, <1>4, <2>a DEF At, AtCaches, WritingAt, Uncached, Fresh
    <2>5. Decided(th, w, i + 1)
      BY <1>6, <1>1, <1>2, <1>3, <1>4, <2>a DEF At, Decided, LoggingIn, Wide, Covers, Another, Registered
    <2> QED BY <1>6, <1>1, <1>3, <1>4, <1>5, <2>1, <2>2, <2>3, <2>4, <2>5, <2>a, Stays, FaultCounted DEF At
  <1>7. CASE Return(th) /\ UNCHANGED <<acc, account_faults>>
    <2>1. UNCHANGED acc /\ pc' = [pc EXCEPT ![th] = Rest(w, Ends(w))]
      BY <1>7, <1>1, <1>3, Goes
    <2>2. Given(th, w, Ends(w)) /\ AboutUser(th, w, Ends(w))
      BY <1>7, <1>1, <1>2, <1>3, <1>4 DEF At, Given, AboutUser, KnownAt, Changing
    <2>3. InHand(th, w, Ends(w)) /\ Proven(th, w, Ends(w))
      BY <1>7, <1>1, <1>2, <1>3, <1>4 DEF At, InHand, Proven, Changing, Uncached, Fresh
    <2>4. AtCaches(th, w, Ends(w))
      BY <1>7, <1>1, <1>2, <1>3, <1>4 DEF At, AtCaches, WritingAt, Uncached, Fresh
    <2>5. Decided(th, w, Ends(w))
      BY <1>7, <1>1, <1>2, <1>3, <1>4 DEF At, Decided, LoggingIn, Wide, Covers, Another, Registered
    <2> QED BY <1>7, <1>1, <1>3, <1>4, <1>5, <2>1, <2>2, <2>3, <2>4, <2>5, Stays, FaultCounted DEF At
  <1> QED BY <1>6, <1>7 DEF ValidateResetToken, AdvanceIf

LEMMA ValidateCodeInv ==
  ASSUME AccountInv, NEW th \in Threads, ValidateCode(th)
  PROVE  AccountInv'
  <1>0. PICK w \in Ways : \E i \in 1..Ends(w) : pc[th] = Rest(w, i) /\ At(th, w, i) /\ Steps(w)[i] = "validateCode"
    BY Starts DEF ValidateCode
  <1>1. PICK i \in 1..Ends(w) : pc[th] = Rest(w, i) /\ At(th, w, i) /\ Steps(w)[i] = "validateCode"
    BY <1>0
  <1>2. w = "registerVerify" /\ i = 1
    BY <1>1, ValidateCodePlace
  <1>3. /\ i # Ends(w) /\ i + 1 \in 1..Ends(w) /\ Steps(w)[i + 1] = "isTaken" /\ Steps(w)[Ends(w)] = "registerVerify" /\ Ends(w) = 7
    BY <1>2, RegisterVerifySteps
  <1>4. acc[th] \in CallRecord /\ Ends(w) \in 1..Ends(w)
    BY Tables, StepsAre
  <1>5. UNCHANGED <<users, UserDataBaseCache, UserMailToUserIdMap, doubted, overlapped, submitted, codeVars>>
    BY DEF ValidateCode, Keep, accountDoubts
  <1>6. CASE CodeValid(acc[th].mail, acc[th].code)
    <2> DEFINE r == [acc[th] EXCEPT !.old = MailToPendingRegistration[acc[th].mail].username, !.value = MailToPendingRegistration[acc[th].mail].password]
    <2>a. Set(th, r) /\ Advance(th) /\ UNCHANGED account_faults
      BY <1>6 DEF ValidateCode
    <2>b. /\ MailToPendingRegistration[acc[th].mail].username \in Names
          /\ MailToPendingRegistration[acc[th].mail].password \in Passwords
          /\ <<acc[th].mail, acc[th].code, MailToPendingRegistration[acc[th].mail].password>> \in submitted
      BY <1>1, <1>2, <1>6, MailedCodesAssumption DEF At, Given, Changing, AccountInv, TablesOK,
         MailedCodesTypeOK, CodeValid, NoPending, CodesOK, Pending
    <2>1. acc' = [acc EXCEPT ![th] = r] /\ pc' = [pc EXCEPT ![th] = Rest(w, i + 1)]
      BY <1>6, <1>1, <1>3, <2>a, <2>b, Goes DEF Set
    <2>2. r \in CallRecord
      BY <1>4, <1>6, <2>a, <2>b DEF CallRecord
    <2>3. r.old = MailToPendingRegistration[acc[th].mail].username /\ r.value = MailToPendingRegistration[acc[th].mail].password
      BY <1>4 DEF CallRecord
    <2>4. SameBut(r, acc[th], {"old", "value"})
      BY <1>4 DEF CallRecord, SameBut
    <2> HIDE DEF r
    <2>5. acc'[th] = r
      BY <2>1 DEF AccountInv, TablesOK
    <2>6. Given(th, w, i + 1)' /\ AboutUser(th, w, i + 1)'
      BY <1>6, <1>1, <1>2, <1>3, <1>4, <1>5, <2>a, <2>b, <2>2, <2>3, <2>4, <2>5
      DEF At, Given, AboutUser, KnownAt, Changing, SameBut, codeVars
    <2>7. InHand(th, w, i + 1)' /\ Proven(th, w, i + 1)'
      BY <1>6, <1>1, <1>2, <1>3, <1>4, <1>5, <2>a, <2>b, <2>2, <2>3, <2>4, <2>5
      DEF At, InHand, Proven, Changing, Uncached, Fresh, SameBut, codeVars
    <2>8. AtCaches(th, w, i + 1)'
      BY <1>6, <1>1, <1>2, <1>3, <1>4, <1>5, <2>a, <2>b, <2>2, <2>3, <2>4, <2>5
      DEF At, AtCaches, WritingAt, Uncached, Fresh, SameBut, codeVars
    <2>9. Decided(th, w, i + 1)'
      BY <1>6, <1>1, <1>2, <1>3, <1>4, <1>5, <2>a, <2>b, <2>2, <2>3, <2>4, <2>5
      DEF At, Decided, LoggingIn, Wide, Covers, Another, Registered, SameBut, codeVars
    <2>10. At(th, w, i + 1)' /\ account_faults' \in 0..MaxAccountFaults
      BY <1>6, <2>a, <2>b, <2>6, <2>7, <2>8, <2>9, FaultCounted DEF At
    <2> QED BY <1>1, <1>3, <1>4, <1>5, <2>a, <2>b, <2>1, <2>2, <2>10, Moves
  <1>7. CASE ~CodeValid(acc[th].mail, acc[th].code)
    <2>c. UNCHANGED account_faults
      BY DEF ValidateCode
    <2>1. UNCHANGED acc /\ pc' = [pc EXCEPT ![th] = Rest(w, Ends(w))]
      BY <1>7, <1>1, <1>3, <2>c, Goes DEF ValidateCode
    <2>2. Given(th, w, Ends(w)) /\ AboutUser(th, w, Ends(w))
      BY <1>7, <1>1, <1>2, <1>3, <1>4, <2>c DEF At, Given, AboutUser, KnownAt, Changing
    <2>3. InHand(th, w, Ends(w)) /\ Proven(th, w, Ends(w))
      BY <1>7, <1>1, <1>2, <1>3, <1>4, <2>c DEF At, InHand, Proven, Changing, Uncached, Fresh
    <2>4. AtCaches(th, w, Ends(w))
      BY <1>7, <1>1, <1>2, <1>3, <1>4, <2>c DEF At, AtCaches, WritingAt, Uncached, Fresh
    <2>5. Decided(th, w, Ends(w))
      BY <1>7, <1>1, <1>2, <1>3, <1>4, <2>c DEF At, Decided, LoggingIn, Wide, Covers, Another, Registered
    <2> QED BY <1>7, <1>1, <1>3, <1>4, <1>5, <2>1, <2>2, <2>3, <2>4, <2>5, <2>c, Stays, FaultCounted DEF At
  <1> QED BY <1>6, <1>7

(***************************************************************************)
(* The reply, and the calls.                                               *)
(***************************************************************************)
LEMMA AccountReplyInv ==
  ASSUME AccountInv, NEW th \in Threads, AccountReply(th)
  PROVE  AccountInv'
  <1>1. /\ pc' = [pc EXCEPT ![th] = <<>>] /\ acc' = [acc EXCEPT ![th] = NoAccountCall]
        /\ UNCHANGED <<users, UserDataBaseCache, UserMailToUserIdMap, doubted, overlapped, submitted, codeVars, account_faults>>
    BY DEF AccountReply, Begin, Finish
  <1>2. /\ pc'[th] = <<>> /\ acc'[th] = NoAccountCall
        /\ \A o \in Threads \ {th} : pc'[o] = pc[o] /\ acc'[o] = acc[o]
    BY <1>1 DEF AccountInv, TablesOK
  <1>3. TablesOK'
    BY <1>1 DEF AccountInv, TablesOK, NoAccountCall, CallRecord, MailedCodesTypeOK, codeVars
  <1>4. \A o \in Threads : ThreadOK(o)'
    BY <1>1, <1>2, OtherKept DEF ThreadOK, AccountInv, codeVars
  <1>5. ASSUME NEW o \in Threads \ {th} PROVE (SetsLater(o)' <=> SetsLater(o)) /\ (Inserting(o)' <=> Inserting(o))
    BY <1>2 DEF SetsLater, Inserting, Writing, AtStep, Busy
  <1>6. CacheOK'
    BY <1>1, <1>2, <1>5 DEF AccountReply, SetsLater, AtStep, AccountOps, AccountInv, CacheOK
  <1>7. InsertsOK'
    BY <1>1, <1>2, <1>5, ReadsIdle DEF Inserting, Registered, AccountInv, InsertsOK
  <1>8. MappedUserCached' /\ CodesOK' /\ OneAccountPerMail'
    BY <1>1 DEF AccountInv, MappedUserCached, CodesOK, OneAccountPerMail, codeVars
  <1> QED BY <1>3, <1>4, <1>6, <1>7, <1>8 DEF AccountInv

LEMMA FirstSteps ==
  ASSUME NEW w \in Ways, w # "loginCached"
  PROVE  /\ Steps(w)[1] \in {"findCached", "findMapped", "validateCode", "lookUp", "update", "validateToken"}
         /\ 1 \in 1..Ends(w) /\ 1 # Ends(w) /\ Rest(w, 1) = Steps(w)
  <1>1. Steps(w)[1] \in {"findCached", "findMapped", "validateCode", "lookUp", "update", "validateToken"}
    BY LoginSteps, IntegrateSteps, RegisterSteps, RegisterVerifySteps, ChangePasswordSteps, ChangeNameSteps,
       ResetSteps, ResetVerifySteps DEF Ways
  <1>2. 1 \in 1..Ends(w) /\ 1 # Ends(w)
    BY StepsAre
  <1> QED BY <1>1, <1>2, WholeRest

LEMMA Begins ==
  ASSUME AccountInv, NEW th \in Threads, NEW w \in Ways, w # "loginCached", NEW r \in CallRecord, NEW steps, NEW op,
         Enter(th, steps, op), Append(steps, op) = Steps(w), Begin(th, r), UNCHANGED <<codeVars, submitted>>,
         r.mine = NoRow, r.first = NoRow, r.id \in {0} \cup DOMAIN users, Changing(w) => r.id # 0,
         r.found => Changing(w), acc'[th] = r => Given(th, w, 1)',
         w = "login" /\ acc'[th] = r => /\ Wide(th)' \/ Covers(th)'
                                        /\ Another(th)' \/ Registered(r.mail)' # {}
  PROVE  AccountInv'
  <1>1. /\ pc' = [pc EXCEPT ![th] = Rest(w, 1)] /\ 1 \in 1..Ends(w) /\ 1 # Ends(w)
        /\ Steps(w)[1] \in {"findCached", "findMapped", "validateCode", "lookUp", "update", "validateToken"}
    BY FirstSteps DEF Enter
  <1>2. UNCHANGED <<users, UserDataBaseCache, UserMailToUserIdMap, doubted, overlapped, submitted, codeVars, account_faults>>
    BY DEF Begin
  <1>3. acc' \in [Threads -> CallRecord] /\ acc'[th] = r /\ \A o \in Threads \ {th} : acc'[o] = acc[o]
    BY DEF Begin, AccountInv, TablesOK
  <1>4. ~SetsLater(th)
    BY DEF Enter, SetsLater, AtStep
  <1>5. Given(th, w, 1)' /\ AboutUser(th, w, 1)'
    BY <1>2, <1>3 DEF AboutUser, KnownAt, Changing
  <1>6. InHand(th, w, 1)'
    BY <1>3 DEF InHand
  <1>7. AtCaches(th, w, 1)' /\ Proven(th, w, 1)'
    BY <1>1, <1>3 DEF AtCaches, WritingAt, Proven
  <1>8. Decided(th, w, 1)'
    BY <1>1, <1>3 DEF Decided, LoggingIn
  <1> QED BY <1>1, <1>2, <1>3, <1>4, <1>5, <1>6, <1>7, <1>8, LocalStep DEF At, AccountInv, TablesOK

LEMMA IntegrateInv ==
  ASSUME AccountInv, NEW th \in Threads, NEW m \in Mails, NEW n \in Names, Integrate(th, m, n)
  PROVE  AccountInv'
  <1> DEFINE r == [NoAccountCall EXCEPT !.mail = m, !.old = n, !.value = NoPassword]
  <1>1. "integrate" \in Ways /\ "integrate" # "loginCached"
    BY DEF Ways
  <1>3. r \in CallRecord
    BY DEF NoAccountCall, CallRecord, NoPassword
  <1>4. r.mine = NoRow /\ r.first = NoRow /\ r.id = 0 /\ r.found = FALSE /\ r.field = "password" /\ r.mail = m /\ r.value = NoPassword /\ r.old = n
    BY DEF NoAccountCall
  <1>5. Begin(th, r) /\ UNCHANGED <<codeVars, submitted>>
    BY DEF Integrate
  <1> HIDE DEF r
  <1>6. acc'[th] = r => Given(th, "integrate", 1)'
    BY <1>4 DEF Given, Changing, NoPassword
  <1>7. PICK steps, op : Enter(th, steps, op) /\ Append(steps, op) = Steps("integrate")
    BY DEF Integrate, Steps
  <1> QED BY <1>1, <1>3, <1>4, <1>5, <1>6, <1>7, Begins DEF Changing

LEMMA RegisterInv ==
  ASSUME AccountInv, NEW th \in Threads, NEW m \in Mails, NEW n \in Names, NEW p \in Passwords, Register(th, m, n, p)
  PROVE  AccountInv'
  <1> DEFINE r == [NoAccountCall EXCEPT !.mail = m, !.old = n, !.value = p]
  <1>1. "register" \in Ways /\ "register" # "loginCached"
    BY DEF Ways
  <1>3. r \in CallRecord
    BY DEF NoAccountCall, CallRecord, NoPassword
  <1>4. r.mine = NoRow /\ r.first = NoRow /\ r.id = 0 /\ r.found = FALSE /\ r.field = "password" /\ r.mail = m /\ r.value = p /\ r.old = n
    BY DEF NoAccountCall
  <1>5. Begin(th, r) /\ UNCHANGED <<codeVars, submitted>>
    BY DEF Register
  <1> HIDE DEF r
  <1>6. acc'[th] = r => Given(th, "register", 1)'
    BY <1>4 DEF Given, Changing, NoPassword
  <1>7. PICK steps, op : Enter(th, steps, op) /\ Append(steps, op) = Steps("register")
    BY DEF Register, Steps
  <1> QED BY <1>1, <1>3, <1>4, <1>5, <1>6, <1>7, Begins DEF Changing

LEMMA RegisterVerifyInv ==
  ASSUME AccountInv, NEW th \in Threads, NEW m \in Mails, NEW c \in Codes, RegisterVerify(th, m, c)
  PROVE  AccountInv'
  <1> DEFINE r == [NoAccountCall EXCEPT !.mail = m, !.code = c]
  <1>1. "registerVerify" \in Ways /\ "registerVerify" # "loginCached"
    BY DEF Ways
  <1>3. r \in CallRecord
    BY DEF NoAccountCall, CallRecord, NoPassword
  <1>4. r.mine = NoRow /\ r.first = NoRow /\ r.id = 0 /\ r.found = FALSE /\ r.field = "password" /\ r.mail = m /\ r.code = c
    BY DEF NoAccountCall
  <1>5. Begin(th, r) /\ UNCHANGED <<codeVars, submitted>>
    BY DEF RegisterVerify
  <1> HIDE DEF r
  <1>6. acc'[th] = r => Given(th, "registerVerify", 1)'
    BY <1>4 DEF Given, Changing, NoPassword
  <1>7. PICK steps, op : Enter(th, steps, op) /\ Append(steps, op) = Steps("registerVerify")
    BY DEF RegisterVerify, Steps
  <1> QED BY <1>1, <1>3, <1>4, <1>5, <1>6, <1>7, Begins DEF Changing

LEMMA ChangePasswordInv ==
  ASSUME AccountInv, NEW th \in Threads, NEW k \in DOMAIN users, NEW q \in Passwords, NEW p \in Passwords, ChangePassword(th, k, q, p)
  PROVE  AccountInv'
  <1> DEFINE r == [NoAccountCall EXCEPT !.id = k, !.old = q, !.value = p]
  <1>1. "changePassword" \in Ways /\ "changePassword" # "loginCached"
    BY DEF Ways
  <1>2. k \in Ids /\ k # 0
    BY Tables
  <1>3. r \in CallRecord
    BY <1>2 DEF NoAccountCall, CallRecord, NoPassword
  <1>4. r.mine = NoRow /\ r.first = NoRow /\ r.id = k /\ r.found = FALSE /\ r.field = "password" /\ r.value = p /\ r.old = q
    BY DEF NoAccountCall
  <1>5. Begin(th, r) /\ UNCHANGED <<codeVars, submitted>>
    BY DEF ChangePassword
  <1> HIDE DEF r
  <1>6. acc'[th] = r => Given(th, "changePassword", 1)'
    BY <1>4 DEF Given, Changing, NoPassword
  <1>7. PICK steps, op : Enter(th, steps, op) /\ Append(steps, op) = Steps("changePassword")
    BY DEF ChangePassword, Steps
  <1> QED BY <1>1, <1>2, <1>3, <1>4, <1>5, <1>6, <1>7, Begins DEF Changing

LEMMA ChangeNameInv ==
  ASSUME AccountInv, NEW th \in Threads, NEW k \in DOMAIN users, NEW n \in Names, ChangeName(th, k, n)
  PROVE  AccountInv'
  <1> DEFINE r == [NoAccountCall EXCEPT !.id = k, !.field = "username", !.value = n, !.found = TRUE]
  <1>1. "changeName" \in Ways /\ "changeName" # "loginCached"
    BY DEF Ways
  <1>2. k \in Ids /\ k # 0
    BY Tables
  <1>3. r \in CallRecord
    BY <1>2 DEF NoAccountCall, CallRecord, NoPassword
  <1>4. r.mine = NoRow /\ r.first = NoRow /\ r.id = k /\ r.found = TRUE /\ r.field = "username" /\ r.value = n
    BY DEF NoAccountCall
  <1>5. Begin(th, r) /\ UNCHANGED <<codeVars, submitted>>
    BY DEF ChangeName
  <1> HIDE DEF r
  <1>6. acc'[th] = r => Given(th, "changeName", 1)'
    BY <1>4 DEF Given, Changing, NoPassword
  <1>7. PICK steps, op : Enter(th, steps, op) /\ Append(steps, op) = Steps("changeName")
    BY DEF ChangeName, Steps
  <1> QED BY <1>1, <1>2, <1>3, <1>4, <1>5, <1>6, <1>7, Begins DEF Changing

LEMMA ResetPassByMailInv ==
  ASSUME AccountInv, NEW th \in Threads, NEW m \in Mails, ResetPassByMail(th, m)
  PROVE  AccountInv'
  <1> DEFINE r == [NoAccountCall EXCEPT !.mail = m]
  <1>1. "reset" \in Ways /\ "reset" # "loginCached"
    BY DEF Ways
  <1>3. r \in CallRecord
    BY DEF NoAccountCall, CallRecord, NoPassword
  <1>4. r.mine = NoRow /\ r.first = NoRow /\ r.id = 0 /\ r.found = FALSE /\ r.field = "password" /\ r.mail = m
    BY DEF NoAccountCall
  <1>5. Begin(th, r) /\ UNCHANGED <<codeVars, submitted>>
    BY DEF ResetPassByMail
  <1> HIDE DEF r
  <1>6. acc'[th] = r => Given(th, "reset", 1)'
    BY <1>4 DEF Given, Changing, NoPassword
  <1>7. PICK steps, op : Enter(th, steps, op) /\ Append(steps, op) = Steps("reset")
    BY DEF ResetPassByMail, Steps
  <1> QED BY <1>1, <1>3, <1>4, <1>5, <1>6, <1>7, Begins DEF Changing

LEMMA ResetPassByMailVerifyInv ==
  ASSUME AccountInv, NEW th \in Threads, NEW m \in Mails, NEW c \in Codes, NEW p \in Passwords, ResetPassByMailVerify(th, m, c, p)
  PROVE  AccountInv'
  <1> DEFINE r == [NoAccountCall EXCEPT !.mail = m, !.code = c, !.value = p]
  <1>1. "resetVerify" \in Ways /\ "resetVerify" # "loginCached"
    BY DEF Ways
  <1>3. r \in CallRecord
    BY DEF NoAccountCall, CallRecord, NoPassword
  <1>4. r.mine = NoRow /\ r.first = NoRow /\ r.id = 0 /\ r.found = FALSE /\ r.field = "password" /\ r.mail = m /\ r.value = p /\ r.code = c
    BY DEF NoAccountCall
  <1>5. Begin(th, r) /\ UNCHANGED <<codeVars, submitted>>
    BY DEF ResetPassByMailVerify
  <1> HIDE DEF r
  <1>6. acc'[th] = r => Given(th, "resetVerify", 1)'
    BY <1>4 DEF Given, Changing, NoPassword
  <1>7. PICK steps, op : Enter(th, steps, op) /\ Append(steps, op) = Steps("resetVerify")
    BY DEF ResetPassByMailVerify, Steps
  <1> QED BY <1>1, <1>3, <1>4, <1>5, <1>6, <1>7, Begins DEF Changing

LEMMA LoginInv ==
  ASSUME AccountInv, NEW th \in Threads, NEW m \in Mails, NEW p \in Passwords, Login(th, m, p)
  PROVE  AccountInv'
  <1> DEFINE settled == \A i \in Registered(m) : i \notin doubted /\ \A o \in Threads : ~(Writing(o) /\ acc[o].id = i)
             given == IF settled THEN {users[i].password : i \in Registered(m)} ELSE Passwords \cup {NoPassword}
             r == [NoAccountCall EXCEPT !.mail = m, !.value = p, !.good = given]
  <1>1. "login" \in Ways /\ "login" # "loginCached" /\ ~Changing("login")
    BY DEF Ways, Changing
  <1>2. \A i \in Registered(m) : i \in DOMAIN users /\ i \in Ids /\ users[i].password \in Passwords \cup {NoPassword}
    BY Tables DEF Registered, UserRow
  <1>3. given \in SUBSET (Passwords \cup {NoPassword})
    BY <1>2
  <1>4. Enter(th, LoginUser, "login") /\ Begin(th, r) /\ UNCHANGED <<codeVars, submitted>>
    BY DEF Login
  <1>5. UNCHANGED <<users, UserDataBaseCache, doubted>> /\ Registered(m)' = Registered(m)
    BY <1>4 DEF Begin, Registered
  <1>6. settled \/ given = Passwords \cup {NoPassword}
    OBVIOUS
  <1>7. settled => given = {users[i].password : i \in Registered(m)}
    OBVIOUS
  <1>8. settled => \A j \in Registered(m) :
                      /\ users[j].password \in given
                      /\ UserDataBaseCache[j] # NoRow => UserDataBaseCache[j].password \in given
    BY <1>2, <1>7 DEF AccountInv, CacheOK, SetsLater
  <1> HIDE DEF settled, given
  <1>9. r \in CallRecord
    BY <1>3 DEF NoAccountCall, CallRecord
  <1>10. /\ r.mine = NoRow /\ r.first = NoRow /\ r.id = 0 /\ r.found = FALSE
         /\ r.field = "password" /\ r.mail = m /\ r.value = p /\ r.good = given
    BY DEF NoAccountCall
  <1>a. PICK c \in CallRecord : c = r
    BY <1>9
  <1>b. /\ c.mine = NoRow /\ c.first = NoRow /\ c.id = 0 /\ c.found = FALSE
        /\ c.field = "password" /\ c.mail = m /\ c.value = p /\ c.good = given
    BY <1>a, <1>10
  <1>c. Begin(th, c)
    BY <1>4, <1>a
  <1> HIDE DEF r
  <1>11. acc'[th] = c => Given(th, "login", 1)'
    BY <1>b DEF Given, Changing
  <1>12. acc'[th] = c => Wide(th)' \/ Covers(th)'
    BY <1>b, <1>5, <1>6, <1>8 DEF Covers, Wide
  <1>13. acc'[th] = c => Another(th)' \/ Registered(c.mail)' # {}
    BY <1>b, <1>5, <1>6, <1>7, AccountsAssumption DEF Another, NoPassword
  <1>14. Append(LoginUser, "login") = Steps("login")
    BY DEF Steps
  <1> QED BY <1>1, <1>4, <1>c, <1>b, <1>11, <1>12, <1>13, <1>14, Begins

(***************************************************************************)
(* Registration: the question whether a mail is taken, and the insert.     *)
(***************************************************************************)
LEMMA FailsInv ==
  ASSUME AccountInv, NEW th \in Threads, NEW w \in {"integrate", "registerVerify"}, NEW i \in 1..Ends(w),
         pc[th] = Rest(w, i), At(th, w, i), Steps(w)[i] \in {"isTaken", "insert"},
         AccountFault, Set(th, Failed(th)), Return(th), overlapped \subseteq overlapped', overlapped' \subseteq Mails,
         UNCHANGED <<users, UserDataBaseCache, UserMailToUserIdMap, doubted, submitted, codeVars>>
  PROVE  AccountInv'
  <1>1. /\ w \in Ways /\ Ends(w) \in 1..Ends(w) /\ Steps(w)[Ends(w)] = w /\ (w = "integrate" => Ends(w) = 17 /\ i # 17)
        /\ (w = "registerVerify" => Ends(w) = 7)
    BY IntegrateSteps, RegisterVerifySteps DEF Ways
  <1>2. pc' = [pc EXCEPT ![th] = Rest(w, Ends(w))]
    BY <1>1, Goes
  <1>3. acc[th] \in CallRecord /\ acc' = [acc EXCEPT ![th] = [acc[th] EXCEPT !.found = FALSE, !.failed = TRUE]]
    BY Tables DEF Set, Failed
  <1> DEFINE r == [acc[th] EXCEPT !.found = FALSE, !.failed = TRUE]
  <1>4. r \in CallRecord
    BY <1>3 DEF CallRecord
  <1>5. r.found = FALSE
    BY <1>3 DEF CallRecord
  <1>6. SameBut(r, acc[th], {"found", "failed"})
    BY <1>3 DEF CallRecord, SameBut
  <1>7. acc' = [acc EXCEPT ![th] = r]
    BY <1>3
  <1> HIDE DEF r
  <1>8. acc' \in [Threads -> CallRecord] /\ acc'[th] = r /\ \A o \in Threads \ {th} : acc'[o] = acc[o]
    BY <1>4, <1>7 DEF AccountInv, TablesOK
  <1>9. Given(th, w, Ends(w))' /\ AboutUser(th, w, Ends(w))'
    BY <1>1, <1>5, <1>6, <1>8 DEF At, Given, AboutUser, KnownAt, Changing, SameBut
  <1>10. InHand(th, w, Ends(w))' /\ Proven(th, w, Ends(w))'
    BY <1>1, <1>5, <1>6, <1>8 DEF At, InHand, Proven, Uncached, Fresh, Changing, SameBut
  <1>11. AtCaches(th, w, Ends(w))'
    BY <1>1 DEF AtCaches, WritingAt
  <1>12. Decided(th, w, Ends(w))'
    BY <1>1 DEF Decided, LoggingIn
  <1>13. ~SetsLater(th)
    BY <1>1, Reads DEF SetsLater
  <1>14. pc'[th] = Rest(w, Ends(w)) /\ \A o \in Threads \ {th} : pc'[o] = pc[o]
    BY <1>2 DEF AccountInv, TablesOK
  <1>15. InsertsOK'
    <2>1. ~Inserting(th)'
      BY <1>1, <1>14, ReadsNext DEF Inserting
    <2>2. ASSUME NEW o \in Threads \ {th} PROVE Inserting(o)' <=> Inserting(o)
      BY <1>14 DEF Inserting, AtStep, Busy
    <2>3. \A m : Registered(m)' = Registered(m)
      BY DEF Registered
    <2> QED BY <1>8, <2>1, <2>2, <2>3 DEF AccountInv, InsertsOK
  <1>16. MappedUserCached' /\ UserMailToUserIdMap' \in [Mails -> {0} \cup Ids] /\ account_faults' \in 0..MaxAccountFaults
    BY FaultCounted DEF AccountInv, TablesOK, MappedUserCached
  <1> QED BY <1>1, <1>2, <1>8, <1>9, <1>10, <1>11, <1>12, <1>13, <1>15, <1>16, LocalCore DEF At

LEMMA DoesUserWithMailExistsInv ==
  ASSUME AccountInv, NEW th \in Threads, DoesUserWithMailExists(th)
  PROVE  AccountInv'
  <1>0. PICK w \in Ways : \E i \in 1..Ends(w) : pc[th] = Rest(w, i) /\ At(th, w, i) /\ Steps(w)[i] = "isTaken"
    BY Starts DEF DoesUserWithMailExists
  <1>1. PICK i \in 1..Ends(w) : pc[th] = Rest(w, i) /\ At(th, w, i) /\ Steps(w)[i] = "isTaken"
    BY <1>0
  <1>2. (w = "integrate" /\ i = 7) \/ (w = "registerVerify" /\ i = 2)
    BY <1>1, IsTakenPlace
  <1>3. /\ i # Ends(w) /\ i + 1 \in 1..Ends(w) /\ Steps(w)[i + 1] = "insert"
        /\ Ends(w) \in 1..Ends(w) /\ Steps(w)[Ends(w)] = w /\ Ends(w) \in {7, 17}
        /\ (w = "integrate" => Ends(w) = 17) /\ (w = "registerVerify" => Ends(w) = 7)
    BY <1>2, IntegrateSteps, RegisterVerifySteps
  <1>4. acc[th].mail \in Mails
    BY <1>1, <1>2 DEF At, Given, Changing
  <1>5. /\ UNCHANGED <<users, UserDataBaseCache, UserMailToUserIdMap, doubted, submitted, codeVars>>
        /\ overlapped \subseteq overlapped' /\ overlapped' \subseteq Mails
    BY <1>4 DEF DoesUserWithMailExists, AccountInv, TablesOK
  <1>6. CASE AccountFault /\ Set(th, Failed(th)) /\ Return(th)
    BY <1>1, <1>2, <1>5, <1>6, FailsInv
  <1>7. CASE AdvanceIf(th, Registered(acc[th].mail) = {}) /\ UNCHANGED <<acc, account_faults>>
    <2>1. acc' \in [Threads -> CallRecord] /\ MappedUserCached' /\ UserMailToUserIdMap' \in [Mails -> {0} \cup Ids]
      BY <1>5, <1>7 DEF AccountInv, TablesOK, MappedUserCached
    <2>2. ~SetsLater(th) /\ account_faults' \in 0..MaxAccountFaults
      BY <1>1, <1>7, Reads, FaultCounted DEF SetsLater
    <2>3. \A m : Registered(m)' = Registered(m)
      BY <1>5 DEF Registered
    <2>4. CASE Registered(acc[th].mail) = {}
      <3>1. pc' = [pc EXCEPT ![th] = Rest(w, i + 1)]
        BY <1>1, <1>3, <1>7, <2>4, Goes DEF AdvanceIf
      <3>2. pc'[th] = Rest(w, i + 1) /\ \A o \in Threads \ {th} : pc'[o] = pc[o]
        BY <3>1 DEF AccountInv, TablesOK
      <3>3. Given(th, w, i + 1) /\ AboutUser(th, w, i + 1)
        BY <1>1, <1>2 DEF At, Given, AboutUser, KnownAt, Changing
      <3>4. InHand(th, w, i + 1) /\ Proven(th, w, i + 1)
        BY <1>1, <1>2 DEF At, InHand, Proven, Changing
      <3>5. AtCaches(th, w, i + 1) /\ Decided(th, w, i + 1)
        BY <1>2, <1>3 DEF AtCaches, WritingAt, Decided, LoggingIn
      <3>6. At(th, w, i + 1)'
        BY <1>5, <1>7, <3>3, <3>4, <3>5, AtKept DEF At, codeVars
      <3>7. ASSUME NEW o \in Threads \ {th} PROVE Inserting(o)' <=> Inserting(o)
        BY <3>2 DEF Inserting, AtStep, Busy
      <3>8. \A o \in Threads \ {th} : Inserting(o) /\ acc[o].mail = acc[th].mail => acc[th].mail \in overlapped'
        BY DEF DoesUserWithMailExists, Inserting
      <3>9. InsertsOK'
        BY <1>5, <1>7, <2>3, <2>4, <3>7, <3>8 DEF AccountInv, InsertsOK
      <3> QED BY <1>3, <1>5, <1>7, <2>1, <2>2, <3>1, <3>6, <3>9, LocalCore
    <2>5. CASE Registered(acc[th].mail) # {}
      <3>1. pc' = [pc EXCEPT ![th] = Rest(w, Ends(w))]
        BY <1>1, <1>3, <1>7, <2>5, Goes DEF AdvanceIf
      <3>2. pc'[th] = Rest(w, Ends(w)) /\ \A o \in Threads \ {th} : pc'[o] = pc[o]
        BY <3>1 DEF AccountInv, TablesOK
      <3>3. Given(th, w, Ends(w)) /\ AboutUser(th, w, Ends(w))
        BY <1>1, <1>2, <1>3 DEF At, Given, AboutUser, KnownAt, Changing
      <3>4. InHand(th, w, Ends(w)) /\ Proven(th, w, Ends(w))
        BY <1>1, <1>2, <1>3 DEF At, InHand, Proven, Changing
      <3>5. AtCaches(th, w, Ends(w)) /\ Decided(th, w, Ends(w))
        BY <1>2, <1>3 DEF AtCaches, WritingAt, Decided, LoggingIn
      <3>6. At(th, w, Ends(w))'
        BY <1>5, <1>7, <3>3, <3>4, <3>5, AtKept DEF At, codeVars
      <3>7. ASSUME NEW o \in Threads \ {th} PROVE Inserting(o)' <=> Inserting(o)
        BY <3>2 DEF Inserting, AtStep, Busy
      <3>8. ~Inserting(th)'
        BY <1>2, <1>3, <3>2, ReadsNext DEF Inserting
      <3>9. InsertsOK'
        BY <1>5, <1>7, <2>3, <3>7, <3>8 DEF AccountInv, InsertsOK
      <3> QED BY <1>3, <1>5, <1>7, <2>1, <2>2, <3>1, <3>6, <3>9, LocalCore
    <2> QED BY <2>4, <2>5
  <1> QED BY <1>6, <1>7 DEF DoesUserWithMailExists

\* The table grows by a row: what the other threads may say of it.
LEMMA Appended ==
  ASSUME AccountInv, NEW row \in UserRow, Len(users) < MaxUsers, users' = Append(users, row)
  PROVE  /\ users' \in Seq(UserRow) /\ Len(users') = Len(users) + 1 /\ Len(users') <= MaxUsers
         /\ Len(users) + 1 \in Ids /\ Len(users) + 1 \notin DOMAIN users /\ DOMAIN users' = DOMAIN users \cup {Len(users) + 1}
         /\ \A k \in DOMAIN users : users'[k] = users[k]
         /\ users'[Len(users) + 1] = row /\ UserDataBaseCache[Len(users) + 1] = NoRow
  BY AccountsAssumption DEF AccountInv, TablesOK, Ids, CacheOK

LEMMA AtAppended ==
  ASSUME AccountInv, NEW o \in Threads, NEW w \in Ways, NEW i \in 1..Ends(w), At(o, w, i),
         NEW row \in UserRow, Len(users) < MaxUsers, users' = Append(users, row),
         UNCHANGED <<UserDataBaseCache, doubted, submitted, issued>>,
         SameBut(acc'[o], acc[o], {"good"}), acc[o].good \subseteq acc'[o].good,
         IF LoggingIn(w) /\ acc[o].mail = row.email THEN {NoPassword, row.password} \subseteq acc'[o].good
                                                   ELSE acc'[o].good = acc[o].good
  PROVE  At(o, w, i)'
  <1>1. /\ Len(users) + 1 \in Ids /\ Len(users) + 1 \notin DOMAIN users /\ DOMAIN users' = DOMAIN users \cup {Len(users) + 1}
        /\ \A k \in DOMAIN users : users'[k] = users[k]
        /\ users'[Len(users) + 1] = row /\ UserDataBaseCache[Len(users) + 1] = NoRow
    BY Appended
  <1>2. /\ acc'[o].mail = acc[o].mail /\ acc'[o].field = acc[o].field /\ acc'[o].value = acc[o].value
        /\ acc'[o].old = acc[o].old /\ acc'[o].code = acc[o].code /\ acc'[o].id = acc[o].id
        /\ acc'[o].found = acc[o].found /\ acc'[o].mine = acc[o].mine /\ acc'[o].first = acc[o].first
        /\ acc'[o].in = acc[o].in /\ acc'[o].failed = acc[o].failed
    BY DEF SameBut
  <1>3. acc[o].id \in {0} \cup DOMAIN users
    BY DEF At, AboutUser
  <1>4. Uncached(o)' = Uncached(o) /\ (acc[o].id # 0 => users'[acc[o].id] = users[acc[o].id])
    BY <1>1, <1>2, <1>3 DEF Uncached
  <1>5. Given(o, w, i)' /\ AboutUser(o, w, i)'
    BY <1>1, <1>2, <1>3, <1>4 DEF At, Given, AboutUser
  <1>6. InHand(o, w, i)'
    BY <1>2, <1>3, <1>4 DEF At, InHand, Fresh, Uncached
  <1>7. AtCaches(o, w, i)'
    BY <1>2, <1>3, <1>4 DEF At, AboutUser, KnownAt, WritingAt, Changing, AtCaches, Fresh, Uncached
  <1>8. Proven(o, w, i)'
    BY <1>2 DEF At, Proven
  <1>9. Decided(o, w, i)'
    <2> SUFFICES ASSUME LoggingIn(w) PROVE Decided(o, w, i)'
      BY DEF Decided
    <2>1. Wide(o) => Wide(o)'
      BY DEF Wide
    <2>2. Covers(o) => Covers(o)'
      BY <1>1, <1>2 DEF Covers, Registered
    <2>3. Registered(acc[o].mail) # {} => Registered(acc[o].mail)' # {}
      BY <1>1, <1>2 DEF Registered
    <2>4. Another(o) => Another(o)'
      BY <1>1, <1>2, AccountsAssumption DEF At, Given, LoggingIn, NoPassword, Another, Registered
    <2> QED BY <1>2, <2>1, <2>2, <2>3, <2>4 DEF At, Decided
  <1> QED BY <1>5, <1>6, <1>7, <1>8, <1>9 DEF At

\* What a login may pass with only grows, and nothing else of a call changes with it.
LEMMA NowGoodIs ==
  ASSUME NEW mail, NEW good \in SUBSET (Passwords \cup {NoPassword}), NEW o \in Threads, acc[o] \in CallRecord
  PROVE  LET c == NowGood(mail, good)[o] IN
         /\ c \in CallRecord /\ SameBut(c, acc[o], {"good"}) /\ acc[o].good \subseteq c.good
         /\ IF Busy(o) /\ Op(o) = "login" /\ acc[o].mail = mail
            THEN good \subseteq c.good ELSE c = acc[o]
  <1> DEFINE c == [acc[o] EXCEPT !.good = @ \cup good]
  <1>1. c \in CallRecord /\ c.good = acc[o].good \cup good
    BY DEF CallRecord
  <1>2. SameBut(c, acc[o], {"good"})
    BY DEF CallRecord, SameBut
  <1>3. NowGood(mail, good)[o] = IF Busy(o) /\ Op(o) = "login" /\ acc[o].mail = mail THEN c ELSE acc[o]
    BY DEF NowGood
  <1> QED BY <1>1, <1>2, <1>3 DEF SameBut

LEMMA UploadUserInv ==
  ASSUME AccountInv, NEW th \in Threads, UploadUserToDataBase(th)
  PROVE  AccountInv'
  <1>0. PICK w \in Ways : \E i \in 1..Ends(w) : pc[th] = Rest(w, i) /\ At(th, w, i) /\ Steps(w)[i] = "insert"
    BY Starts DEF UploadUserToDataBase
  <1>1. PICK i \in 1..Ends(w) : pc[th] = Rest(w, i) /\ At(th, w, i) /\ Steps(w)[i] = "insert"
    BY <1>0
  <1>2. (w = "integrate" /\ i = 8) \/ (w = "registerVerify" /\ i = 3)
    BY <1>1, InsertPlace
  <1>3. i # Ends(w) /\ i + 1 \in 1..Ends(w) /\ Steps(w)[i + 1] = "cacheUser" /\ i + 1 # Ends(w) /\ i + 1 # 17
    BY <1>2, IntegrateSteps, RegisterVerifySteps
  <1>4. /\ acc[th] \in CallRecord /\ acc[th].mail \in Mails /\ acc[th].old \in Names
        /\ acc[th].value \in Passwords \cup {NoPassword}
    BY <1>1, <1>2, Tables DEF At, Given, Changing
  <1>5. UNCHANGED <<UserDataBaseCache, UserMailToUserIdMap, doubted, overlapped, submitted, codeVars>>
    BY DEF UploadUserToDataBase, accountDoubts
  <1>6. CASE AccountFault /\ Set(th, Failed(th)) /\ Return(th) /\ UNCHANGED users
    BY <1>1, <1>2, <1>5, <1>6, FailsInv DEF AccountInv, TablesOK
  <1>7. CASE /\ Len(users) < MaxUsers
             /\ users' = Append(users, Row(th))
             /\ acc' = [NowGood(acc[th].mail, {NoPassword, acc[th].value}) EXCEPT ![th] =
                           [acc[th] EXCEPT !.id = Len(users) + 1, !.mine = Row(th), !.found = TRUE]]
             /\ Advance(th)
             /\ UNCHANGED account_faults
    <2>0. PICK row \in UserRow : row = Row(th) /\ row # NoRow
      <3>1. Row(th) \in UserRow
        BY <1>4 DEF Row, UserRow
      <3>2. Row(th) # NoRow
        BY <3>1, Tables
      <3> QED BY <3>1, <3>2
    <2>1. row.email = acc[th].mail /\ row.password = acc[th].value
      BY <2>0 DEF Row
    <2> DEFINE n == Len(users) + 1
               good == {NoPassword, acc[th].value}
    <2>2. /\ users' \in Seq(UserRow) /\ Len(users') <= MaxUsers
          /\ n \in Ids /\ n # 0 /\ n \notin DOMAIN users /\ DOMAIN users' = DOMAIN users \cup {n}
          /\ \A k \in DOMAIN users : users'[k] = users[k]
          /\ users'[n] = row /\ UserDataBaseCache[n] = NoRow
      BY <1>7, <2>0, Appended, Tables
    <2> DEFINE r == [acc[th] EXCEPT !.id = n, !.mine = row, !.found = TRUE]
    <2>3. r \in CallRecord
      BY <1>4, <2>0, <2>2 DEF CallRecord
    <2>4. r.id = n /\ r.mine = row /\ r.found = TRUE
      BY <1>4 DEF CallRecord
    <2>5. SameBut(r, acc[th], {"id", "mine", "found"})
      BY <1>4 DEF CallRecord, SameBut
    <2>6. acc' = [NowGood(acc[th].mail, good) EXCEPT ![th] = r]
      BY <1>7, <2>0
    <2> HIDE DEF r, n
    <2>7. pc' = [pc EXCEPT ![th] = Rest(w, i + 1)]
      BY <1>1, <1>3, <1>7, Goes
    <2>8. /\ pc'[th] = Rest(w, i + 1) /\ (\A o \in Threads \ {th} : pc'[o] = pc[o]) /\ pc' \in [Threads -> Seq(StepNames)]
      BY <1>3, <2>7, RestIs DEF AccountInv, TablesOK
    <2>9. acc'[th] = r /\ \A o \in Threads \ {th} : acc'[o] = NowGood(acc[th].mail, good)[o]
      BY <2>6 DEF NowGood
    <2>10. ASSUME NEW o \in Threads \ {th}
           PROVE  /\ acc'[o] \in CallRecord /\ SameBut(acc'[o], acc[o], {"good"}) /\ acc[o].good \subseteq acc'[o].good
                  /\ IF Busy(o) /\ Op(o) = "login" /\ acc[o].mail = acc[th].mail
                     THEN good \subseteq acc'[o].good ELSE acc'[o] = acc[o]
      BY <1>4, <2>9, NowGoodIs, Tables
    <2>11. acc' \in [Threads -> CallRecord]
      BY <2>3, <2>6, <2>9, <2>10 DEF NowGood
    <2>12. TablesOK'
      BY <1>5, <1>7, <2>2, <2>8, <2>11 DEF AccountInv, TablesOK, MailedCodesTypeOK, codeVars
    <2>13. At(th, w, i + 1)'
      <3>1. Given(th, w, i + 1)' /\ AboutUser(th, w, i + 1)'
        BY <1>1, <1>2, <1>3, <2>1, <2>2, <2>4, <2>5, <2>9 DEF At, Given, AboutUser, KnownAt, Changing, SameBut
      <3>2. InHand(th, w, i + 1)'
        BY <1>1, <1>2, <2>0, <2>2, <2>4, <2>5, <2>9 DEF SameBut, At, InHand, Fresh, Changing
      <3>3. AtCaches(th, w, i + 1)'
        BY <1>2, <1>3, <2>0, <2>4, <2>9 DEF AtCaches, WritingAt
      <3>4. Proven(th, w, i + 1)'
        BY <1>1, <1>2, <1>5, <2>1, <2>4, <2>5, <2>9 DEF At, Proven, SameBut
      <3>5. Decided(th, w, i + 1)'
        BY <1>2 DEF Decided, LoggingIn
      <3> QED BY <3>1, <3>2, <3>3, <3>4, <3>5 DEF At
    <2>14. \A o \in Threads : ThreadOK(o)'
      <3>1. ThreadOK(th)'
        BY <1>3, <2>8, <2>13 DEF ThreadOK
      <3>2. ASSUME NEW o \in Threads \ {th} PROVE ThreadOK(o)'
        <4>1. CASE pc[o] = <<>>
          BY <2>8, <2>10, <4>1, RestIs, ReadsIdle DEF AccountInv, ThreadOK
        <4>2. CASE pc[o] # <<>>
          <5>1. PICK v \in Ways : \E j \in 1..Ends(v) : pc[o] = Rest(v, j) /\ At(o, v, j)
            BY <4>2, Place
          <5>2. PICK j \in 1..Ends(v) : pc[o] = Rest(v, j) /\ At(o, v, j)
            BY <5>1
          <5>3. Busy(o) /\ Op(o) = OpOf(v)
            BY <5>2, Reads
          <5>4. LoggingIn(v) <=> OpOf(v) = "login"
            BY DEF LoggingIn, OpOf
          <5>5. At(o, v, j)'
            BY <1>5, <1>7, <2>0, <2>1, <2>10, <5>2, <5>3, <5>4, AtAppended DEF codeVars
          <5> QED BY <5>2, <5>5, <2>8 DEF ThreadOK
        <4> QED BY <4>1, <4>2
      <3> QED BY <3>1, <3>2
    <2>15. ASSUME NEW o \in Threads \ {th}
           PROVE  /\ SetsLater(o)' <=> SetsLater(o)
                  /\ Inserting(o)' <=> Inserting(o)
                  /\ acc'[o].id = acc[o].id /\ acc'[o].field = acc[o].field /\ acc'[o].mail = acc[o].mail
      BY <2>8, <2>10 DEF SetsLater, Inserting, Writing, AtStep, Busy, SameBut
    <2>16. CacheOK'
      BY <1>1, <1>5, <2>2, <2>15, Reads DEF SetsLater, AccountInv, CacheOK
    <2>17. /\ Registered(acc[th].mail) = {} \/ acc[th].mail \in overlapped
           /\ \A o \in Threads \ {th} : Inserting(o) /\ acc[o].mail = acc[th].mail => acc[th].mail \in overlapped
      BY <1>1, Reads DEF AccountInv, InsertsOK, Inserting
    <2>18. OneAccountPerMail'
      BY <1>5, <2>1, <2>2, <2>17 DEF Registered, AccountInv, OneAccountPerMail
    <2>19. InsertsOK'
      <3>1. ~Inserting(th)'
        BY <1>3, <2>8, ReadsNext DEF Inserting
      <3>2. \A m : m # acc[th].mail => Registered(m)' = Registered(m)
        BY <2>1, <2>2 DEF Registered
      <3> QED BY <1>5, <2>15, <2>17, <3>1, <3>2 DEF AccountInv, InsertsOK
    <2>20. MappedUserCached' /\ CodesOK'
      BY <1>5 DEF AccountInv, MappedUserCached, CodesOK, codeVars
    <2> QED BY <2>12, <2>14, <2>16, <2>18, <2>19, <2>20 DEF AccountInv
  <1> QED BY <1>6, <1>7 DEF UploadUserToDataBase

(***************************************************************************)
(* A row is cached.                                                        *)
(***************************************************************************)
LEMMA GoodCached ==
  ASSUME AccountInv, NEW o \in Threads,
         NEW id \in Ids, NEW row \in UserRow, UserDataBaseCache[id] = NoRow, Fresh(row, id),
         UserDataBaseCache' = [UserDataBaseCache EXCEPT ![id] = row], UNCHANGED <<users, doubted>>,
         acc'[o].mail = acc[o].mail, acc'[o].good = acc[o].good, acc'[o].value = acc[o].value
  PROVE  /\ Wide(o)' <=> Wide(o)
         /\ Covers(o) => Covers(o)'
         /\ Another(o)' <=> Another(o)
         /\ Registered(acc[o].mail)' = Registered(acc[o].mail)
  BY Tables DEF AccountInv, TablesOK, Covers, Registered, Fresh, Wide, Another

\* The others may say what they could.
LEMMA AtCached ==
  ASSUME AccountInv, NEW o \in Threads, NEW w \in Ways, NEW i \in 1..Ends(w), At(o, w, i),
         NEW id \in Ids, NEW row \in UserRow, UserDataBaseCache[id] = NoRow, Fresh(row, id),
         UserDataBaseCache' = [UserDataBaseCache EXCEPT ![id] = row], acc'[o] = acc[o],
         UNCHANGED <<users, doubted, submitted, issued>>
  PROVE  At(o, w, i)'
  <1>1. UserDataBaseCache'[id] = row /\ \A k \in Ids \ {id} : UserDataBaseCache'[k] = UserDataBaseCache[k]
    BY DEF AccountInv, TablesOK
  <1>2. Given(o, w, i)' /\ AboutUser(o, w, i)' /\ Proven(o, w, i)'
    BY DEF At, Given, AboutUser, Proven
  <1>3. acc[o].id \in {0} \cup Ids
    BY Tables DEF CallRecord
  <1>4. Uncached(o)' => Uncached(o)
    BY <1>1, <1>3, Tables DEF Uncached
  <1>5. InHand(o, w, i)' /\ AtCaches(o, w, i)'
    BY <1>4 DEF At, InHand, AtCaches, Fresh
  <1>6. Decided(o, w, i)'
    <2> QED BY GoodCached DEF At, Decided
  <1> QED BY <1>2, <1>5, <1>6 DEF At

LEMMA CachedStep ==
  ASSUME AccountInv, NEW th \in Threads, NEW v \in Ways, NEW j \in 1..Ends(v), NEW r \in CallRecord,
         pc' = [pc EXCEPT ![th] = Rest(v, j)], acc' = [acc EXCEPT ![th] = r],
         NEW id \in Ids, NEW row \in UserRow, UserDataBaseCache[id] = NoRow, Fresh(row, id), id \in DOMAIN users,
         UserDataBaseCache' = [UserDataBaseCache EXCEPT ![id] = row],
         UNCHANGED <<users, UserMailToUserIdMap, doubted, overlapped, submitted, codeVars, account_faults>>,
         ~SetsLater(th), Steps(v)[j] # "insert", At(th, v, j)'
  PROVE  AccountInv'
  <1>1. /\ pc'[th] = Rest(v, j) /\ (\A o \in Threads \ {th} : pc'[o] = pc[o]) /\ pc' \in [Threads -> Seq(StepNames)]
        /\ acc' \in [Threads -> CallRecord] /\ \A o \in Threads \ {th} : acc'[o] = acc[o]
    BY RestIs DEF AccountInv, TablesOK
  <1>2. /\ UserDataBaseCache' \in [Ids -> UserRow \cup {NoRow}] /\ UserDataBaseCache'[id] = row
        /\ \A k \in Ids \ {id} : UserDataBaseCache'[k] = UserDataBaseCache[k]
    BY DEF AccountInv, TablesOK
  <1>3. TablesOK'
    BY <1>1, <1>2 DEF AccountInv, TablesOK, MailedCodesTypeOK, codeVars
  <1>4. \A o \in Threads : ThreadOK(o)'
    <2>1. ThreadOK(th)'
      BY <1>1 DEF ThreadOK
    <2>2. ASSUME NEW o \in Threads \ {th} PROVE ThreadOK(o)'
      BY <1>1, AtCached DEF codeVars, AccountInv, ThreadOK
    <2> QED BY <2>1, <2>2
  <1>5. ASSUME NEW o \in Threads \ {th} PROVE (SetsLater(o)' <=> SetsLater(o)) /\ (Inserting(o)' <=> Inserting(o))
    BY <1>1 DEF SetsLater, Inserting, Writing, AtStep, Busy
  <1>6. CacheOK'
    <2>1. \A k \in Ids : UserDataBaseCache'[k] # NoRow => k \in DOMAIN users /\ UserDataBaseCache'[k].email = users[k].email
      BY <1>2 DEF AccountInv, CacheOK, Fresh
    <2>2. ASSUME NEW k \in Ids \ doubted, NEW f \in {"username", "password"}, UserDataBaseCache'[k] # NoRow
          PROVE  \/ UserDataBaseCache'[k][f] = users[k][f]
                 \/ \E t \in Threads : SetsLater(t)' /\ acc'[t].id = k /\ acc'[t].field = f
      <3>1. CASE k = id
        BY <1>2, <2>2, <3>1 DEF Fresh
      <3>2. CASE k # id
        <4>1. \/ UserDataBaseCache[k][f] = users[k][f]
              \/ \E t \in Threads : SetsLater(t) /\ acc[t].id = k /\ acc[t].field = f
          BY <1>2, <2>2, <3>2 DEF AccountInv, CacheOK
        <4> QED BY <1>1, <1>2, <1>5, <3>2, <4>1
      <3> QED BY <3>1, <3>2
    <2> QED BY <2>1, <2>2 DEF CacheOK
  <1>7. InsertsOK'
    BY <1>1, <1>5, ReadsNext DEF Inserting, Registered, AccountInv, InsertsOK
  <1>8. MappedUserCached'
    BY <1>2, MailZero DEF MappedUserCached, AccountInv, TablesOK
  <1>9. CodesOK' /\ OneAccountPerMail'
    BY DEF AccountInv, CodesOK, OneAccountPerMail, codeVars
  <1> QED BY <1>3, <1>4, <1>6, <1>7, <1>8, <1>9 DEF AccountInv

LEMMA EmplaceInv ==
  ASSUME AccountInv, NEW th \in Threads, Emplace(th)
  PROVE  AccountInv'
  <1>0. PICK w \in Ways : \E i \in 1..Ends(w) : pc[th] = Rest(w, i) /\ At(th, w, i) /\ Steps(w)[i] = "emplace"
    BY Starts DEF Emplace
  <1>1. PICK i \in 1..Ends(w) : pc[th] = Rest(w, i) /\ At(th, w, i) /\ Steps(w)[i] = "emplace"
    BY <1>0
  <1>2. \/ w = "login" /\ i = 7
        \/ w = "loginCached" /\ i = 5
        \/ w = "changePassword" /\ i \in {3, 8}
        \/ w = "changeName" /\ i = 4
        \/ w = "resetVerify" /\ i = 10
    BY <1>1, EmplacePlace
  <1>3. /\ i # Ends(w) /\ i + 1 \in 1..Ends(w)
        /\ w = "login" => Steps(w)[i + 1] = "cacheUser"
        /\ w = "loginCached" => Steps(w)[i + 1] = "login" /\ i + 1 = Ends(w)
        /\ w \notin {"login", "loginCached"} => Steps(w)[i + 1] \in {"verifyOld", "set"}
        /\ Ends("login") = 10
    BY <1>2, LoginSteps, LoginCachedSteps, ChangePasswordSteps, ChangeNameSteps, ResetVerifySteps
  <1>4. /\ acc[th] \in CallRecord /\ acc[th].id \in DOMAIN users /\ acc[th].id # 0 /\ acc[th].id \in Ids
        /\ acc[th].first # NoRow /\ acc[th].first \in UserRow /\ acc[th].found
    BY <1>1, <1>2, Tables DEF At, AboutUser, KnownAt, Changing, AtCaches, InHand
  <1>5. UNCHANGED <<users, UserMailToUserIdMap, doubted, overlapped, submitted, codeVars, account_faults>>
    BY DEF Emplace, Keep, accountDoubts
  <1>6. pc' = [pc EXCEPT ![th] = Rest(w, i + 1)]
    BY <1>1, <1>3, Goes DEF Emplace
  <1>7. ~SetsLater(th) /\ Steps(w)[i + 1] # "insert" /\ Steps(w)[i] \notin {"lookUp", "set"}
    BY <1>1, <1>2, <1>3, Reads DEF SetsLater
  <1> DEFINE id == acc[th].id
  <1>8. CASE UserDataBaseCache[id] # NoRow
    <2>1. Own(id, acc[th].first) = acc[th].first /\ [acc[th] EXCEPT !.first = acc[th].first] = acc[th]
      BY <1>4, <1>8 DEF Own, CallRecord
    <2>2. UNCHANGED <<acc, UserDataBaseCache>>
      BY <1>4, <1>8, <2>1 DEF Emplaced, AccountInv, TablesOK, Emplace, Set
    <2>3. Given(th, w, i + 1) /\ AboutUser(th, w, i + 1)
      BY <1>1, <1>2 DEF At, Given, AboutUser, KnownAt, Changing
    <2>4. InHand(th, w, i + 1) /\ Proven(th, w, i + 1)
      BY <1>1, <1>2, <1>4, <1>8 DEF At, InHand, Proven, Changing, Uncached
    <2>5. AtCaches(th, w, i + 1)
      BY <1>1, <1>2, <1>3, <1>4, <1>8 DEF At, AtCaches, WritingAt, Uncached
    <2>6. Decided(th, w, i + 1)
      BY <1>1, <1>2, <1>3 DEF At, Decided, LoggingIn
    <2>7. account_faults' \in 0..MaxAccountFaults
      BY <1>5, FaultCounted
    <2> QED BY <1>1, <1>3, <1>5, <1>6, <1>7, <2>2, <2>3, <2>4, <2>5, <2>6, <2>7, Stays DEF At
  <1>9. CASE UserDataBaseCache[id] = NoRow
    <2>1. PICK c \in CallRecord : c = [acc[th] EXCEPT !.first = NoRow]
      BY <1>4 DEF CallRecord
    <2>2. c.first = NoRow /\ SameBut(c, acc[th], {"first"})
      BY <1>4, <2>1 DEF CallRecord, SameBut
    <2>3. PICK row \in UserRow : row = acc[th].first
      BY <1>4
    <2>4. PICK k \in Ids : k = id
      BY <1>4
    <2>5. /\ acc' = [acc EXCEPT ![th] = c] /\ acc'[th] = c
          /\ UserDataBaseCache' = [UserDataBaseCache EXCEPT ![k] = row]
      BY <1>9, <2>1, <2>3, <2>4 DEF Own, Emplace, Set, Emplaced, AccountInv, TablesOK
    <2>6. Fresh(row, k) /\ row # NoRow /\ UserDataBaseCache'[k] = row
      BY <1>1, <1>4, <1>9, <2>3, <2>4, <2>5 DEF At, AtCaches, Uncached, AccountInv, TablesOK
    <2>7. ~Uncached(th)'
      BY <2>2, <2>4, <2>5, <2>6 DEF Uncached, SameBut
    <2>8. Given(th, w, i + 1)' /\ AboutUser(th, w, i + 1)'
      BY <1>1, <1>2, <1>4, <1>5, <2>2, <2>5 DEF At, Given, AboutUser, KnownAt, Changing, SameBut
    <2>9. InHand(th, w, i + 1)' /\ Proven(th, w, i + 1)'
      BY <1>1, <1>2, <1>4, <1>5, <2>2, <2>5, <2>7 DEF At, InHand, Proven, Changing, SameBut, codeVars
    <2>10. AtCaches(th, w, i + 1)'
      BY <1>1, <1>2, <1>3, <1>4, <1>5, <2>2, <2>5, <2>7 DEF At, AtCaches, WritingAt, SameBut
    <2>11. Decided(th, w, i + 1)'
      <3>1. /\ Wide(th)' <=> Wide(th)
            /\ Covers(th) => Covers(th)'
            /\ Another(th)' <=> Another(th)
        BY <1>5, <1>9, <2>2, <2>4, <2>5, <2>6, GoodCached DEF SameBut
      <3> QED BY <1>1, <1>2, <1>3, <1>5, <2>2, <2>5, <3>1 DEF At, Decided, LoggingIn, SameBut
    <2>12. At(th, w, i + 1)'
      BY <2>8, <2>9, <2>10, <2>11 DEF At
    <2> QED BY <1>3, <1>4, <1>5, <1>6, <1>7, <1>9, <2>4, <2>5, <2>6, <2>12, CachedStep
  <1> QED BY <1>8, <1>9

LEMMA CacheUserInv ==
  ASSUME AccountInv, NEW th \in Threads, CacheUser(th), AtStep(th, "cacheUser")
  PROVE  AccountInv'
  <1>0. PICK w \in Ways : \E i \in 1..Ends(w) : pc[th] = Rest(w, i) /\ At(th, w, i) /\ Steps(w)[i] = "cacheUser"
    BY Starts
  <1>1. PICK i \in 1..Ends(w) : pc[th] = Rest(w, i) /\ At(th, w, i) /\ Steps(w)[i] = "cacheUser"
    BY <1>0
  <1>2. \/ w = "login" /\ i = 8
        \/ w = "integrate" /\ i \in {4, 9, 14}
        \/ w \in {"register", "registerVerify", "reset"} /\ i = 4
        \/ w = "resetVerify" /\ i = 5
    BY <1>1, CacheUserPlace
  <1>3. /\ i # Ends(w) /\ i + 1 \in 1..Ends(w) /\ Steps(w)[i + 1] = "mapUser" /\ i + 1 # Ends(w)
        /\ Ends("login") = 10
    BY <1>2, LoginSteps, IntegrateSteps, RegisterSteps, RegisterVerifySteps, ResetSteps, ResetVerifySteps
  <1>4. acc[th] \in CallRecord
    BY Tables
  <1>5. UNCHANGED <<users, doubted, overlapped, submitted, codeVars, account_faults>>
    BY DEF CacheUser, Keep, accountDoubts
  <1>6. pc' = [pc EXCEPT ![th] = Rest(w, i + 1)]
    BY <1>1, <1>3, Goes DEF CacheUser
  <1>7. ~SetsLater(th) /\ Steps(w)[i + 1] # "insert" /\ Steps(w)[i] \notin {"lookUp", "set"}
    BY <1>1, <1>3, Reads DEF SetsLater
  <1> DEFINE id == acc[th].id
  <1>8. CASE ~acc[th].found \/ UserDataBaseCache[id] # NoRow
    <2>1. acc[th].found => [acc[th] EXCEPT !.mine = Own(id, acc[th].mine)] = acc[th]
      BY <1>4, <1>8 DEF Own, CallRecord
    <2>2. UNCHANGED <<acc, UserDataBaseCache, UserMailToUserIdMap>>
      BY <1>8, <2>1 DEF CacheUser, Emplaced, AccountInv, TablesOK, Set
    <2>3. Given(th, w, i + 1) /\ AboutUser(th, w, i + 1)
      BY <1>1, <1>2 DEF At, Given, AboutUser, KnownAt, Changing
    <2>4. InHand(th, w, i + 1) /\ Proven(th, w, i + 1)
      BY <1>1, <1>2, <1>8 DEF At, InHand, Proven, Changing, Uncached
    <2>5. AtCaches(th, w, i + 1)
      BY <1>1, <1>2, <1>3, <1>8 DEF At, AtCaches, WritingAt, Uncached
    <2>6. Decided(th, w, i + 1)
      BY <1>1, <1>2, <1>3 DEF At, Decided, LoggingIn
    <2>7. account_faults' \in 0..MaxAccountFaults
      BY <1>5, FaultCounted
    <2> QED BY <1>1, <1>3, <1>5, <1>6, <1>7, <2>2, <2>3, <2>4, <2>5, <2>6, <2>7, Stays DEF At
  <1>9. CASE acc[th].found /\ UserDataBaseCache[id] = NoRow
    <2>0. id \in DOMAIN users /\ id # 0 /\ id \in Ids /\ acc[th].mine # NoRow /\ acc[th].mine \in UserRow
      BY <1>1, <1>2, <1>9, Tables DEF At, AboutUser, Changing, InHand, AtCaches, Uncached
    <2>1. PICK c \in CallRecord : c = [acc[th] EXCEPT !.mine = NoRow]
      BY <1>4 DEF CallRecord
    <2>2. c.mine = NoRow /\ SameBut(c, acc[th], {"mine"})
      BY <1>4, <2>1 DEF CallRecord, SameBut
    <2>3. PICK row \in UserRow : row = acc[th].mine
      BY <2>0
    <2>4. PICK k \in Ids : k = id
      BY <2>0
    <2>5. /\ acc' = [acc EXCEPT ![th] = c] /\ acc'[th] = c
          /\ UserDataBaseCache' = [UserDataBaseCache EXCEPT ![k] = row] /\ UNCHANGED UserMailToUserIdMap
      BY <1>9, <2>1, <2>3, <2>4 DEF Own, CacheUser, Set, Emplaced, AccountInv, TablesOK
    <2>6. Fresh(row, k) /\ row # NoRow /\ UserDataBaseCache'[k] = row
      BY <1>1, <1>9, <2>0, <2>3, <2>4, <2>5 DEF At, InHand, Uncached, AccountInv, TablesOK
    <2>7. ~Uncached(th)'
      BY <2>2, <2>4, <2>5, <2>6 DEF Uncached, SameBut
    <2>8. Given(th, w, i + 1)' /\ AboutUser(th, w, i + 1)'
      BY <1>1, <1>2, <1>5, <2>2, <2>5 DEF At, Given, AboutUser, KnownAt, Changing, SameBut
    <2>9. InHand(th, w, i + 1)' /\ Proven(th, w, i + 1)'
      BY <1>1, <1>2, <1>5, <2>2, <2>5, <2>7 DEF At, InHand, Proven, Changing, SameBut, codeVars
    <2>10. AtCaches(th, w, i + 1)'
      BY <1>2, <1>3, <2>7 DEF AtCaches, WritingAt
    <2>11. Decided(th, w, i + 1)'
      <3>1. /\ Wide(th)' <=> Wide(th)
            /\ Covers(th) => Covers(th)'
            /\ Another(th)' <=> Another(th)
        BY <1>5, <1>9, <2>2, <2>4, <2>5, <2>6, GoodCached DEF SameBut
      <3> QED BY <1>1, <1>2, <1>3, <1>5, <2>2, <2>5, <3>1 DEF At, Decided, LoggingIn, SameBut
    <2>12. At(th, w, i + 1)'
      BY <2>8, <2>9, <2>10, <2>11 DEF At
    <2> QED BY <1>3, <1>5, <1>6, <1>7, <1>9, <2>0, <2>4, <2>5, <2>6, <2>12, CachedStep
  <1> QED BY <1>8, <1>9

LEMMA MapUserInv ==
  ASSUME AccountInv, NEW th \in Threads, CacheUser(th), AtStep(th, "mapUser")
  PROVE  AccountInv'
  <1>0. PICK w \in Ways : \E i \in 1..Ends(w) : pc[th] = Rest(w, i) /\ At(th, w, i) /\ Steps(w)[i] = "mapUser"
    BY Starts
  <1>1. PICK i \in 1..Ends(w) : pc[th] = Rest(w, i) /\ At(th, w, i) /\ Steps(w)[i] = "mapUser"
    BY <1>0
  <1>2. \/ w = "login" /\ i = 9
        \/ w = "integrate" /\ i \in {5, 10, 15}
        \/ w \in {"register", "registerVerify", "reset"} /\ i = 5
        \/ w = "resetVerify" /\ i = 6
    BY <1>1, MapUserPlace
  <1>3. /\ i # Ends(w) /\ i + 1 \in 1..Ends(w) /\ (w = "login" => i + 1 = Ends(w)) /\ i + 1 # 17
        /\ Steps(w)[i + 1] \in {"login", "orRegister", "findMapped", "loginMapped", "generateCode", "consumeCode",
                                "generateToken", "update"}
    BY <1>2, LoginSteps, IntegrateSteps, RegisterSteps, RegisterVerifySteps, ResetSteps, ResetVerifySteps
  <1>4. acc[th].id \in {0} \cup Ids /\ acc[th].mail \in Mails
    BY <1>1, <1>2, Tables DEF At, AboutUser, Given, Changing
  <1>5. UNCHANGED <<users, UserDataBaseCache, acc, doubted, overlapped, submitted, codeVars, account_faults>>
    BY DEF CacheUser, Keep, accountDoubts, AtStep
  <1>6. pc' = [pc EXCEPT ![th] = Rest(w, i + 1)]
    BY <1>1, <1>3, Goes DEF CacheUser
  <1>7. pc'[th] = Rest(w, i + 1) /\ \A o \in Threads \ {th} : pc'[o] = pc[o]
    BY <1>6 DEF AccountInv, TablesOK
  <1>8. ~SetsLater(th) /\ Steps(w)[i + 1] # "insert"
    BY <1>1, <1>3, Reads DEF SetsLater
  <1>9. UserMailToUserIdMap' \in [Mails -> {0} \cup Ids] /\ MappedUserCached'
    <2>1. CASE ~acc[th].found
      BY <1>5, <2>1 DEF CacheUser, AccountInv, TablesOK, MappedUserCached
    <2>2. CASE acc[th].found
      <3>1. UserMailToUserIdMap' = [UserMailToUserIdMap EXCEPT ![acc[th].mail] = IF @ = 0 THEN acc[th].id ELSE @]
        BY <2>2 DEF CacheUser, AtStep
      <3>2. UserMailToUserIdMap' \in [Mails -> {0} \cup Ids]
        BY <1>4, <3>1 DEF AccountInv, TablesOK
      <3>3. UserDataBaseCache[acc[th].id].email = acc[th].mail
        BY <1>1, <1>2, <1>4, <2>2 DEF At, AboutUser, AtCaches, Uncached, Changing, AccountInv, CacheOK
      <3> QED BY <1>4, <1>5, <3>1, <3>2, <3>3 DEF MappedUserCached, AccountInv, TablesOK
    <2> QED BY <2>1, <2>2
  <1>10. Given(th, w, i + 1) /\ AboutUser(th, w, i + 1)
    BY <1>1, <1>2, <1>3 DEF At, Given, AboutUser, KnownAt, Changing
  <1>11. InHand(th, w, i + 1) /\ Proven(th, w, i + 1)
    BY <1>1, <1>2, <1>3 DEF At, InHand, Proven, Changing, AtCaches
  <1>12. AtCaches(th, w, i + 1)
    BY <1>1, <1>2, <1>3 DEF At, AtCaches, WritingAt
  <1>13. Decided(th, w, i + 1)
    BY <1>1, <1>2, <1>3 DEF At, Decided, LoggingIn
  <1>14. At(th, w, i + 1)'
    BY <1>5, <1>10, <1>11, <1>12, <1>13, AtKept DEF At, codeVars
  <1>15. InsertsOK'
    <2>1. ~Inserting(th)'
      BY <1>3, <1>7, <1>8, ReadsNext DEF Inserting
    <2>2. ASSUME NEW o \in Threads \ {th} PROVE Inserting(o)' <=> Inserting(o)
      BY <1>7 DEF Inserting, AtStep, Busy
    <2>3. \A m : Registered(m)' = Registered(m)
      BY <1>5 DEF Registered
    <2> QED BY <1>5, <2>1, <2>2, <2>3 DEF AccountInv, InsertsOK
  <1>16. /\ acc' \in [Threads -> CallRecord] /\ overlapped \subseteq overlapped' /\ overlapped' \subseteq Mails
         /\ account_faults' \in 0..MaxAccountFaults
    BY <1>5 DEF AccountInv, TablesOK
  <1> QED BY <1>3, <1>5, <1>6, <1>8, <1>9, <1>14, <1>15, <1>16, LocalCore

(***************************************************************************)
(* An object is set.                                                       *)
(***************************************************************************)
\* A row with one field set.
LEMMA SetRow ==
  ASSUME NEW row \in UserRow, NEW f \in {"username", "password"}, NEW x,
         f = "username" => x \in Names, f = "password" => x \in Passwords
  PROVE  LET new == [row EXCEPT ![f] = x] IN
         /\ new \in UserRow /\ new # NoRow /\ new.email = row.email /\ new[f] = x
         /\ \A g \in {"username", "password"} \ {f} : new[g] = row[g]
  BY AccountsAssumption DEF UserRow, NoRow

LEMMA RowsEqual ==
  ASSUME NEW r \in UserRow, NEW q \in UserRow, r.email = q.email, \A f \in {"username", "password"} : r[f] = q[f]
  PROVE  r = q
  BY DEF UserRow

LEMMA SetObjectInv ==
  ASSUME AccountInv, NEW th \in Threads, SetObject(th)
  PROVE  AccountInv'
  <1>0. PICK w \in Ways : \E i \in 1..Ends(w) : pc[th] = Rest(w, i) /\ At(th, w, i) /\ Steps(w)[i] = "set"
    BY Starts DEF SetObject
  <1>1. PICK i \in 1..Ends(w) : pc[th] = Rest(w, i) /\ At(th, w, i) /\ Steps(w)[i] = "set"
    BY <1>0
  <1>2. \/ w = "changePassword" /\ i = 9
        \/ w = "changeName" /\ i = 5
        \/ w = "resetVerify" /\ i = 11
    BY <1>1, SetPlace
  <1>3. /\ i # Ends(w) /\ i + 1 \in 1..Ends(w)
        /\ Steps(w)[i + 1] \in {"changePassword", "changeName", "resetVerify"}
    BY <1>2, ChangePasswordSteps, ChangeNameSteps, ResetVerifySteps
  <1>4. /\ acc[th] \in CallRecord /\ acc[th].id \in DOMAIN users /\ acc[th].id # 0 /\ acc[th].id \in Ids
        /\ acc[th].field \in {"username", "password"}
        /\ acc[th].field = "username" => acc[th].value \in Names
        /\ acc[th].field = "password" => acc[th].value \in Passwords
    BY <1>1, <1>2, Tables DEF At, AboutUser, KnownAt, Changing, Given
  <1>5. UNCHANGED <<users, UserMailToUserIdMap, acc, doubted, overlapped, submitted, codeVars, account_faults>>
    BY DEF SetObject, Keep, accountDoubts
  <1>6. pc' = [pc EXCEPT ![th] = Rest(w, i + 1)]
    BY <1>1, <1>3, Goes DEF SetObject
  <1>7. pc'[th] = Rest(w, i + 1) /\ (\A o \in Threads \ {th} : pc'[o] = pc[o]) /\ pc' \in [Threads -> Seq(StepNames)]
    BY <1>3, <1>6, RestIs DEF AccountInv, TablesOK
  <1>8. At(th, w, i + 1)
    <2>1. Given(th, w, i + 1) /\ AboutUser(th, w, i + 1)
      BY <1>1, <1>2 DEF At, Given, AboutUser, KnownAt, Changing
    <2>2. InHand(th, w, i + 1) /\ Proven(th, w, i + 1)
      BY <1>1, <1>2 DEF At, InHand, Proven, Changing
    <2>3. AtCaches(th, w, i + 1) /\ Decided(th, w, i + 1)
      BY <1>2, <1>3 DEF AtCaches, WritingAt, Decided, LoggingIn
    <2> QED BY <2>1, <2>2, <2>3 DEF At
  <1>9. CASE ~(acc[th].found /\ acc[th].first = NoRow)
    <2>1. UNCHANGED UserDataBaseCache
      BY <1>9 DEF SetObject
    <2>2. ~SetsLater(th)
      BY <1>1, <1>9, Reads DEF SetsLater
    <2>3. At(th, w, i + 1)' /\ acc' \in [Threads -> CallRecord] /\ account_faults' \in 0..MaxAccountFaults
      BY <1>5, <1>8, <2>1, AtKept DEF codeVars, AccountInv, TablesOK
    <2>4. Steps(w)[i + 1] # "insert"
      BY <1>3
    <2> QED BY <1>3, <1>5, <1>6, <2>1, <2>2, <2>3, <2>4, LocalStep
  <1>10. CASE acc[th].found /\ acc[th].first = NoRow
    <2> DEFINE id == acc[th].id
               field == acc[th].field
               old == UserDataBaseCache[id]
               new == [old EXCEPT ![field] = acc[th].value]
    <2>1. old \in UserRow
      BY <1>1, <1>4, <1>10 DEF At, AtCaches, Uncached, AccountInv, TablesOK
    <2>2. /\ new \in UserRow /\ new # NoRow /\ new.email = old.email /\ new[field] = acc[th].value
          /\ \A g \in {"username", "password"} \ {field} : new[g] = old[g]
      BY <1>4, <2>1, SetRow
    <2>3. UserDataBaseCache' = [UserDataBaseCache EXCEPT ![id] = new]
      BY <1>10 DEF SetObject
    <2>4. old # NoRow
      BY <2>1, Tables
    <2> HIDE DEF new
    <2>5. /\ UserDataBaseCache' \in [Ids -> UserRow \cup {NoRow}] /\ UserDataBaseCache'[id] = new
          /\ \A k \in Ids \ {id} : UserDataBaseCache'[k] = UserDataBaseCache[k]
      BY <1>4, <2>2, <2>3 DEF AccountInv, TablesOK
    <2>6. id \in doubted \/ users[id][field] = acc[th].value
      BY <1>1, <1>2 DEF At, AtCaches, WritingAt
    <2>7. \A k \in Ids : (UserDataBaseCache'[k] = NoRow <=> UserDataBaseCache[k] = NoRow)
      BY <2>2, <2>4, <2>5
    <2>8. ASSUME NEW o \in Threads, NEW v \in Ways, NEW j \in 1..Ends(v), At(o, v, j)
          PROVE  At(o, v, j)'
      <3>1. Uncached(o)' <=> Uncached(o)
        BY <1>5, <2>7, Tables DEF Uncached, CallRecord
      <3>2. Given(o, v, j)' /\ AboutUser(o, v, j)' /\ Proven(o, v, j)'
        BY <1>5, <2>8 DEF At, Given, AboutUser, Proven, codeVars
      <3>3. InHand(o, v, j)' /\ AtCaches(o, v, j)'
        BY <1>5, <2>8, <3>1 DEF At, InHand, AtCaches, Fresh
      <3>4. Covers(o) => Covers(o)'
        BY <1>4, <1>5, <2>2, <2>4, <2>5, <2>6, Tables DEF Covers, Registered
      <3>5. /\ Wide(o)' <=> Wide(o)
            /\ Another(o)' <=> Another(o)
            /\ Registered(acc[o].mail)' = Registered(acc[o].mail)
        BY <1>5 DEF Wide, Another, Registered
      <3>6. Decided(o, v, j)'
        BY <1>5, <2>8, <3>4, <3>5 DEF At, Decided
      <3> QED BY <3>2, <3>3, <3>6 DEF At
    <2>9. TablesOK'
      BY <1>5, <1>7, <2>5 DEF AccountInv, TablesOK, MailedCodesTypeOK, codeVars
    <2>10. \A o \in Threads : ThreadOK(o)'
      BY <1>3, <1>5, <1>7, <1>8, <2>8 DEF ThreadOK, AccountInv
    <2>11. ASSUME NEW o \in Threads \ {th} PROVE (SetsLater(o)' <=> SetsLater(o)) /\ (Inserting(o)' <=> Inserting(o))
      BY <1>5, <1>7 DEF SetsLater, Inserting, Writing, AtStep, Busy
    <2>12. CacheOK'
      BY <1>5, <2>2, <2>4, <2>5, <2>6, <2>7, <2>11 DEF AccountInv, CacheOK
    <2>13. InsertsOK'
      <3>1. ~Inserting(th)'
        BY <1>3, <1>7, ReadsNext DEF Inserting
      <3>2. \A m : Registered(m)' = Registered(m)
        BY <1>5 DEF Registered
      <3> QED BY <1>5, <2>11, <3>1, <3>2 DEF AccountInv, InsertsOK
    <2>14. MappedUserCached'
      BY <1>5, <2>2, <2>5 DEF AccountInv, TablesOK, MappedUserCached
    <2>15. CodesOK' /\ OneAccountPerMail'
      BY <1>5 DEF AccountInv, CodesOK, OneAccountPerMail, codeVars
    <2> QED BY <2>9, <2>10, <2>12, <2>13, <2>14, <2>15 DEF AccountInv
  <1> QED BY <1>9, <1>10

(***************************************************************************)
(* A row is updated.                                                       *)
(***************************************************************************)
\* The table with one field of a row set.
LEMMA NewRow ==
  ASSUME AccountInv, NEW id \in DOMAIN users, NEW f \in {"username", "password"}, NEW x,
         f = "username" => x \in Names, f = "password" => x \in Passwords
  PROVE  \E row \in UserRow :
            /\ row = [users[id] EXCEPT ![f] = x]
            /\ row.email = users[id].email /\ row[f] = x /\ \A g \in {"username", "password"} \ {f} : row[g] = users[id][g]
  <1>1. users[id] \in UserRow
    BY Tables
  <1> DEFINE new == [users[id] EXCEPT ![f] = x]
  <1>2. /\ new \in UserRow /\ new.email = users[id].email /\ new[f] = x
        /\ \A g \in {"username", "password"} \ {f} : new[g] = users[id][g]
    BY <1>1, SetRow
  <1>3. new = [users[id] EXCEPT ![f] = x]
    OBVIOUS
  <1> HIDE DEF new
  <1> QED BY <1>2, <1>3

LEMMA Updated ==
  ASSUME AccountInv, NEW id \in DOMAIN users, NEW row \in UserRow, row.email = users[id].email,
         users' = [users EXCEPT ![id] = row]
  PROVE  /\ users' \in Seq(UserRow) /\ Len(users') <= MaxUsers /\ DOMAIN users' = DOMAIN users
         /\ users'[id] = row /\ \A k \in DOMAIN users \ {id} : users'[k] = users[k]
         /\ \A k \in DOMAIN users : users'[k].email = users[k].email
         /\ \A m : Registered(m)' = Registered(m)
  BY DEF AccountInv, TablesOK, Registered

\* Who has a row in hand that nobody cached, or writes the same, makes the update doubtful.
LEMMA AtUpdated ==
  ASSUME AccountInv, NEW th \in Threads, NEW o \in Threads, o # th,
         NEW w \in Ways, NEW i \in 1..Ends(w), pc[o] = Rest(w, i), At(o, w, i),
         NEW id \in DOMAIN users, id = acc[th].id, NEW f \in {"username", "password"}, f = acc[th].field,
         NEW row \in UserRow, row.email = users[id].email,
         \A g \in {"username", "password"} \ {f} : row[g] = users[id][g],
         users' = [users EXCEPT ![id] = row], doubted' = (IF Doubtful(th) THEN doubted \cup {id} ELSE doubted),
         UNCHANGED <<UserDataBaseCache, submitted, issued>>,
         SameBut(acc'[o], acc[o], {"good"}), acc[o].good \subseteq acc'[o].good,
         IF LoggingIn(w) /\ f = "password" /\ acc[o].mail = users[id].email
         THEN row[f] \in acc'[o].good ELSE acc'[o].good = acc[o].good
  PROVE  At(o, w, i)'
  <1>1. /\ DOMAIN users' = DOMAIN users
        /\ \A k \in DOMAIN users \ {id} : users'[k] = users[k]
        /\ \A g \in {"username", "password"} \ {f} : users'[id][g] = users[id][g]
        /\ \A k \in DOMAIN users : users'[k].email = users[k].email
        /\ \A m : Registered(m)' = Registered(m)
        /\ users'[id] = row
    BY Updated
  <1>2. /\ acc'[o].mail = acc[o].mail /\ acc'[o].field = acc[o].field /\ acc'[o].value = acc[o].value
        /\ acc'[o].old = acc[o].old /\ acc'[o].code = acc[o].code /\ acc'[o].id = acc[o].id
        /\ acc'[o].found = acc[o].found /\ acc'[o].mine = acc[o].mine /\ acc'[o].first = acc[o].first
        /\ acc'[o].in = acc[o].in /\ acc'[o].failed = acc[o].failed
    BY DEF SameBut
  <1>3. /\ acc[o].id \in {0} \cup DOMAIN users /\ 0 \notin DOMAIN users /\ acc[o].field \in {"username", "password"}
        /\ acc[o].mine \in UserRow \cup {NoRow}
    BY Tables DEF At, AboutUser, CallRecord
  <1>4. doubted \subseteq doubted' /\ Uncached(o)' = Uncached(o)
    BY <1>2 DEF Uncached
  <1>5. ASSUME acc[o].id = id, \/ Writing(o) /\ acc[o].field = f
                               \/ Uncached(o) /\ (AtStep(o, "emplace") \/ acc[o].mine # NoRow)
        PROVE  acc[o].id \in doubted'
    BY <1>5 DEF Doubtful, Uncached
  <1>6. acc[o].id # id /\ acc[o].id # 0 => users'[acc[o].id] = users[acc[o].id]
    BY <1>1, <1>3
  <1>7. (AtStep(o, "emplace") <=> Steps(w)[i] = "emplace") /\ (Writing(o) <=> WritingAt(w, i))
    BY Reads
  <1>8. Given(o, w, i)' /\ AboutUser(o, w, i)' /\ Proven(o, w, i)'
    BY <1>1, <1>2, <1>3 DEF At, Given, AboutUser, Proven
  <1>9. InHand(o, w, i)'
    BY <1>1, <1>2, <1>3, <1>4, <1>5, <1>6 DEF At, InHand, Uncached, Fresh
  <1>10. AtCaches(o, w, i)'
    <2>1. Steps(w)[i] = "emplace" /\ Uncached(o) => Fresh(acc[o].first, acc[o].id)'
      BY <1>1, <1>2, <1>3, <1>4, <1>5, <1>6, <1>7 DEF At, AtCaches, Uncached, Fresh
    <2>2. WritingAt(w, i) => acc[o].id \in doubted' \/ users'[acc[o].id][acc[o].field] = acc[o].value
      BY <1>1, <1>3, <1>4, <1>5, <1>6, <1>7 DEF At, AboutUser, KnownAt, WritingAt, Changing,
         AtCaches
    <2> QED BY <1>2, <1>4, <2>1, <2>2 DEF At, AtCaches
  <1>11. Decided(o, w, i)'
    <2> SUFFICES ASSUME LoggingIn(w) PROVE Decided(o, w, i)'
      BY DEF Decided
    <2>1. Wide(o) => Wide(o)'
      BY DEF Wide
    <2>2. Covers(o) => Covers(o)'
      BY <1>1, <1>2, <1>4 DEF Covers, Registered
    <2>3. Registered(acc[o].mail)' = Registered(acc[o].mail)
      BY <1>1, <1>2
    <2>4. Another(o) => Another(o)'
      BY <1>2, <2>3 DEF Registered, Another
    <2> QED BY <1>2, <1>4, <2>1, <2>2, <2>3, <2>4 DEF At, Decided
  <1> QED BY <1>8, <1>9, <1>10, <1>11 DEF At

\* The successful UPDATE of the row of id, which is then row.
UpdatesTo(th, w, i, id, f, x, row) ==
    /\ id = acc[th].id /\ f = acc[th].field /\ x = acc[th].value
    /\ row.email = users[id].email /\ row[f] = x /\ \A g \in {"username", "password"} \ {f} : row[g] = users[id][g]
    /\ users' = [users EXCEPT ![id] = row]
    /\ acc' = IF f = "password" THEN NowGood(users[id].email, {x}) ELSE acc
    /\ doubted' = IF Doubtful(th) THEN doubted \cup {id} ELSE doubted
    /\ Advance(th)
    /\ UNCHANGED account_faults

LEMMA UpdateCarried ==
  ASSUME AccountInv, NEW th \in Threads, NEW w \in Ways, NEW i \in 1..Ends(w), pc[th] = Rest(w, i), At(th, w, i),
         Steps(w)[i] = "update", i # Ends(w), i + 1 \in 1..Ends(w), Steps(w)[i + 1] = "lookUp", WritingAt(w, i + 1),
         w \in {"changePassword", "changeName", "resetVerify"}, w = "resetVerify" => i = 7,
         acc[th] \in CallRecord, ~SetsLater(th),
         NEW id \in DOMAIN users, NEW f \in {"username", "password"}, NEW x, NEW row \in UserRow,
         f = "password" => x \in Passwords, UpdatesTo(th, w, i, id, f, x, row),
         ~Changing(w) => users[id].email = acc[th].mail,
         UNCHANGED <<UserDataBaseCache, UserMailToUserIdMap, overlapped, submitted, codeVars>>
  PROVE  AccountInv'
  <1>1. /\ id = acc[th].id /\ f = acc[th].field /\ x = acc[th].value
        /\ row.email = users[id].email /\ row[f] = x /\ \A g \in {"username", "password"} \ {f} : row[g] = users[id][g]
        /\ users' = [users EXCEPT ![id] = row]
        /\ doubted' = IF Doubtful(th) THEN doubted \cup {id} ELSE doubted
        /\ Advance(th) /\ UNCHANGED account_faults
    BY DEF UpdatesTo
  <1>2. /\ users' \in Seq(UserRow) /\ Len(users') <= MaxUsers /\ DOMAIN users' = DOMAIN users
        /\ users'[id] = row /\ \A k \in DOMAIN users \ {id} : users'[k] = users[k]
        /\ \A k \in DOMAIN users : users'[k].email = users[k].email
        /\ \A m : Registered(m)' = Registered(m)
    BY <1>1, Updated
  <1>3. id \in Ids /\ id # 0 /\ doubted \subseteq doubted' /\ doubted' \subseteq Ids
    BY <1>1, Tables DEF AccountInv, TablesOK
  <1>4. /\ pc'[th] = Rest(w, i + 1) /\ (\A o \in Threads \ {th} : pc'[o] = pc[o]) /\ pc' \in [Threads -> Seq(StepNames)]
    <2>1. pc' = [pc EXCEPT ![th] = Rest(w, i + 1)]
      BY <1>1, Goes
    <2> QED BY <2>1, RestIs DEF AccountInv, TablesOK
  <1>5. ASSUME NEW o \in Threads
        PROVE  /\ acc'[o] \in CallRecord /\ SameBut(acc'[o], acc[o], {"good"}) /\ acc[o].good \subseteq acc'[o].good
               /\ IF f = "password" /\ Busy(o) /\ Op(o) = "login" /\ acc[o].mail = users[id].email
                  THEN x \in acc'[o].good ELSE acc'[o] = acc[o]
    <2>1. acc[o] \in CallRecord
      BY Tables
    <2>2. CASE f = "password"
      BY <2>1, <2>2, NowGoodIs DEF UpdatesTo
    <2>3. CASE f # "password"
      BY <2>1, <2>3 DEF UpdatesTo, SameBut
    <2> QED BY <2>2, <2>3
  <1>6. acc'[th] = acc[th]
    BY <1>5, Reads DEF OpOf
  <1>7. acc' \in [Threads -> CallRecord]
    BY <1>5 DEF UpdatesTo, NowGood, AccountInv, TablesOK
  <1>8. TablesOK'
    BY <1>1, <1>2, <1>3, <1>4, <1>7 DEF AccountInv, TablesOK, MailedCodesTypeOK, codeVars
  <1>9. At(th, w, i + 1)'
    <2>1. Given(th, w, i + 1)' /\ AboutUser(th, w, i + 1)'
      BY <1>1, <1>2, <1>3, <1>6 DEF At, Given, AboutUser, KnownAt, Changing
    <2>2. InHand(th, w, i + 1)' /\ Proven(th, w, i + 1)'
      BY <1>6 DEF At, InHand, Proven, Changing, Uncached, codeVars
    <2>3. AtCaches(th, w, i + 1)'
      BY <1>1, <1>2, <1>6 DEF AtCaches
    <2>4. Decided(th, w, i + 1)'
      BY DEF Decided, LoggingIn
    <2> QED BY <2>1, <2>2, <2>3, <2>4 DEF At
  <1>10. \A o \in Threads : ThreadOK(o)'
    <2>1. ThreadOK(th)'
      BY <1>4, <1>9 DEF ThreadOK
    <2>2. ASSUME NEW o \in Threads \ {th} PROVE ThreadOK(o)'
      <3>1. CASE pc[o] = <<>>
        <4>1. acc[o] = NoAccountCall
          BY <3>1, RestIs DEF AccountInv, ThreadOK
        <4>2. ~Busy(o) /\ pc'[o] = <<>>
          BY <1>4, <3>1, ReadsIdle
        <4> QED BY <4>1, <4>2, <1>5 DEF ThreadOK
      <3>2. CASE pc[o] # <<>>
        <4>1. PICK v \in Ways : \E j \in 1..Ends(v) : pc[o] = Rest(v, j) /\ At(o, v, j)
          BY <3>2, Place
        <4>2. PICK j \in 1..Ends(v) : pc[o] = Rest(v, j) /\ At(o, v, j)
          BY <4>1
        <4>3. Busy(o) /\ Op(o) = OpOf(v) /\ (LoggingIn(v) <=> OpOf(v) = "login")
          BY <4>2, Reads DEF LoggingIn, OpOf
        <4>4. IF LoggingIn(v) /\ f = "password" /\ acc[o].mail = users[id].email
              THEN row[f] \in acc'[o].good ELSE acc'[o].good = acc[o].good
          BY <1>1, <1>5, <4>3
        <4>5. At(o, v, j)'
          BY <1>1, <1>5, <4>2, <4>4, AtUpdated DEF codeVars
        <4> QED BY <1>4, <4>2, <4>5 DEF ThreadOK
      <3> QED BY <3>1, <3>2
    <2> QED BY <2>1, <2>2
  <1>11. ASSUME NEW o \in Threads \ {th}
         PROVE  /\ SetsLater(o)' <=> SetsLater(o)
                /\ Inserting(o)' <=> Inserting(o)
                /\ acc'[o].id = acc[o].id /\ acc'[o].field = acc[o].field /\ acc'[o].mail = acc[o].mail
    BY <1>4, <1>5 DEF SetsLater, Inserting, Writing, AtStep, Busy, SameBut
  <1>12. CacheOK'
    <2>1. \A k \in Ids : UserDataBaseCache[k] # NoRow => k \in DOMAIN users' /\ UserDataBaseCache[k].email = users'[k].email
      BY <1>2 DEF AccountInv, CacheOK
    <2>2. ASSUME NEW k \in Ids \ doubted', NEW g \in {"username", "password"}, UserDataBaseCache[k] # NoRow
          PROVE  \/ UserDataBaseCache[k][g] = users'[k][g]
                 \/ \E t \in Threads : SetsLater(t)' /\ acc'[t].id = k /\ acc'[t].field = g
      <3>1. CASE k = id /\ g = f
        BY <1>1, <1>4, <1>6, <3>1, ReadsNext DEF SetsLater
      <3>2. CASE ~(k = id /\ g = f)
        <4>1. k \in DOMAIN users
          BY <2>2 DEF AccountInv, CacheOK
        <4>2. users'[k][g] = users[k][g]
          BY <1>1, <1>2, <3>2, <4>1
        <4>3. \/ UserDataBaseCache[k][g] = users[k][g]
              \/ \E t \in Threads : SetsLater(t) /\ acc[t].id = k /\ acc[t].field = g
          BY <1>3, <2>2 DEF AccountInv, CacheOK
        <4> QED BY <1>11, <4>2, <4>3
      <3> QED BY <3>1, <3>2
    <2> QED BY <2>1, <2>2 DEF CacheOK
  <1>13. InsertsOK'
    <2>1. ~Inserting(th)'
      BY <1>4, ReadsNext DEF Inserting
    <2> QED BY <1>2, <1>11, <2>1 DEF AccountInv, InsertsOK
  <1>14. OneAccountPerMail'
    BY <1>2 DEF AccountInv, OneAccountPerMail
  <1>15. MappedUserCached' /\ CodesOK'
    BY DEF AccountInv, MappedUserCached, CodesOK, codeVars
  <1> QED BY <1>8, <1>10, <1>12, <1>13, <1>14, <1>15 DEF AccountInv

LEMMA UpdateInDBInv ==
  ASSUME AccountInv, NEW th \in Threads, UpdateInDB(th)
  PROVE  AccountInv'
  <1>0. PICK w \in Ways : \E i \in 1..Ends(w) : pc[th] = Rest(w, i) /\ At(th, w, i) /\ Steps(w)[i] = "update"
    BY Starts DEF UpdateInDB
  <1>1. PICK i \in 1..Ends(w) : pc[th] = Rest(w, i) /\ At(th, w, i) /\ Steps(w)[i] = "update"
    BY <1>0
  <1>2. \/ w = "changePassword" /\ i = 5
        \/ w = "changeName" /\ i = 1
        \/ w = "resetVerify" /\ i = 7
    BY <1>1, UpdatePlace
  <1>3. /\ i # Ends(w) /\ i + 1 \in 1..Ends(w) /\ Steps(w)[i + 1] = "lookUp" /\ WritingAt(w, i + 1)
        /\ Ends(w) \in 1..Ends(w) /\ Steps(w)[Ends(w)] = w
        /\ ~WritingAt(w, Ends(w)) /\ (w = "resetVerify" => Ends(w) = 12)
    BY <1>2, ChangePasswordSteps, ChangeNameSteps, ResetVerifySteps DEF WritingAt
  <1>4. acc[th] \in CallRecord /\ ~SetsLater(th)
    BY <1>1, Tables, Reads DEF SetsLater
  <1>5. UNCHANGED <<UserDataBaseCache, UserMailToUserIdMap, overlapped, submitted, codeVars>>
    BY DEF UpdateInDB
  <1>6. CASE ~acc[th].found /\ Return(th) /\ UNCHANGED <<users, acc, doubted, account_faults>>
    <2>1. pc' = [pc EXCEPT ![th] = Rest(w, Ends(w))]
      BY <1>1, <1>6, Goes
    <2>2. Given(th, w, Ends(w)) /\ AboutUser(th, w, Ends(w))
      BY <1>1, <1>2, <1>3 DEF At, Given, AboutUser, KnownAt, Changing
    <2>3. InHand(th, w, Ends(w)) /\ Proven(th, w, Ends(w))
      BY <1>1, <1>2, <1>3 DEF At, InHand, Proven, Changing
    <2>4. AtCaches(th, w, Ends(w)) /\ Decided(th, w, Ends(w))
      BY <1>2, <1>3 DEF AtCaches, Decided, LoggingIn
    <2>5. UNCHANGED <<users, UserDataBaseCache, UserMailToUserIdMap, doubted, overlapped, submitted, codeVars>>
      BY <1>5, <1>6
    <2>6. Steps(w)[Ends(w)] # "insert" /\ account_faults' \in 0..MaxAccountFaults
      BY <1>2, <1>3, <1>6, FaultCounted
    <2> QED BY <1>1, <1>3, <1>6, <2>1, <2>2, <2>3, <2>4, <2>5, <2>6, Stays DEF At
  <1>7. CASE AccountFault /\ acc[th].found /\ Set(th, Failed(th)) /\ Return(th) /\ UNCHANGED <<users, doubted>>
    <2>1. pc' = [pc EXCEPT ![th] = Rest(w, Ends(w))]
      BY <1>1, <1>7, Goes
    <2>2. PICK c \in CallRecord : c = [acc[th] EXCEPT !.found = FALSE, !.failed = TRUE]
      BY <1>4 DEF CallRecord
    <2>3. c.found = FALSE /\ SameBut(c, acc[th], {"found", "failed"})
      BY <1>4, <2>2 DEF CallRecord, SameBut
    <2>4. acc' = [acc EXCEPT ![th] = c] /\ acc'[th] = c
      BY <1>7, <2>2 DEF Set, Failed, AccountInv, TablesOK
    <2>5. Given(th, w, Ends(w))' /\ AboutUser(th, w, Ends(w))'
      BY <1>1, <1>2, <1>3, <1>7, <2>3, <2>4 DEF At, Given, AboutUser, KnownAt, Changing, SameBut
    <2>6. InHand(th, w, Ends(w))' /\ Proven(th, w, Ends(w))'
      BY <1>1, <1>2, <1>3, <1>5, <1>7, <2>3, <2>4 DEF At, InHand, Proven, Changing, Uncached, Fresh, SameBut
    <2>7. AtCaches(th, w, Ends(w))' /\ Decided(th, w, Ends(w))'
      BY <1>2, <1>3 DEF AtCaches, WritingAt, Decided, LoggingIn
    <2>8. UNCHANGED <<users, UserDataBaseCache, UserMailToUserIdMap, doubted, overlapped, submitted, codeVars>>
      BY <1>5, <1>7
    <2>9. Steps(w)[Ends(w)] # "insert" /\ account_faults' \in 0..MaxAccountFaults
      BY <1>2, <1>3, <1>7, FaultCounted
    <2> QED BY <1>1, <1>3, <2>1, <2>4, <2>5, <2>6, <2>7, <2>8, <2>9, Moves DEF At
  <1>8. CASE /\ acc[th].found
             /\ users' = [users EXCEPT ![acc[th].id][acc[th].field] = acc[th].value]
             /\ acc' = IF acc[th].field = "password" THEN NowGood(users[acc[th].id].email, {acc[th].value}) ELSE acc
             /\ doubted' = IF Doubtful(th) THEN doubted \cup {acc[th].id} ELSE doubted
             /\ Advance(th)
             /\ UNCHANGED account_faults
    <2>1. /\ acc[th].id \in DOMAIN users /\ acc[th].id # 0 /\ acc[th].id \in Ids
          /\ acc[th].field \in {"username", "password"}
          /\ acc[th].field = "username" => acc[th].value \in Names
          /\ acc[th].field = "password" => acc[th].value \in Passwords
          /\ ~Changing(w) => users[acc[th].id].email = acc[th].mail
      BY <1>1, <1>2, <1>8, Tables DEF At, AboutUser, KnownAt, Changing, Given
    <2>2. PICK id \in DOMAIN users : id = acc[th].id
      BY <2>1
    <2>3. PICK f \in {"username", "password"} : f = acc[th].field
      BY <2>1
    <2>4. PICK x : x = acc[th].value
      OBVIOUS
    <2>5. PICK row \in UserRow :
             /\ row = [users[id] EXCEPT ![f] = x]
             /\ row.email = users[id].email /\ row[f] = x /\ \A g \in {"username", "password"} \ {f} : row[g] = users[id][g]
      BY <2>1, <2>3, <2>4, NewRow
    <2>6. users' = [users EXCEPT ![id] = row]
      BY <1>8, <2>2, <2>3, <2>4, <2>5
    <2>7. UpdatesTo(th, w, i, id, f, x, row)
      BY <1>8, <2>2, <2>3, <2>4, <2>5, <2>6 DEF UpdatesTo
    <2> QED BY <1>1, <1>2, <1>3, <1>4, <1>5, <2>1, <2>2, <2>3, <2>4, <2>7, UpdateCarried
  <1> QED BY <1>6, <1>7, <1>8 DEF UpdateInDB

(***************************************************************************)
(* The codes that are mailed: a step that changes their maps, and at most  *)
(* moves a thread on to its reply.                                         *)
(***************************************************************************)
LEMMA AtGrows ==
  ASSUME NEW o \in Threads, acc'[o] = acc[o], UNCHANGED <<users, UserDataBaseCache, doubted>>,
         submitted \subseteq submitted', issued \subseteq issued', NEW w, NEW i, At(o, w, i)
  PROVE  At(o, w, i)'
  <1>1. Given(o, w, i)' /\ AboutUser(o, w, i)'
    BY DEF At, Given, AboutUser
  <1>2. InHand(o, w, i)'
    BY DEF At, InHand, Fresh, Uncached
  <1>3. AtCaches(o, w, i)' /\ Proven(o, w, i)'
    BY DEF At, AtCaches, Proven, Fresh, Uncached
  <1>4. Decided(o, w, i)'
    BY DEF At, Decided, Wide, Covers, Another, Registered
  <1> QED BY <1>1, <1>2, <1>3, <1>4 DEF At

LEMMA CodesCore ==
  ASSUME AccountInv, pc' \in [Threads -> Seq(StepNames)], \A o \in Threads : ThreadOK(o)',
         \A o \in Threads : (SetsLater(o) => SetsLater(o)') /\ (Inserting(o)' => Inserting(o)),
         UNCHANGED <<users, UserDataBaseCache, UserMailToUserIdMap, acc, doubted, overlapped, account_faults>>,
         MailedCodesTypeOK', CodesOK'
  PROVE  AccountInv'
  BY DEF AccountInv, TablesOK, CacheOK, Registered, InsertsOK, MappedUserCached, OneAccountPerMail

\* The last step before the reply.
LEMMA CodesStep ==
  ASSUME AccountInv, NEW th \in Threads, NEW w \in {"register", "registerVerify", "reset"}, NEW i \in 1..Ends(w),
         i = 6, pc[th] = Rest(w, i), At(th, w, i), Advance(th),
         UNCHANGED <<users, UserDataBaseCache, UserMailToUserIdMap, acc, doubted, overlapped, account_faults>>,
         submitted \subseteq submitted', issued \subseteq issued', MailedCodesTypeOK', CodesOK'
  PROVE  AccountInv'
  <1>1. /\ w \in Ways /\ Ends(w) = 7 /\ i # Ends(w) /\ i + 1 = 7 /\ i + 1 = Ends(w) /\ i + 1 \in 1..Ends(w)
        /\ Steps(w)[7] = w /\ w \notin {"insert", "set", "emplace", "cacheUser", "mapUser", "lookUp"}
        /\ Steps(w)[i] \in {"generateCode", "consumeCode", "generateToken"}
    BY RegisterSteps, RegisterVerifySteps, ResetSteps DEF Ways
  <1>2. pc' = [pc EXCEPT ![th] = Rest(w, 7)] /\ Rest(w, 7) \in Seq(StepNames)
    <2>1. 7 \in 1..Ends(w) /\ pc' = [pc EXCEPT ![th] = Rest(w, i + 1)]
      BY <1>1, Goes
    <2>2. Rest(w, 7) \in Seq(StepNames)
      BY <1>1, <2>1, RestIs
    <2> QED BY <1>1, <2>1, <2>2
  <1>3. pc'[th] = Rest(w, 7) /\ (\A o \in Threads \ {th} : pc'[o] = pc[o]) /\ pc' \in [Threads -> Seq(StepNames)]
    BY <1>2 DEF AccountInv, TablesOK
  <1>4. At(th, w, 7)
    <2>1. Given(th, w, 7) /\ AboutUser(th, w, 7)
      BY <1>1 DEF At, Given, AboutUser, KnownAt, Changing
    <2>2. InHand(th, w, 7) /\ Proven(th, w, 7)
      BY <1>1 DEF At, InHand, Proven, Changing
    <2>3. AtCaches(th, w, 7)
      BY <1>1 DEF AtCaches, WritingAt
    <2>4. Decided(th, w, 7)
      BY <1>1 DEF Decided, LoggingIn
    <2> QED BY <2>1, <2>2, <2>3, <2>4 DEF At
  <1>5. \A o \in Threads : ThreadOK(o)'
    BY <1>1, <1>3, <1>4, AtGrows DEF ThreadOK, AccountInv
  <1>6. ASSUME NEW o \in Threads PROVE (SetsLater(o) => SetsLater(o)') /\ (Inserting(o)' => Inserting(o))
    <2>1. CASE o = th
      BY <1>1, <1>3, <2>1, Reads, ReadsNext DEF SetsLater, Inserting
    <2>2. CASE o # th
      BY <1>3, <2>2 DEF SetsLater, Inserting, Writing, AtStep, Busy
    <2> QED BY <2>1, <2>2
  <1> QED BY <1>3, <1>5, <1>6, CodesCore

\* The maps alone.
LEMMA CodesAlone ==
  ASSUME AccountInv, UNCHANGED <<pc, accountVars>>, issued \subseteq issued', MailedCodesTypeOK', CodesOK'
  PROVE  AccountInv'
  BY AtGrows, CodesCore DEF accountVars, accountDoubts, AccountInv, ThreadOK, SetsLater, Inserting,
     Writing, AtStep, Busy, TablesOK

LEMMA GenerateCodeInv ==
  ASSUME AccountInv, NEW th \in Threads, GenerateCode(th)
  PROVE  AccountInv'
  <1>0. PICK w \in Ways : \E i \in 1..Ends(w) : pc[th] = Rest(w, i) /\ At(th, w, i) /\ Steps(w)[i] = "generateCode"
    BY Starts DEF GenerateCode
  <1>1. PICK i \in 1..Ends(w) : pc[th] = Rest(w, i) /\ At(th, w, i) /\ Steps(w)[i] = "generateCode"
    BY <1>0
  <1>2. w = "register" /\ i = 6
    BY <1>1, GenerateCodePlace
  <1>3. /\ Advance(th)
        /\ UNCHANGED <<users, UserDataBaseCache, UserMailToUserIdMap, acc, doubted, overlapped, account_faults>>
    BY DEF GenerateCode
  <1>4. /\ acc[th].mail \in Mails /\ acc[th].old \in Names /\ acc[th].value \in Passwords
    BY <1>1, <1>2 DEF At, Given, Changing
  <1>5. CASE acc[th].found
    BY <1>1, <1>2, <1>3, <1>5, CodesStep DEF GenerateCode, AccountInv, TablesOK, MailedCodesTypeOK,
       CodesOK, codeVars
  <1>6. CASE ~acc[th].found
    <2>1. PICK code \in Codes : /\ GenerateVerificationCode(acc[th].mail, acc[th].old, acc[th].value, code)
                                /\ submitted' = submitted \cup {<<acc[th].mail, code, acc[th].value>>}
      BY <1>6 DEF GenerateCode
    <2> DEFINE made == [code |-> code, username |-> acc[th].old, password |-> acc[th].value, expires |-> now + CodeAliveTimeMins]
    <2>2. made \in Pending /\ made.code = code /\ made.password = acc[th].value
      BY <1>4, MailedCodesAssumption DEF Pending, AccountInv, TablesOK, MailedCodesTypeOK
    <2>3. /\ MailToPendingRegistration' = [MailToPendingRegistration EXCEPT ![acc[th].mail] = made]
          /\ UNCHANGED <<now, TokenToStructureMap, issued>>
      BY <2>1 DEF GenerateVerificationCode
    <2> HIDE DEF made
    <2>4. MailedCodesTypeOK'
      BY <1>4, <2>2, <2>3 DEF AccountInv, TablesOK, MailedCodesTypeOK
    <2>5. /\ MailToPendingRegistration'[acc[th].mail] = made
          /\ \A m \in Mails \ {acc[th].mail} : MailToPendingRegistration'[m] = MailToPendingRegistration[m]
      BY <1>4, <2>3 DEF AccountInv, TablesOK, MailedCodesTypeOK
    <2>6. CodesOK'
      BY <2>1, <2>2, <2>3, <2>5 DEF AccountInv, CodesOK
    <2> QED BY <1>1, <1>2, <1>3, <2>1, <2>3, <2>4, <2>6, CodesStep
  <1> QED BY <1>5, <1>6

LEMMA ConsumeInv ==
  ASSUME AccountInv, NEW th \in Threads, Consume(th)
  PROVE  AccountInv'
  <1>0. PICK w \in Ways : \E i \in 1..Ends(w) : pc[th] = Rest(w, i) /\ At(th, w, i) /\ Steps(w)[i] = "consumeCode"
    BY Starts DEF Consume
  <1>1. PICK i \in 1..Ends(w) : pc[th] = Rest(w, i) /\ At(th, w, i) /\ Steps(w)[i] = "consumeCode"
    BY <1>0
  <1>2. w = "registerVerify" /\ i = 6
    BY <1>1, ConsumeCodePlace
  <1>3. /\ Advance(th)
        /\ UNCHANGED <<users, UserDataBaseCache, UserMailToUserIdMap, acc, doubted, overlapped, submitted, account_faults>>
    BY DEF Consume, accountVars, accountDoubts
  <1>4. /\ UNCHANGED <<now, TokenToStructureMap, issued>>
        /\ MailToPendingRegistration' = [MailToPendingRegistration EXCEPT ![acc[th].mail] =
               IF @.code = acc[th].code THEN NoPending ELSE @]
    BY DEF Consume, ConsumeCode
  <1>5. /\ MailToPendingRegistration' \in [Mails -> Pending \cup {NoPending}]
        /\ \A m \in Mails : MailToPendingRegistration'[m] \in {MailToPendingRegistration[m], NoPending}
    BY <1>4 DEF AccountInv, TablesOK, MailedCodesTypeOK
  <1>6. MailedCodesTypeOK' /\ CodesOK'
    BY <1>3, <1>4, <1>5 DEF AccountInv, TablesOK, MailedCodesTypeOK, CodesOK
  <1> QED BY <1>1, <1>2, <1>3, <1>4, <1>6, CodesStep

LEMMA GenerateTokenInv ==
  ASSUME AccountInv, NEW th \in Threads, GenerateToken(th)
  PROVE  AccountInv'
  <1>0. PICK w \in Ways : \E i \in 1..Ends(w) : pc[th] = Rest(w, i) /\ At(th, w, i) /\ Steps(w)[i] = "generateToken"
    BY Starts DEF GenerateToken
  <1>1. PICK i \in 1..Ends(w) : pc[th] = Rest(w, i) /\ At(th, w, i) /\ Steps(w)[i] = "generateToken"
    BY <1>0
  <1>2. w = "reset" /\ i = 6
    BY <1>1, GenerateTokenPlace
  <1>3. /\ Advance(th)
        /\ UNCHANGED <<users, UserDataBaseCache, UserMailToUserIdMap, acc, doubted, overlapped, submitted, account_faults>>
    BY DEF GenerateToken, accountVars, accountDoubts
  <1>4. acc[th].mail \in Mails
    BY <1>1, <1>2 DEF At, Given, Changing
  <1>5. CASE acc[th].found
    <2>1. PICK token \in Codes : GenerateResetToken(acc[th].mail, token)
      BY <1>5 DEF GenerateToken
    <2> DEFINE made == [mail |-> acc[th].mail, expires |-> now + TimeInMinsForTokenToBeAlive]
    <2>2. made \in Token /\ made.mail = acc[th].mail
      BY <1>4, MailedCodesAssumption DEF Token, AccountInv, TablesOK, MailedCodesTypeOK
    <2>3. /\ TokenToStructureMap' = [TokenToStructureMap EXCEPT ![token] = made]
          /\ issued' = issued \cup {acc[th].mail} /\ UNCHANGED <<now, MailToPendingRegistration>>
      BY <2>1 DEF GenerateResetToken
    <2> HIDE DEF made
    <2>4. MailedCodesTypeOK'
      BY <1>4, <2>2, <2>3 DEF AccountInv, TablesOK, MailedCodesTypeOK
    <2>5. /\ TokenToStructureMap'[token] = made
          /\ \A c \in Codes \ {token} : TokenToStructureMap'[c] = TokenToStructureMap[c]
      BY <2>3 DEF AccountInv, TablesOK, MailedCodesTypeOK
    <2>6. CodesOK'
      BY <1>3, <2>2, <2>3, <2>5 DEF AccountInv, CodesOK
    <2> QED BY <1>1, <1>2, <1>3, <2>3, <2>4, <2>6, CodesStep
  <1>6. CASE ~acc[th].found
    BY <1>1, <1>2, <1>3, <1>6, CodesStep DEF GenerateToken, AccountInv, TablesOK, MailedCodesTypeOK,
       CodesOK, codeVars
  <1> QED BY <1>5, <1>6

LEMMA CodesClockInv ==
  ASSUME AccountInv, CodesClock, UNCHANGED <<pc, accountVars>>
  PROVE  AccountInv'
  <1>1. UNCHANGED submitted
    BY DEF accountVars, accountDoubts
  <1>2. CASE AsyncCleanupExpired
    BY <1>1, <1>2, CodesAlone DEF AsyncCleanupExpired, AccountInv, TablesOK, MailedCodesTypeOK,
       CodesOK
  <1>3. CASE AsyncCleanupTokens
    BY <1>1, <1>3, CodesAlone DEF AsyncCleanupTokens, AccountInv, TablesOK, MailedCodesTypeOK,
       CodesOK
  <1>4. CASE Minute
    BY <1>1, <1>4, MailedCodesAssumption, CodesAlone DEF Minute, AccountInv, TablesOK,
       MailedCodesTypeOK, CodesOK
  <1> QED BY <1>2, <1>3, <1>4 DEF CodesClock

(***************************************************************************)
(* The invariant: it holds at the start and after every step.              *)
(***************************************************************************)
LEMMA Nothing ==
  /\ Idle \in [Threads -> Seq(StepNames)] /\ NoAccountCall \in CallRecord
  /\ [i \in Ids |-> NoRow] \in [Ids -> UserRow \cup {NoRow}]
  /\ [m \in Mails |-> 0] \in [Mails -> {0} \cup Ids]
  /\ [m \in Mails |-> NoPending] \in [Mails -> Pending \cup {NoPending}]
  /\ [c \in Codes |-> NoToken] \in [Codes -> Token \cup {NoToken}]
  BY DEF Idle, NoAccountCall, CallRecord

LEMMA InvAtStart ==
  ASSUME AccountsInit
  PROVE  AccountInv
  <1>1. /\ pc = Idle /\ now = 0 /\ NoCodes
        /\ users \in Seq(UserRow) /\ Len(users) <= MaxUsers
        /\ \A i, j \in DOMAIN users : users[i].email = users[j].email => i = j
        /\ UserDataBaseCache = [i \in Ids |-> NoRow]
        /\ UserMailToUserIdMap = [m \in Mails |-> 0]
        /\ acc = [th \in Threads |-> NoAccountCall]
        /\ doubted = {} /\ overlapped = {} /\ submitted = {} /\ account_faults = 0
    BY DEF AccountsInit, AccountsStart
  <1>2. TablesOK
    BY <1>1, Nothing, MailedCodesAssumption, AccountsAssumption DEF MailedCodesTypeOK, NoCodes,
       TablesOK
  <1>3. \A th \in Threads : pc[th] = <<>> /\ acc[th] = NoAccountCall
    BY <1>1 DEF Idle
  <1>4. \A th \in Threads : ThreadOK(th) /\ ~Inserting(th)
    BY <1>3, ReadsIdle DEF ThreadOK, Inserting
  <1>5. CacheOK /\ MappedUserCached
    BY <1>1 DEF CacheOK, MappedUserCached
  <1>6. CodesOK
    BY <1>1 DEF NoCodes, CodesOK
  <1>7. OneAccountPerMail /\ InsertsOK
    BY <1>1, <1>4 DEF OneAccountPerMail, InsertsOK
  <1> QED BY <1>2, <1>4, <1>5, <1>6, <1>7 DEF AccountInv

LEMMA RestartInv ==
  ASSUME AccountInv, AccountsRestart
  PROVE  AccountInv'
  <1>1. /\ pc' = Idle /\ UNCHANGED <<now, users, overlapped, submitted, account_faults>>
        /\ UserDataBaseCache' = [i \in Ids |-> NoRow]
        /\ UserMailToUserIdMap' = [m \in Mails |-> 0]
        /\ MailToPendingRegistration' = [m \in Mails |-> NoPending]
        /\ TokenToStructureMap' = [c \in Codes |-> NoToken]
        /\ acc' = [th \in Threads |-> NoAccountCall]
        /\ issued' = {} /\ doubted' = {}
    BY DEF AccountsRestart
  <1>2. TablesOK'
    BY <1>1, Nothing DEF AccountInv, TablesOK, MailedCodesTypeOK
  <1>3. \A th \in Threads : pc'[th] = <<>> /\ acc'[th] = NoAccountCall
    BY <1>1 DEF Idle
  <1>4. \A th \in Threads : ThreadOK(th)' /\ ~Inserting(th)'
    BY <1>3, ReadsIdle DEF ThreadOK, Inserting
  <1>5. CacheOK' /\ MappedUserCached'
    BY <1>1 DEF CacheOK, MappedUserCached
  <1>6. CodesOK'
    BY <1>1 DEF CodesOK
  <1>7. OneAccountPerMail' /\ InsertsOK'
    BY <1>1, <1>4 DEF AccountInv, OneAccountPerMail, InsertsOK
  <1> QED BY <1>2, <1>4, <1>5, <1>6, <1>7 DEF AccountInv

LEMMA StepInv ==
  ASSUME AccountInv, NEW th \in Threads, AccountStep(th)
  PROVE  AccountInv'
  <1>1. CASE LookUp(th) \/ SelectById(th) \/ Emplace(th) \/ FindMapped(th) \/ IsKnown(th) \/ DownloadUserFromDBByMail(th)
    BY <1>1, LookUpInv, SelectByIdInv, EmplaceInv, FindMappedInv, IsKnownInv, DownloadByMailInv
  <1>2. CASE CacheUser(th)
    BY <1>2, CacheUserInv, MapUserInv DEF CacheUser
  <1>3. CASE FindCached(th) \/ VerifyPasswords(th) \/ UpdateUserActivity(th) \/ LoginMapped(th) \/ OrRegister(th)
    BY <1>3, FindCachedInv, VerifyPasswordsInv, UpdateUserActivityInv, LoginMappedInv, OrRegisterInv
  <1>4. CASE DoesUserWithMailExists(th) \/ UploadUserToDataBase(th) \/ GenerateCode(th) \/ ValidateCode(th) \/ Consume(th)
    BY <1>4, DoesUserWithMailExistsInv, UploadUserInv, GenerateCodeInv, ValidateCodeInv, ConsumeInv
  <1>5. CASE VerifyOld(th) \/ UpdateInDB(th) \/ SetObject(th) \/ GenerateToken(th) \/ ValidateResetToken(th)
    BY <1>5, VerifyOldInv, UpdateInDBInv, SetObjectInv, GenerateTokenInv, ValidateResetTokenInv
  <1>6. CASE AccountReply(th)
    BY <1>6, AccountReplyInv
  <1> QED BY <1>1, <1>2, <1>3, <1>4, <1>5, <1>6 DEF AccountStep

LEMMA CallInv ==
  ASSUME AccountInv, NEW th \in Threads, AccountCall(th)
  PROVE  AccountInv'
  BY ChangeNameInv, ChangePasswordInv, LoginInv, ResetPassByMailInv, ResetPassByMailVerifyInv,
     IntegrateInv, RegisterInv, RegisterVerifyInv DEF Changes, Signs, Resets, Registers, AccountCall

LEMMA NextInv ==
  ASSUME AccountInv, [AccountNext]_<<pc, codeVars, accountVars>>
  PROVE  AccountInv'
  BY CallInv, StepInv, RestartInv, CodesClockInv, CodesAlone DEF accountVars, accountDoubts,
     AccountInv, TablesOK, MailedCodesTypeOK, CodesOK, codeVars, AccountNext

\* The invariant holds of every run.
THEOREM AccountsKeepInvariant == AccountsSpec => []AccountInv
  <1>1. AccountsInit => AccountInv
    BY InvAtStart
  <1>2. AccountInv /\ [AccountNext]_<<pc, codeVars, accountVars>> => AccountInv'
    BY NextInv
  <1> QED BY <1>1, <1>2, PTL DEF AccountsSpec

(***************************************************************************)
(* What follows from it.                                                   *)
(***************************************************************************)
LEMMA CachesAgree ==
  ASSUME AccountInv
  PROVE  AccountsConsistent
  <1>1. AccountsTypeOK
    BY DEF NoAccountCall, At, AboutUser, InHand, AccountInv, ThreadOK, TablesOK, AccountsTypeOK
  <1>2. CachedUserCurrent
    BY Tables, RowsEqual DEF CachedUserCurrent, AccountInv, TablesOK, CacheOK, SetsLater
  <1> QED BY <1>1, <1>2 DEF AccountInv, AccountsConsistent

LEMMA ReplyPlace ==
  ASSUME NEW w \in Ways, NEW i \in 1..Ends(w), Steps(w)[i] = "login"
  PROVE  LoggingIn(w) /\ i = Ends(w)
  BY LoginPlaces, LoginCachedPlaces, IntegratePlaces, RegisterPlaces, RegisterVerifyPlaces,
     ChangePasswordPlaces, ChangeNamePlaces, ResetPlaces, ResetVerifyPlaces DEF Ways, LoggingIn

LEMMA PasswordsAreRight ==
  ASSUME AccountInv
  PROVE  PasswordsDecide
  BY Starts, TouchPlace, ReplyPlace DEF At, Decided, LoggingIn, Another, PasswordsDecide,
     RevokedPasswordDead, RightPasswordAdmits

LEMMA CodesProve ==
  ASSUME AccountInv
  PROVE  MailedCodesProve
  <1>1. ASSUME NEW th \in Threads, Busy(th), NEW op \in {"registerVerify", "resetVerify"}, Op(th) = op
        PROVE  \E i \in 1..Ends(op) : At(th, op, i) /\ (Writing(th) <=> WritingAt(op, i))
    BY <1>1, Place, Reads DEF Busy, OpOf
  <1>2. ASSUME NEW th \in Threads, Busy(th), Op(th) = "registerVerify", acc[th].mine # NoRow
        PROVE  <<acc[th].mail, acc[th].code, acc[th].mine.password>> \in submitted
    BY <1>1, <1>2 DEF At, Proven
  <1>3. ASSUME NEW th \in Threads, Writing(th), Op(th) = "resetVerify"
        PROVE  users[acc[th].id].email \in issued
    <2>1. Busy(th)
      BY <1>3, ReadsIdle DEF Busy
    <2>2. PICK i \in 1..Ends("resetVerify") : At(th, "resetVerify", i) /\ WritingAt("resetVerify", i)
      BY <1>1, <1>3, <2>1
    <2>3. i \in 8..11
      BY <2>2 DEF WritingAt
    <2>4. acc[th].mail \in issued /\ users[acc[th].id].email = acc[th].mail
      BY <2>2, <2>3 DEF At, Proven, AboutUser, KnownAt, Changing
    <2> QED BY <2>4
  <1> QED BY <1>2, <1>3 DEF MailedCodesProve, AccountAsVerified, ResetOnlyWhereAsked

\* However names, passwords, logins, registrations, failures and restarts overlap, the cached user says what
\* the row says when nobody is writing it (but for users whose writes overlapped), and a mail that is mapped has
\* its user cached, so that LoginIntegration finds one.
THEOREM AccountsStayConsistent == AccountsSpec => []AccountsConsistent
  <1>1. AccountInv => AccountsConsistent
    BY CachesAgree
  <1> QED BY <1>1, AccountsKeepInvariant, PTL

\* LoginUser: a login passes with a password the account had during the call, and the one it had all
\* the while is not refused.
THEOREM LoginsDecidedByPasswords == AccountsSpec => []PasswordsDecide
  <1>1. AccountInv => PasswordsDecide
    BY PasswordsAreRight
  <1> QED BY <1>1, AccountsKeepInvariant, PTL

\* RegisterUser: a mail has one account unless two threads registered it at once.
THEOREM MailsHaveOneAccount == AccountsSpec => []OneAccountPerMail
  <1>1. AccountInv => OneAccountPerMail
    BY DEF AccountInv
  <1> QED BY <1>1, AccountsKeepInvariant, PTL

\* The endpoints that verify a registration and reset a password do so only for who has the code: the account
\* is made with the password that was submitted with the code, and no password is reset but of a mail that a token
\* was sent to.
THEOREM CodesProveTheMail == AccountsSpec => []MailedCodesProve
  <1>1. AccountInv => MailedCodesProve
    BY CodesProve
  <1> QED BY <1>1, AccountsKeepInvariant, PTL

=============================================================================
