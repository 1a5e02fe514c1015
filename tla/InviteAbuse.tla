---------------------------- MODULE InviteAbuse ----------------------------
(***************************************************************************)
(* Bans for guessing invite codes (the second half of FRateLimiter): the   *)
(* failed attempts of an address within a rolling window, and a ban when   *)
(* there are too many.  Time is in seconds and each operation is one       *)
(* critical section.  An address without a record has no attempts and no   *)
(* ban here.                                                               *)
(***************************************************************************)
EXTENDS Integers, FiniteSets

CONSTANTS Addresses,
          InviteAbuseMaxAttempts, InviteAbuseWindowSeconds, InviteAbuseBanDurationSeconds,
          MaxTime \* bound: when the clock stops

ASSUME AbuseAssumption ==
    /\ {InviteAbuseMaxAttempts, InviteAbuseWindowSeconds, InviteAbuseBanDurationSeconds} \subseteq Nat \ {0}
    /\ MaxTime \in Nat

VARIABLES
    now,
    FailedAttempts, \* address -> attempts
    BanUntil,       \* address -> time, or 0
    failures,       \* history: address -> the attempts since the last success
    forgot          \* history: addresses whose record went with attempts not yet out of the window

abuseVars == <<now, FailedAttempts, BanUntil, failures, forgot>>

AbuseInit ==
    /\ now = 1
    /\ FailedAttempts = [a \in Addresses |-> {}]
    /\ BanUntil = [a \in Addresses |-> 0]
    /\ failures = [a \in Addresses |-> {}]
    /\ forgot = {}

Tick == now < MaxTime /\ now' = now + 1 /\ UNCHANGED <<FailedAttempts, BanUntil, failures, forgot>>

\* A failed attempt is its number, which keeps two of one second apart, and its time.
Attempt(a) == [number |-> Cardinality(failures[a]) + 1, at |-> now]

\* Mutant: a failure leaves the window a second early.
PurgeOldInviteAttempts_Early(attempts, t) == {x \in attempts : x.at > t - InviteAbuseWindowSeconds}

PurgeOldInviteAttempts(attempts, t) == {x \in attempts : x.at >= t - InviteAbuseWindowSeconds}

IsInviteAbuseBanned(a) == BanUntil[a] > now

\* A ban is set anew by what fails during it.
AddInviteAbuseAttempt(a) ==
    LET kept == PurgeOldInviteAttempts(FailedAttempts[a] \cup {Attempt(a)}, now) IN
    /\ FailedAttempts' = [FailedAttempts EXCEPT ![a] = kept]
    /\ BanUntil' = [BanUntil EXCEPT ![a] =
           IF Cardinality(kept) >= InviteAbuseMaxAttempts THEN now + InviteAbuseBanDurationSeconds ELSE @]
    /\ failures' = [failures EXCEPT ![a] = @ \cup {Attempt(a)}]
    /\ UNCHANGED <<now, forgot>>

ClearInviteAbuseForIp(a) ==
    /\ FailedAttempts' = [FailedAttempts EXCEPT ![a] = {}]
    /\ BanUntil' = [BanUntil EXCEPT ![a] = 0]
    /\ failures' = [failures EXCEPT ![a] = {}]
    /\ forgot' = forgot \ {a}
    /\ UNCHANGED now

\* Every 300 ticks of the engine.
PeriodicInviteAbuseCleanup ==
    LET expired == {a \in Addresses : BanUntil[a] > 0 /\ BanUntil[a] <= now}
        Kept(a) == PurgeOldInviteAttempts(FailedAttempts[a], now)
    IN
    /\ FailedAttempts' = [a \in Addresses |-> IF a \in expired THEN {} ELSE Kept(a)]
    /\ BanUntil' = [a \in Addresses |-> IF a \in expired THEN 0 ELSE BanUntil[a]]
    /\ forgot' = forgot \cup {a \in expired : Kept(a) # {}}
    /\ UNCHANGED <<now, failures>>

(***************************************************************************)
(* Properties.                                                             *)
(***************************************************************************)
Attempts == [number : Nat \ {0}, at : Nat]

AbuseTypeOK ==
    /\ now \in Nat
    /\ FailedAttempts \in [Addresses -> SUBSET Attempts]
    /\ BanUntil \in [Addresses -> Nat]
    /\ failures \in [Addresses -> SUBSET Attempts]
    /\ forgot \subseteq Addresses

\* The last failure was one too many within the window before it, and its ban is not over.
BanDue(a) ==
    \E last \in failures[a] :
        /\ \A x \in failures[a] : x.at <= last.at
        /\ Cardinality({x \in failures[a] : x.at >= last.at - InviteAbuseWindowSeconds}) >= InviteAbuseMaxAttempts
        /\ now < last.at + InviteAbuseBanDurationSeconds

\* docs/servers_api.md:913 "too many failed attempts from the same IP within a rolling window
\* will result in a temporary ban": the ban holds to its end, through purges and cleanups,
\* until a join succeeds, unless the cleanup of an earlier ban took attempts with it.
FailuresBan == \A a \in Addresses \ forgot : BanDue(a) => IsInviteAbuseBanned(a)

\* The same of every address: the record of a ban that is over goes with the attempts made since.
FailuresAlwaysBan == \A a \in Addresses : BanDue(a) => IsInviteAbuseBanned(a)
=============================================================================
