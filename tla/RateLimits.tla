----------------------------- MODULE RateLimits -----------------------------
(***************************************************************************)
(* The counters of FRateLimiter: eight maps from an address, or a user id, *)
(* to the attempts made since the last reset.  A handler asks whether the  *)
(* key is blocked, does some work and adds an attempt; a worker thread     *)
(* empties the maps one after another when the clearing time has passed.   *)
(* Every limit is one number here; the settings give each its own.         *)
(***************************************************************************)
EXTENDS Calls

CONSTANTS Keys,            \* addresses and user ids
          AttemptsToBlock, \* the limit: a key is blocked beyond it
          LimitedCalls,    \* the calls of CountedBy that are made
          MaxAdded         \* bound: attempts of a key that need no check

ASSUME LimitsAssumption ==
    /\ IsFiniteSet(Threads)
    /\ {AttemptsToBlock, MaxAdded} \subseteq Nat
    /\ LimitedCalls \subseteq
           {"login", "upgrade", "resetPassword", "createServer", "request", "message", "createInvite",
            "joinInvite", "registerAccount"}

\* Which map counts a call.
CountedBy ==
    [login |-> "default", upgrade |-> "default", resetPassword |-> "passwordReset",
     createServer |-> "serverOperation", request |-> "unauthenticatedIP", message |-> "authenticatedUser",
     createInvite |-> "inviteCreate", joinInvite |-> "inviteUse", registerAccount |-> "registerAccount"]

ResetOrder == <<"default", "passwordReset", "serverOperation", "unauthenticatedIP",
                "authenticatedUser", "inviteCreate", "inviteUse", "registerAccount">>
Limits == {ResetOrder[i] : i \in 1..Len(ResetOrder)}

VARIABLES
    RateLimitMap, \* limit -> key -> AttemptCount, 0 when the key is not in the map
    resetting,    \* how many maps of ResetOrder the worker has emptied, in a reset
    key,          \* per thread: the key of its call
    counted       \* history: attempts since the limit's last reset

limitVars == <<RateLimitMap, resetting, key, counted>>

NoAttempts == [l \in Limits |-> [k \in Keys |-> 0]]

LimitsInit ==
    /\ pc = Idle
    /\ RateLimitMap = NoAttempts
    /\ resetting = 0
    /\ key \in [Threads -> Keys]
    /\ counted = NoAttempts

LimitOf(th) == CountedBy[Op(th)]

AddAttempt == <<"findKey", "insertKey">>
CheckThenCount == <<"isBlocked", "findKey", "insertKey">>

LimitedSteps(op) ==
    CASE op = "login" -> <<"isBlocked", "attempt", "findKey", "insertKey">>
      [] op = "upgrade" -> AddAttempt
      [] OTHER -> CheckThenCount

Limited(th, op, k, steps) ==
    /\ Enter(th, steps, op)
    /\ key' = [key EXCEPT ![th] = k]
    /\ UNCHANGED <<RateLimitMap, resetting, counted>>

\* An upgrade of a socket that is refused counts without a check.
LimitedCall(th) ==
    \E op \in LimitedCalls, k \in Keys :
        /\ op = "upgrade" => RateLimitMap["default"][k] < MaxAdded
        /\ Limited(th, op, k, LimitedSteps(op))

\* Mutant: one attempt more.
IsBlockedKey_OneMore(th) ==
    /\ AtStep(th, "isBlocked")
    /\ AdvanceIf(th, RateLimitMap[LimitOf(th)][key[th]] <= AttemptsToBlock + 1)
    /\ UNCHANGED limitVars

IsBlockedKey(th) ==
    /\ AtStep(th, "isBlocked")
    /\ AdvanceIf(th, RateLimitMap[LimitOf(th)][key[th]] <= AttemptsToBlock)
    /\ UNCHANGED limitVars

\* What succeeds is not counted.
AttemptFails(th) ==
    /\ AtStep(th, "attempt")
    /\ \E failed \in BOOLEAN : AdvanceIf(th, failed)
    /\ UNCHANGED limitVars

Record(th, count) ==
    /\ RateLimitMap' = [RateLimitMap EXCEPT ![LimitOf(th)][key[th]] = count]
    /\ counted' = [counted EXCEPT ![LimitOf(th)][key[th]] = @ + 1]
    /\ UNCHANGED <<resetting, key>>

\* Under the shared lock: the attempt is added when the key is there.
FindKey(th) ==
    /\ AtStep(th, "findKey")
    /\ IF RateLimitMap[LimitOf(th)][key[th]] > 0
       THEN /\ Record(th, RateLimitMap[LimitOf(th)][key[th]] + 1)
            /\ pc' = [pc EXCEPT ![th] = Tail(Tail(@))]
       ELSE Advance(th) /\ UNCHANGED limitVars

\* Mutant: the key is not looked for again.
InsertKey_Overwrites(th) ==
    /\ AtStep(th, "insertKey")
    /\ Record(th, 1)
    /\ Advance(th)

\* Under the exclusive lock, looked for again: a new key has made one attempt.
InsertKey(th) ==
    /\ AtStep(th, "insertKey")
    /\ Record(th, RateLimitMap[LimitOf(th)][key[th]] + 1)
    /\ Advance(th)

LimitReply(th) ==
    /\ Busy(th) /\ Head(pc[th]) \in LimitedCalls
    /\ Finish(th)
    /\ UNCHANGED limitVars

\* The worker, once the clearing time has passed.
ResetRateLimits ==
    LET l == ResetOrder[resetting + 1] IN
    /\ RateLimitMap' = [RateLimitMap EXCEPT ![l] = [k \in Keys |-> 0]]
    /\ counted' = [counted EXCEPT ![l] = [k \in Keys |-> 0]]
    /\ resetting' = (resetting + 1) % Len(ResetOrder)
    /\ UNCHANGED <<pc, key>>

\* The backend starts anew.
LimitsRestart ==
    /\ RateLimitMap' = NoAttempts
    /\ counted' = NoAttempts
    /\ resetting' = 0

CountingStep(th) == IsBlockedKey(th) \/ FindKey(th) \/ InsertKey(th)
LimitStep(th) == CountingStep(th) \/ AttemptFails(th) \/ LimitReply(th)

LimitsNext == \/ \E th \in Threads : LimitStep(th) \/ LimitedCall(th)
              \/ ResetRateLimits
              \/ LimitsRestart /\ pc' = Idle /\ UNCHANGED key

LimitsSpec == LimitsInit /\ [][LimitsNext]_<<pc, limitVars>>

(***************************************************************************)
(* Properties.                                                             *)
(***************************************************************************)
LimitsTypeOK ==
    /\ RateLimitMap \in [Limits -> [Keys -> Nat]]
    /\ counted \in [Limits -> [Keys -> Nat]]
    /\ resetting \in 0..Len(ResetOrder) - 1
    /\ key \in [Threads -> Keys]

\* RateLimiter.cpp:37 "another thread may have inserted the key between the two lock
\* acquisitions": no attempt is lost and none is counted twice, whatever threads add at
\* once and whenever the maps are emptied.
NoAttemptLost == RateLimitMap = counted

\* A check and its count are two steps, and a key is blocked only beyond its limit: what a key
\* is let do between two resets still has a bound, the limit and one for each thread.
PassedBetweenResets ==
    \A l \in Limits \ {"default"}, k \in Keys : counted[l][k] <= AttemptsToBlock + Cardinality(Threads)

\* docs/servers_api.md:912 "max 30 invite use attempts per IP per hour".
HourlyLimit == \A k \in Keys : counted["inviteUse"][k] <= AttemptsToBlock
=============================================================================
