------------------------ MODULE ServerInvitesProofs ------------------------
(***************************************************************************)
(* Proofs about RateLimits, and about ServerInvites and InviteAbuse, which *)
(* use it, for every finite set of threads, every set of users, servers,   *)
(* addresses and keys, any number of invites, and every limit, window and  *)
(* length of a ban.  The first part is about the rate limits alone.  The   *)
(* last is about ServerMessages, for every finite set of threads, any      *)
(* number of messages, every page size and every number the trim retains.  *)
(***************************************************************************)
EXTENDS ServerInvites, ServerMessages, FiniteSetTheorems, SequenceTheorems, TLAPS

LEMMA LimitConstants == AttemptsToBlock \in Nat /\ MaxAdded \in Nat /\ IsFiniteSet(Threads)
  BY LimitsAssumption

\* Every map a call is counted in is one of the eight.
LEMMA LimitNames ==
  /\ Limits = {"default", "passwordReset", "serverOperation", "unauthenticatedIP",
               "authenticatedUser", "inviteCreate", "inviteUse", "registerAccount"}
  /\ \A i \in 0..Len(ResetOrder) - 1 : ResetOrder[i + 1] \in Limits
  BY DEF ResetOrder, Limits

LEMMA CallsCounted ==
  ASSUME NEW op \in LimitedCalls
  PROVE  /\ CountedBy[op] \in Limits
         /\ op \in {"login", "upgrade"} => CountedBy[op] = "default"
         /\ op \notin {"isBlocked", "attempt", "findKey", "insertKey"}
  BY LimitNames, LimitsAssumption DEF CountedBy

(***************************************************************************)
(* What a thread has still to do.  Only a login checks before its attempt, *)
(* and only an upgrade counts without a check.                             *)
(***************************************************************************)
Shapes(op) ==
    {<<op>>, <<"insertKey", op>>, <<"findKey", "insertKey", op>>,
     <<"isBlocked", "findKey", "insertKey", op>>}
LoginShapes ==
    {<<"attempt", "findKey", "insertKey", "login">>, <<"isBlocked", "attempt", "findKey", "insertKey", "login">>}

Shaped(s) ==
    \/ s = <<>>
    \/ s \in LoginShapes /\ "login" \in LimitedCalls
    \/ \E op \in LimitedCalls : s \in Shapes(op)

LEMMA AppendToTwo == ASSUME NEW a, NEW b, NEW e PROVE Append(<<a, b>>, e) = <<a, b, e>>
  <1> DEFINE S == {a, b, e}
             s == <<a, b>>
             u == <<a, b, e>>
  <1>1. s \in Seq(S) /\ u \in Seq(S) /\ e \in S /\ Len(u) = Len(s) + 1
    OBVIOUS
  <1>2. (\A i \in 1..Len(s) : u[i] = s[i]) /\ u[Len(u)] = e
    OBVIOUS
  <1> HIDE DEF s, u, S
  <1>3. Append(s, e) \in Seq(S) /\ Len(Append(s, e)) = Len(u)
    BY <1>1
  <1>4. \A i \in 1..Len(u) : Append(s, e)[i] = u[i]
    BY <1>1, <1>2
  <1>5. Append(s, e) = u
    BY <1>1, <1>3, <1>4, SeqEqual
  <1> QED BY <1>5 DEF s, u

LEMMA AppendToThree == ASSUME NEW a, NEW b, NEW c, NEW e PROVE Append(<<a, b, c>>, e) = <<a, b, c, e>>
  <1> DEFINE S == {a, b, c, e}
             s == <<a, b, c>>
             u == <<a, b, c, e>>
  <1>1. s \in Seq(S) /\ u \in Seq(S) /\ e \in S /\ Len(u) = Len(s) + 1
    OBVIOUS
  <1>2. (\A i \in 1..Len(s) : u[i] = s[i]) /\ u[Len(u)] = e
    OBVIOUS
  <1> HIDE DEF s, u, S
  <1>3. Append(s, e) \in Seq(S) /\ Len(Append(s, e)) = Len(u)
    BY <1>1
  <1>4. \A i \in 1..Len(u) : Append(s, e)[i] = u[i]
    BY <1>1, <1>2
  <1>5. Append(s, e) = u
    BY <1>1, <1>3, <1>4, SeqEqual
  <1> QED BY <1>5 DEF s, u

LEMMA AppendToFour == ASSUME NEW a, NEW b, NEW c, NEW d, NEW e PROVE Append(<<a, b, c, d>>, e) = <<a, b, c, d, e>>
  <1> DEFINE S == {a, b, c, d, e}
             s == <<a, b, c, d>>
             u == <<a, b, c, d, e>>
  <1>1. s \in Seq(S) /\ u \in Seq(S) /\ e \in S /\ Len(u) = Len(s) + 1
    OBVIOUS
  <1>2. (\A i \in 1..Len(s) : u[i] = s[i]) /\ u[Len(u)] = e
    OBVIOUS
  <1> HIDE DEF s, u, S
  <1>3. Append(s, e) \in Seq(S) /\ Len(Append(s, e)) = Len(u)
    BY <1>1
  <1>4. \A i \in 1..Len(u) : Append(s, e)[i] = u[i]
    BY <1>1, <1>2
  <1>5. Append(s, e) = u
    BY <1>1, <1>3, <1>4, SeqEqual
  <1> QED BY <1>5 DEF s, u

\* The steps of a call.
LEMMA ShapeBegins ==
  ASSUME NEW op \in LimitedCalls
  PROVE  \/ op = "login" /\ Append(LimitedSteps(op), op) = <<"isBlocked", "attempt", "findKey", "insertKey", "login">>
         \/ op = "upgrade" /\ Append(LimitedSteps(op), op) = <<"findKey", "insertKey", op>>
         \/ Append(LimitedSteps(op), op) = <<"isBlocked", "findKey", "insertKey", op>>
  BY AppendToFour, AppendToTwo, AppendToThree DEF LimitedSteps, AddAttempt, CheckThenCount

\* The call a thread is in.
Caller(s) == s[Len(s)]

GoesOn(s) ==
    /\ Caller(s) \in LimitedCalls
    /\ Shaped(<<Caller(s)>>) /\ Head(<<Caller(s)>>) = Caller(s) /\ Caller(<<Caller(s)>>) = Caller(s)
    /\ Head(s) = "isBlocked" =>
           /\ Shaped(Tail(s)) /\ Caller(Tail(s)) = Caller(s)
           /\ Head(Tail(s)) \in {"attempt", "findKey"}
    /\ Head(s) = "attempt" =>
           /\ Caller(s) = "login"
           /\ Shaped(Tail(s)) /\ Caller(Tail(s)) = Caller(s) /\ Head(Tail(s)) = "findKey"
    /\ Head(s) = "findKey" =>
           /\ Shaped(Tail(s)) /\ Caller(Tail(s)) = Caller(s) /\ Head(Tail(s)) = "insertKey"
           /\ Tail(Tail(s)) = <<Caller(s)>>
    /\ Head(s) = "insertKey" => Tail(s) = <<Caller(s)>>

LEMMA ShapeGoesOn == ASSUME NEW s, Shaped(s), s # <<>> PROVE GoesOn(s)
  <1>1. ASSUME NEW op \in LimitedCalls PROVE Shaped(<<op>>) /\ Shaped(<<"insertKey", op>>) /\ Shaped(<<"findKey", "insertKey", op>>)
    BY DEF Shaped, Shapes
  <1>2. CASE s = <<"attempt", "findKey", "insertKey", "login">> /\ "login" \in LimitedCalls
    <2>1. s[Len(s)] = "login" /\ Head(s) = "attempt" /\ Tail(s) = <<"findKey", "insertKey", "login">>
      BY <1>2
    <2>2. Caller(s) = "login"
      BY <2>1 DEF Caller
    <2>3. Shaped(Tail(s)) /\ Caller(Tail(s)) = "login" /\ Head(Tail(s)) = "findKey"
      <3>1. <<"findKey", "insertKey", "login">>[3] = "login" /\ Len(<<"findKey", "insertKey", "login">>) = 3
        OBVIOUS
      <3>2. Head(<<"findKey", "insertKey", "login">>) = "findKey"
        OBVIOUS
      <3>3. Caller(Tail(s)) = "login"
        BY <2>1, <3>1, Zenon DEF Caller
      <3>4. Head(Tail(s)) = "findKey"
        BY <2>1, <3>2, Zenon
      <3>5. Shaped(Tail(s))
        BY <1>1, <1>2, <2>1, Zenon
      <3> QED BY <3>3, <3>4, <3>5
    <2>4. Head(<<"login">>) = "login" /\ Caller(<<"login">>) = "login"
      BY DEF Caller
    <2> QED BY <1>1, <1>2, <2>1, <2>2, <2>3, <2>4 DEF GoesOn
  <1>3. CASE s = <<"isBlocked", "attempt", "findKey", "insertKey", "login">> /\ "login" \in LimitedCalls
    <2>1. s[Len(s)] = "login" /\ Head(s) = "isBlocked" /\ Tail(s) = <<"attempt", "findKey", "insertKey", "login">>
      BY <1>3
    <2>2. Caller(s) = "login"
      BY <2>1 DEF Caller
    <2>3. Shaped(Tail(s)) /\ Caller(Tail(s)) = "login" /\ Head(Tail(s)) = "attempt"
      BY <1>3, <2>1 DEF Shaped, LoginShapes, Caller
    <2>4. Head(<<"login">>) = "login" /\ Caller(<<"login">>) = "login"
      BY DEF Caller
    <2> QED BY <1>1, <1>3, <2>1, <2>2, <2>3, <2>4 DEF GoesOn
  <1>4. ASSUME NEW op \in LimitedCalls, s \in Shapes(op) PROVE GoesOn(s)
    <2>0. op \notin {"isBlocked", "attempt", "findKey", "insertKey"}
      BY CallsCounted
    <2>5. Head(<<op>>) = op /\ Caller(<<op>>) = op
      BY DEF Caller
    <2>1. CASE s = <<op>>
      BY <1>1, <2>0, <2>1, <2>5 DEF Caller, GoesOn
    <2>2. CASE s = <<"insertKey", op>>
      <3>1. s[Len(s)] = op /\ Head(s) = "insertKey"
        BY <2>2
      <3>2. Tail(s) = <<op>>
        BY <2>2
      <3>3. Caller(s) = op /\ Caller(Tail(s)) = op
        BY <3>1, <3>2 DEF Caller
      <3>4. Head(<<op>>) = op
        OBVIOUS
      <3>5. Head(Tail(s)) = op
        BY <3>2, <3>4, Zenon
      <3> QED BY <1>1, <2>5, <2>0, <3>1, <3>2, <3>3, <3>5 DEF GoesOn
    <2>3. CASE s = <<"findKey", "insertKey", op>>
      BY <1>1, <2>0, <2>3, <2>5 DEF Caller, GoesOn
    <2>4. CASE s = <<"isBlocked", "findKey", "insertKey", op>>
      <3>1. s[Len(s)] = op /\ Head(s) = "isBlocked"
        BY <2>4
      <3>2. Tail(s) = <<"findKey", "insertKey", op>>
        BY <2>4
      <3>3. Caller(s) = op /\ Caller(Tail(s)) = op
        BY <3>1, <3>2 DEF Caller
      <3>4. Head(<<"findKey", "insertKey", op>>) = "findKey"
        OBVIOUS
      <3>5. Head(Tail(s)) = "findKey"
        BY <3>2, <3>4, Zenon
      <3> QED BY <1>1, <2>5, <2>0, <3>1, <3>2, <3>3, <3>5 DEF GoesOn
    <2> QED BY <1>4, <2>1, <2>2, <2>3, <2>4 DEF Shapes
  <1> QED BY <1>2, <1>3, <1>4 DEF Shaped, LoginShapes

(***************************************************************************)
(* No attempt is lost: both maps change together.                          *)
(***************************************************************************)
\* RateLimiter.cpp:37: no attempt is lost and none is counted twice, for every number of threads,
\* every set of keys and whatever a limit is.
THEOREM NoAttemptIsLost == LimitsSpec => []NoAttemptLost
<1>1. LimitsInit => NoAttemptLost
  BY DEF LimitsInit, NoAttemptLost
<1>2. NoAttemptLost /\ [LimitsNext]_<<pc, limitVars>> => NoAttemptLost'
  <2> SUFFICES ASSUME NoAttemptLost, [LimitsNext]_<<pc, limitVars>> PROVE NoAttemptLost'
    OBVIOUS
  <2>1. ASSUME NEW th \in Threads, LimitStep(th) PROVE NoAttemptLost'
    BY <2>1 DEF IsBlockedKey, AttemptFails, LimitReply, limitVars, NoAttemptLost, FindKey, Record,
       InsertKey, LimitStep, CountingStep
  <2>2. ASSUME NEW th \in Threads, LimitedCall(th) PROVE NoAttemptLost'
    BY <2>2 DEF LimitedCall, Limited, NoAttemptLost
  <2>3. CASE ResetRateLimits
    BY <2>3 DEF ResetRateLimits, NoAttemptLost
  <2>4. CASE LimitsRestart
    BY <2>4 DEF LimitsRestart, NoAttemptLost
  <2>5. CASE UNCHANGED <<pc, limitVars>>
    BY <2>5 DEF limitVars, NoAttemptLost
  <2> QED BY <2>1, <2>2, <2>3, <2>4, <2>5 DEF LimitsNext
<1> QED BY <1>1, <1>2, PTL DEF LimitsSpec

(***************************************************************************)
(* Types, and the calls threads are in.                                    *)
(***************************************************************************)
CallsOK == pc = [th \in Threads |-> pc[th]] /\ \A th \in Threads : Shaped(pc[th])
TypedCalls == LimitsTypeOK /\ CallsOK

\* A step of one thread leaves the others where they are.
LEMMA OneThreadSteps ==
  ASSUME CallsOK, NEW th \in Threads, NEW s, Shaped(s), pc' = [pc EXCEPT ![th] = s]
  PROVE  CallsOK' /\ pc'[th] = s /\ \A o \in Threads \ {th} : pc'[o] = pc[o]
  BY DEF CallsOK

\* What a thread that is at a step may do next.
LEMMA AtStepGoesOn ==
  ASSUME CallsOK, NEW th \in Threads, NEW step, AtStep(th, step)
  PROVE  GoesOn(pc[th]) /\ Head(pc[th]) = step /\ Caller(pc[th]) = Op(th)
  BY ShapeGoesOn DEF CallsOK, AtStep, Busy, Op, Caller

\* The map a call is counted in, and the others.
LEMMA Recorded ==
  ASSUME LimitsTypeOK, NEW l \in Limits, NEW k \in Keys, NEW n \in Nat,
         RateLimitMap' = [RateLimitMap EXCEPT ![l][k] = n],
         counted' = [counted EXCEPT ![l][k] = @ + 1]
  PROVE  /\ RateLimitMap' \in [Limits -> [Keys -> Nat]] /\ counted' \in [Limits -> [Keys -> Nat]]
         /\ counted'[l][k] = counted[l][k] + 1
         /\ \A m \in Limits, j \in Keys : m # l \/ j # k => counted'[m][j] = counted[m][j]
  BY DEF LimitsTypeOK

LEMMA LimitOfStep ==
  ASSUME CallsOK, NEW th \in Threads, NEW step, AtStep(th, step)
  PROVE  LimitOf(th) \in Limits
  BY AtStepGoesOn, CallsCounted DEF GoesOn, LimitOf

LEMMA StartTyped == LimitsInit => TypedCalls
  BY DEF NoAttempts, ResetOrder, LimitsInit, Idle, CallsOK, Shaped, LimitsTypeOK, TypedCalls

LEMMA BlockedTyped == ASSUME TypedCalls, NEW th \in Threads, IsBlockedKey(th) PROVE TypedCalls'
  BY AtStepGoesOn, OneThreadSteps DEF TypedCalls, IsBlockedKey, GoesOn, AdvanceIf, Advance, Return,
     LimitsTypeOK, limitVars

LEMMA AttemptTyped == ASSUME TypedCalls, NEW th \in Threads, AttemptFails(th) PROVE TypedCalls'
  BY AtStepGoesOn, OneThreadSteps DEF TypedCalls, AttemptFails, GoesOn, AdvanceIf, Advance, Return,
     LimitsTypeOK, limitVars

LEMMA FindTyped == ASSUME TypedCalls, NEW th \in Threads, FindKey(th) PROVE TypedCalls'
  <1>1. Shaped(Tail(pc[th])) /\ Shaped(Tail(Tail(pc[th])))
    BY AtStepGoesOn DEF TypedCalls, FindKey, GoesOn
  <1>2. CASE RateLimitMap[LimitOf(th)][key[th]] > 0
    <2>1. CallsOK'
      BY <1>1, <1>2, OneThreadSteps DEF TypedCalls, FindKey
    <2>2. LimitsTypeOK'
      <3>1. LimitOf(th) \in Limits /\ key[th] \in Keys
        BY LimitOfStep DEF TypedCalls, FindKey, LimitsTypeOK
      <3>2. RateLimitMap[LimitOf(th)][key[th]] + 1 \in Nat
        BY <3>1 DEF TypedCalls, LimitsTypeOK
      <3>3. Record(th, RateLimitMap[LimitOf(th)][key[th]] + 1)
        BY <1>2 DEF FindKey
      <3> QED BY <3>1, <3>2, <3>3, Recorded DEF TypedCalls, Record, LimitsTypeOK
    <2> QED BY <2>1, <2>2 DEF TypedCalls
  <1>3. CASE ~(RateLimitMap[LimitOf(th)][key[th]] > 0)
    BY <1>1, <1>3, OneThreadSteps DEF TypedCalls, FindKey, Advance, LimitsTypeOK, limitVars
  <1> QED BY <1>2, <1>3

LEMMA InsertTyped == ASSUME TypedCalls, NEW th \in Threads, InsertKey(th) PROVE TypedCalls'
  <1>1. Shaped(Tail(pc[th]))
    BY AtStepGoesOn DEF TypedCalls, InsertKey, GoesOn
  <1>2. CallsOK'
    BY <1>1, OneThreadSteps DEF TypedCalls, InsertKey, Advance
  <1>3. LimitsTypeOK'
    BY LimitOfStep, Recorded DEF TypedCalls, InsertKey, Record, LimitsTypeOK
  <1> QED BY <1>2, <1>3 DEF TypedCalls

LEMMA ReplyTyped == ASSUME TypedCalls, NEW th \in Threads, LimitReply(th) PROVE TypedCalls'
  BY OneThreadSteps DEF TypedCalls, LimitReply, Finish, Shaped, LimitsTypeOK, limitVars

LEMMA CallTyped == ASSUME TypedCalls, NEW th \in Threads, LimitedCall(th) PROVE TypedCalls'
  <1>1. PICK op \in LimitedCalls, k \in Keys : Limited(th, op, k, LimitedSteps(op))
    BY DEF LimitedCall
  <1>2. Shaped(Append(LimitedSteps(op), op))
    BY ShapeBegins DEF Shaped, Shapes, LoginShapes
  <1>3. CallsOK'
    BY <1>1, <1>2, OneThreadSteps DEF TypedCalls, Limited, Enter
  <1> QED BY <1>1, <1>3 DEF TypedCalls, LimitsTypeOK, Limited

LEMMA ResetTyped == ASSUME TypedCalls, ResetRateLimits \/ (LimitsRestart /\ pc' = Idle /\ UNCHANGED key) PROVE TypedCalls'
  <1>1. Len(ResetOrder) = 8
    BY DEF ResetOrder
  <1>2. CASE ResetRateLimits
    <2>1. CallsOK'
      BY <1>2 DEF TypedCalls, CallsOK, ResetRateLimits
    <2>2. resetting' \in 0..Len(ResetOrder) - 1
      BY <1>1, <1>2 DEF TypedCalls, LimitsTypeOK, ResetRateLimits
    <2>3. RateLimitMap' \in [Limits -> [Keys -> Nat]] /\ counted' \in [Limits -> [Keys -> Nat]]
      BY <1>2 DEF TypedCalls, LimitsTypeOK, ResetRateLimits
    <2> QED BY <1>2, <2>1, <2>2, <2>3 DEF TypedCalls, LimitsTypeOK, ResetRateLimits
  <1>3. CASE LimitsRestart /\ pc' = Idle /\ UNCHANGED key
    BY <1>1, <1>3 DEF TypedCalls, LimitsTypeOK, CallsOK, Shaped, LimitsRestart, NoAttempts, Idle
  <1> QED BY <1>2, <1>3

LEMMA NextTyped == TypedCalls /\ [LimitsNext]_<<pc, limitVars>> => TypedCalls'
  BY BlockedTyped, AttemptTyped, FindTyped, InsertTyped, ReplyTyped, CallTyped, ResetTyped DEF
     limitVars, TypedCalls, LimitsTypeOK, CallsOK, LimitsNext, LimitStep, CountingStep

(***************************************************************************)
(* The bound.  Who has passed the check of a map and a key and has not     *)
(* counted yet takes one of the places beyond the limit.                   *)
(***************************************************************************)
Passed(l, k) ==
    {th \in Threads : (AtStep(th, "findKey") \/ AtStep(th, "insertKey")) /\ LimitOf(th) = l /\ key[th] = k}

PlacesLeft ==
    \A l \in Limits \ {"default"}, k \in Keys :
        counted[l][k] + Cardinality(Passed(l, k)) <= AttemptsToBlock + Cardinality(Threads)

LEMMA PassedFinite ==
  /\ Cardinality(Threads) \in Nat
  /\ \A l, k : /\ IsFiniteSet(Passed(l, k)) /\ Cardinality(Passed(l, k)) \in Nat
               /\ Cardinality(Passed(l, k)) <= Cardinality(Threads)
  BY LimitConstants, FS_Subset, FS_CardinalityType DEF Passed

\* What a step does to a map, a key and those who have passed its check: few have been counted,
\* or nobody more, or one who had passed.
Effect(l, k) ==
    \/ counted'[l][k] <= AttemptsToBlock
    \/ counted'[l][k] = counted[l][k] /\ Passed(l, k)' \subseteq Passed(l, k)
    \/ counted'[l][k] = counted[l][k] + 1 /\ \E th \in Passed(l, k) : Passed(l, k)' \subseteq Passed(l, k) \ {th}

LEMMA EffectKeepsPlaces ==
  ASSUME TypedCalls, TypedCalls', PlacesLeft, \A l \in Limits \ {"default"}, k \in Keys : Effect(l, k)
  PROVE  PlacesLeft'
  <1> SUFFICES ASSUME NEW l \in Limits \ {"default"}, NEW k \in Keys
               PROVE  counted'[l][k] + Cardinality(Passed(l, k)') <= AttemptsToBlock + Cardinality(Threads)
    BY DEF PlacesLeft
  <1> DEFINE P == Passed(l, k)
             Q == Passed(l, k)'
             c == counted[l][k]
             d == counted'[l][k]
  <1>1. c \in Nat /\ d \in Nat
    BY DEF TypedCalls, LimitsTypeOK
  <1>2. IsFiniteSet(P) /\ Cardinality(P) \in Nat /\ Cardinality(Threads) \in Nat
    BY PassedFinite
  <1>3. Q \subseteq Threads
    BY DEF Passed
  <1>4. Cardinality(Q) \in Nat /\ Cardinality(Q) <= Cardinality(Threads)
    BY <1>3, LimitConstants, FS_Subset, FS_CardinalityType
  <1>5. c + Cardinality(P) <= AttemptsToBlock + Cardinality(Threads)
    BY DEF PlacesLeft
  <1>6. \/ d <= AttemptsToBlock
        \/ d = c /\ Q \subseteq P
        \/ d = c + 1 /\ \E th \in P : Q \subseteq P \ {th}
    BY DEF Effect
  <1> HIDE DEF P, Q, c, d
  <1>7. ASSUME d <= AttemptsToBlock
        PROVE  d + Cardinality(Q) <= AttemptsToBlock + Cardinality(Threads)
    BY <1>1, <1>2, <1>4, <1>7, LimitConstants
  <1>8. ASSUME d = c /\ Q \subseteq P
        PROVE  d + Cardinality(Q) <= AttemptsToBlock + Cardinality(Threads)
    BY <1>1, <1>2, <1>4, <1>5, <1>8, FS_Subset, LimitConstants
  <1>9. ASSUME d = c + 1 /\ \E th \in P : Q \subseteq P \ {th}
        PROVE  d + Cardinality(Q) <= AttemptsToBlock + Cardinality(Threads)
    <2>1. PICK th \in P : Q \subseteq P \ {th}
      BY <1>9
    <2>2. IsFiniteSet(P \ {th}) /\ Cardinality(P \ {th}) = Cardinality(P) - 1
      BY <1>2, FS_RemoveElement
    <2>3. Cardinality(Q) <= Cardinality(P) - 1
      BY <2>1, <2>2, FS_Subset
    <2> QED BY <1>1, <1>2, <1>4, <1>5, <1>9, <2>3, LimitConstants
  <1>10. d + Cardinality(Q) <= AttemptsToBlock + Cardinality(Threads)
    BY <1>6, <1>7, <1>8, <1>9
  <1> QED BY <1>10 DEF d, Q

\* Threads that stay where they are have passed, or not, as before.
LEMMA OthersPassed ==
  ASSUME NEW l, NEW k, NEW th \in Threads,
         \A o \in Threads \ {th} : pc'[o] = pc[o] /\ key'[o] = key[o]
  PROVE  Passed(l, k)' \subseteq Passed(l, k) \cup {th}
         /\ (th \notin Passed(l, k)' => Passed(l, k)' \subseteq Passed(l, k) \ {th})
  BY DEF Passed, AtStep, Busy, LimitOf, Op

LEMMA BlockedEffect ==
  ASSUME TypedCalls, NoAttemptLost, NEW th \in Threads, IsBlockedKey(th), NEW l \in Limits \ {"default"}, NEW k \in Keys
  PROVE  Effect(l, k)
  <1>1. GoesOn(pc[th]) /\ Head(pc[th]) = "isBlocked" /\ Caller(pc[th]) = Op(th) /\ Shaped(Tail(pc[th])) /\ Shaped(<<Op(th)>>)
    BY AtStepGoesOn DEF TypedCalls, IsBlockedKey, GoesOn
  <1>2. key' = key /\ counted' = counted
    BY DEF IsBlockedKey, limitVars
  <1>3. CASE RateLimitMap[LimitOf(th)][key[th]] <= AttemptsToBlock
    <2>1. pc'[th] = Tail(pc[th]) /\ \A o \in Threads \ {th} : pc'[o] = pc[o]
      BY <1>1, <1>3, OneThreadSteps DEF TypedCalls, IsBlockedKey, AdvanceIf, Advance
    <2>2. Op(th)' = Op(th)
      BY <1>1, <2>1 DEF GoesOn, Caller, Op
    <2>3. CASE LimitOf(th) = l /\ key[th] = k
      BY <1>2, <1>3, <2>3 DEF NoAttemptLost, Effect
    <2>4. CASE ~(LimitOf(th) = l /\ key[th] = k)
      BY <1>2, <2>1, <2>2, <2>4, OthersPassed DEF Passed, LimitOf, Effect
    <2> QED BY <2>3, <2>4
  <1>4. CASE ~(RateLimitMap[LimitOf(th)][key[th]] <= AttemptsToBlock)
    <2>1. pc'[th] = <<Op(th)>> /\ \A o \in Threads \ {th} : pc'[o] = pc[o]
      BY <1>1, <1>4, OneThreadSteps DEF TypedCalls, IsBlockedKey, AdvanceIf, Return
    <2>2. th \notin Passed(l, k)'
      BY <1>1, <2>1, CallsCounted DEF Passed, AtStep, GoesOn
    <2> QED BY <1>2, <2>1, <2>2, OthersPassed DEF Effect
  <1> QED BY <1>3, <1>4

LEMMA AttemptEffect ==
  ASSUME TypedCalls, NEW th \in Threads, AttemptFails(th), NEW l \in Limits \ {"default"}, NEW k \in Keys
  PROVE  Effect(l, k)
  <1>1. GoesOn(pc[th]) /\ Head(pc[th]) = "attempt" /\ Caller(pc[th]) = Op(th)
    BY AtStepGoesOn DEF TypedCalls, AttemptFails
  <1>2. Op(th) = "login" /\ Op(th) \in LimitedCalls /\ Caller(Tail(pc[th])) = Op(th) /\ Caller(<<Op(th)>>) = Op(th)
        /\ Shaped(Tail(pc[th])) /\ Shaped(<<Op(th)>>)
    BY <1>1 DEF GoesOn
  <1>3. counted' = counted /\ key' = key /\ \A o \in Threads \ {th} : pc'[o] = pc[o]
    BY <1>2, OneThreadSteps DEF TypedCalls, AttemptFails, AdvanceIf, Advance, Return, limitVars
  <1>4. pc'[th] \in {Tail(pc[th]), <<Op(th)>>}
    BY <1>2, OneThreadSteps DEF TypedCalls, AttemptFails, AdvanceIf, Advance, Return
  <1>5. Op(th)' = "login"
    BY <1>2, <1>4 DEF Op, Caller
  <1>6. LimitOf(th)' = "default"
    BY <1>2, <1>5, CallsCounted DEF LimitOf
  <1>7. th \notin Passed(l, k)'
    BY <1>6 DEF Passed
  <1> QED BY <1>3, <1>7, OthersPassed DEF Effect

\* A thread that has passed, and has counted.
LEMMA CountedEffect ==
  ASSUME TypedCalls, NEW th \in Threads, AtStep(th, "findKey") \/ AtStep(th, "insertKey"),
         counted' = [counted EXCEPT ![LimitOf(th)][key[th]] = @ + 1], key' = key,
         pc'[th] = <<Op(th)>>, \A o \in Threads \ {th} : pc'[o] = pc[o],
         NEW l \in Limits \ {"default"}, NEW k \in Keys
  PROVE  Effect(l, k)
  <1>1. Op(th) \in LimitedCalls /\ Head(<<Op(th)>>) = Op(th)
    BY AtStepGoesOn DEF TypedCalls, GoesOn
  <1>2. th \notin Passed(l, k)'
    BY <1>1, CallsCounted DEF Passed, AtStep
  <1>3. Passed(l, k)' \subseteq Passed(l, k) \ {th}
    BY <1>2, OthersPassed
  <1>4. CASE LimitOf(th) = l /\ key[th] = k
    BY <1>3, <1>4 DEF TypedCalls, LimitsTypeOK, Passed, Effect
  <1>5. CASE ~(LimitOf(th) = l /\ key[th] = k)
    BY <1>3, <1>5 DEF TypedCalls, LimitsTypeOK, Effect
  <1> QED BY <1>4, <1>5

LEMMA FindEffect ==
  ASSUME TypedCalls, NEW th \in Threads, FindKey(th), NEW l \in Limits \ {"default"}, NEW k \in Keys
  PROVE  Effect(l, k)
  <1>1. GoesOn(pc[th]) /\ Head(pc[th]) = "findKey" /\ Caller(pc[th]) = Op(th)
    BY AtStepGoesOn DEF TypedCalls, FindKey
  <1>2. /\ Shaped(Tail(pc[th])) /\ Caller(Tail(pc[th])) = Op(th) /\ Head(Tail(pc[th])) = "insertKey"
        /\ Tail(Tail(pc[th])) = <<Op(th)>> /\ Shaped(<<Op(th)>>)
    BY <1>1 DEF GoesOn
  <1>3. key' = key
    BY DEF FindKey, Record, limitVars
  <1>4. CASE RateLimitMap[LimitOf(th)][key[th]] > 0
    BY <1>2, <1>3, <1>4, OneThreadSteps, CountedEffect DEF TypedCalls, FindKey, Record
  <1>5. CASE ~(RateLimitMap[LimitOf(th)][key[th]] > 0)
    <2>1. pc'[th] = Tail(pc[th]) /\ \A o \in Threads \ {th} : pc'[o] = pc[o]
      BY <1>2, <1>5, OneThreadSteps DEF TypedCalls, FindKey, Advance
    <2>2. LimitOf(th)' = LimitOf(th)
      BY <1>2, <2>1 DEF LimitOf, Op, Caller
    <2>3. th \in Passed(l, k)' => th \in Passed(l, k)
      BY <1>3, <2>2 DEF Passed, FindKey
    <2>4. Passed(l, k)' \subseteq Passed(l, k)
      BY <1>3, <2>1, <2>3, OthersPassed
    <2> QED BY <1>5, <2>4 DEF FindKey, limitVars, Effect
  <1> QED BY <1>4, <1>5

LEMMA InsertEffect ==
  ASSUME TypedCalls, NEW th \in Threads, InsertKey(th), NEW l \in Limits \ {"default"}, NEW k \in Keys
  PROVE  Effect(l, k)
  <1>1. GoesOn(pc[th]) /\ Head(pc[th]) = "insertKey" /\ Caller(pc[th]) = Op(th)
    BY AtStepGoesOn DEF TypedCalls, InsertKey
  <1>2. Tail(pc[th]) = <<Op(th)>> /\ Shaped(<<Op(th)>>)
    BY <1>1 DEF GoesOn
  <1>3. pc'[th] = <<Op(th)>> /\ \A o \in Threads \ {th} : pc'[o] = pc[o]
    BY <1>2, OneThreadSteps DEF TypedCalls, InsertKey, Advance
  <1> QED BY <1>3, CountedEffect DEF InsertKey, Record

LEMMA CallEffect ==
  ASSUME TypedCalls, NEW th \in Threads, LimitedCall(th), NEW l \in Limits \ {"default"}, NEW k \in Keys
  PROVE  Effect(l, k)
  <1>1. PICK op \in LimitedCalls, j \in Keys : Limited(th, op, j, LimitedSteps(op))
    BY DEF LimitedCall
  <1> DEFINE steps == Append(LimitedSteps(op), op)
  <1>2. Shaped(steps)
    BY ShapeBegins DEF Shaped, Shapes, LoginShapes
  <1>3. pc'[th] = steps /\ (\A o \in Threads \ {th} : pc'[o] = pc[o]) /\ counted' = counted
    BY <1>1, <1>2, OneThreadSteps DEF TypedCalls, Limited, Enter
  <1>4. \A o \in Threads \ {th} : key'[o] = key[o]
    BY <1>1 DEF Limited, TypedCalls, LimitsTypeOK
  <1>5. th \notin Passed(l, k)'
    <2>1. CASE op = "upgrade" /\ steps = <<"findKey", "insertKey", op>>
      BY <1>3, <2>1, CallsCounted DEF Op, Passed, LimitOf
    <2>2. CASE steps = <<"isBlocked", "findKey", "insertKey", op>>
      BY <1>3, <2>2 DEF Passed, AtStep
    <2>3. CASE steps = <<"isBlocked", "attempt", "findKey", "insertKey", "login">>
      BY <1>3, <2>3 DEF Passed, AtStep
    <2> QED BY <2>1, <2>2, <2>3, ShapeBegins
  <1> QED BY <1>3, <1>4, <1>5, OthersPassed DEF Effect

LEMMA ReplyEffect ==
  ASSUME TypedCalls, NEW th \in Threads, LimitReply(th), NEW l \in Limits \ {"default"}, NEW k \in Keys
  PROVE  Effect(l, k)
  <1>1. pc'[th] = <<>> /\ (\A o \in Threads \ {th} : pc'[o] = pc[o])
    BY OneThreadSteps DEF TypedCalls, LimitReply, Finish, Shaped
  <1>2. th \notin Passed(l, k)'
    BY <1>1 DEF Passed, AtStep, Busy
  <1> QED BY <1>1, <1>2, OthersPassed DEF LimitReply, limitVars, Effect

LEMMA ResetEffect ==
  ASSUME TypedCalls, ResetRateLimits, NEW l \in Limits \ {"default"}, NEW k \in Keys
  PROVE  Effect(l, k)
  BY LimitConstants DEF ResetRateLimits, Passed, AtStep, Busy, LimitOf, Op, TypedCalls,
     LimitsTypeOK, Effect

LEMMA PlacesInvariant == LimitsSpec => [](TypedCalls /\ NoAttemptLost /\ PlacesLeft)
<1>1. LimitsInit => PlacesLeft
  BY PassedFinite, LimitConstants DEF PlacesLeft, LimitsInit, NoAttempts
<1>2. TypedCalls /\ TypedCalls' /\ NoAttemptLost /\ PlacesLeft /\ [LimitsNext]_<<pc, limitVars>> => PlacesLeft'
  <2> SUFFICES ASSUME TypedCalls, TypedCalls', NoAttemptLost, PlacesLeft, [LimitsNext]_<<pc, limitVars>>,
                      NEW l \in Limits \ {"default"}, NEW k \in Keys
               PROVE  Effect(l, k)
    BY EffectKeepsPlaces
  <2>1. CASE LimitsRestart
    BY <2>1, LimitConstants DEF LimitsRestart, NoAttempts, Effect
  <2>2. CASE UNCHANGED <<pc, limitVars>>
    BY <2>2 DEF limitVars, Passed, AtStep, Busy, LimitOf, Op, Effect
  <2> QED BY <2>1, <2>2, BlockedEffect, AttemptEffect, FindEffect, InsertEffect, CallEffect, ReplyEffect, ResetEffect
          DEF LimitsNext, LimitStep, CountingStep
<1> QED BY <1>1, <1>2, StartTyped, NextTyped, NoAttemptIsLost, PTL DEF LimitsSpec

\* docs/servers_api.md:912: whatever a key is let do between two resets, it is the limit and one for
\* each thread at most, for every limit and every finite number of threads.
THEOREM LimitNearlyKept == LimitsSpec => []PassedBetweenResets
<1>1. TypedCalls /\ PlacesLeft => PassedBetweenResets
  BY PassedFinite, LimitConstants DEF PassedBetweenResets, PlacesLeft, TypedCalls, LimitsTypeOK
<1> QED BY <1>1, PlacesInvariant, PTL

\* The types of the counters hold for every instance.
THEOREM LimitsTyped == LimitsSpec => []LimitsTypeOK
  BY PlacesInvariant, PTL DEF TypedCalls

(***************************************************************************)
(* The ways a call about invites may go, and what is left of one.  A join  *)
(* whose code is rejected goes on as "reject".                             *)
(***************************************************************************)
Ways == {"create", "join", "reject", "delete", "list"}

Route(w) ==
    CASE w = "create" -> Append(CheckThenCount \o CreateInvite, "createInvite")
      [] w = "join" -> Append(CheckThenCount \o JoinViaInvite, "joinInvite")
      [] w = "reject" -> <<"forgetCode">> \o Rejected
      [] w = "delete" -> Append(DeleteInvite, "deleteInvite")
      [] OTHER -> Append(ListInvites, "listInvites")

StepNames ==
    InviteOps \cup
    {"isBlocked", "findKey", "insertKey", "mayInvite", "countInvites", "uploadInvite", "cacheInvite", "isBanned",
     "lookUp", "consumeInvite", "addUser", "clearAbuse", "forgetCode", "addAbuse", "deleteRow", "uncacheInvite",
     "countListed", "selectListed"}

Ends(w) == Len(Route(w))
OpOf(w) == IF w = "reject" THEN "joinInvite" ELSE Route(w)[Ends(w)]

Rest(w, i) == SubSeq(Route(w), i, Ends(w))

(***************************************************************************)
(* The invariant, thread by thread.                                        *)
(***************************************************************************)
At(th, w, i) ==
    /\ w = "create" => ~jo[th].dead /\ jo[th].server \in Servers /\ (i = 7 => jo[th].code \in Codes)
    /\ w = "join" => /\ jo[th].user \in Users
                     /\ jo[th].dead => ~Usable(jo[th].code)
                     /\ i = 7 => ~jo[th].dead /\ jo[th].code \in Codes /\ jo[th].server \in Servers
    /\ w \in {"delete", "list"} => jo[th].server \in Servers
    /\ w = "delete" => jo[th].code \in Codes
    /\ w = "list" /\ i \in 1..3 => jo[th].page = <<>>
    /\ w = "list" /\ i = 3 /\ ~jo[th].stale => jo[th].total = Cardinality(InvitesOf(jo[th].server))
    /\ w = "list" /\ i = 4 /\ ~jo[th].stale =>
           /\ Len(jo[th].page) \in {0, jo[th].total}
           /\ \A k \in DOMAIN jo[th].page : server_invites[jo[th].page[k]].server = jo[th].server

ThreadOK(th) ==
    \/ pc[th] = <<>>
    \/ \E w \in Ways : \E i \in 1..Ends(w) : pc[th] = Rest(w, i) /\ At(th, w, i)

CallRecord ==
    [user : Users \cup {0}, server : Servers \cup {0}, code : Nat, dead : BOOLEAN, cached : BOOLEAN,
     stale : BOOLEAN, total : Nat, page : Seq(Nat)]

InviteRecord ==
    [server : Servers, max_uses : Nat, current_uses : Nat, expires_at : Nat, deleted : BOOLEAN]

TablesOK ==
    /\ server_invites \in Seq(InviteRecord)
    /\ admitted \in Seq(SUBSET Users) /\ Len(admitted) = Len(server_invites)
    /\ InviteCodeToServerId \subseteq Codes
    /\ members \subseteq Users \X Servers
    /\ miscounted \in BOOLEAN
    /\ invite_faults \in 0..MaxInviteFaults
    /\ pc \in [Threads -> Seq(StepNames)]
    /\ jo \in [Threads -> CallRecord]
    /\ \A th \in Threads : jo[th].code \in {0} \cup Codes /\ \A k \in DOMAIN jo[th].page : jo[th].page[k] \in Codes

\* Those whose code has been consumed and who are not admitted yet.
Consumers(c) == {th \in Threads : AtStep(th, "addUser") /\ jo[th].code = c}
UsesOK ==
    \A c \in Codes :
        /\ IsFiniteSet(admitted[c])
        /\ Cardinality(admitted[c]) + Cardinality(Consumers(c)) <= server_invites[c].current_uses
        /\ server_invites[c].current_uses <= server_invites[c].max_uses

\* Those who have found room for an invite.
Creators(s) == {th \in Threads : AtStep(th, "uploadInvite") /\ jo[th].server = s}
CapOK ==
    ~miscounted /\ MaxInvitesPerServer > 0 => \A s \in Servers :
        Cardinality(ActiveInvites(s)) + Cardinality(Creators(s)) <= MaxInvitesPerServer + Cardinality(Threads) - 1

\* The failures that are within the window are known, and the ban that is due is set.
Since(a, t) == {x \in failures[a] : x.at >= t - InviteAbuseWindowSeconds}
Remembered(a) == Since(a, now) \subseteq FailedAttempts[a]
BanSet(a) ==
    \A last \in failures[a] :
        /\ \A x \in failures[a] : x.at <= last.at
        /\ Cardinality(Since(a, last.at)) >= InviteAbuseMaxAttempts
        /\ now < last.at + InviteAbuseBanDurationSeconds
        => BanUntil[a] >= last.at + InviteAbuseBanDurationSeconds

AbuseInv ==
    /\ AbuseTypeOK
    /\ \A a \in Addresses :
           /\ IsFiniteSet(failures[a]) /\ FailedAttempts[a] \subseteq failures[a]
           /\ \A x \in failures[a] : x.at <= now /\ x.number <= Cardinality(failures[a])
           /\ a \notin forgot => Remembered(a) /\ BanSet(a)

InvitesInv ==
    /\ LimitsTypeOK /\ AbuseInv /\ TablesOK /\ UsesOK /\ CapOK
    /\ \A th \in Threads : ThreadOK(th)

(***************************************************************************)
(* The steps of each way.                                                  *)
(***************************************************************************)
LEMMA CreateRoute ==
  /\ Route("create") \in Seq(StepNames) /\ Ends("create") = 8
  /\ LET s == Route("create") IN
     /\ s[1] = "isBlocked" /\ s[2] = "findKey" /\ s[3] = "insertKey" /\ s[4] = "mayInvite"
     /\ s[5] = "countInvites" /\ s[6] = "uploadInvite" /\ s[7] = "cacheInvite" /\ s[8] = "createInvite"
  BY DEF Route, CheckThenCount, CreateInvite, StepNames, InviteOps, Ends

LEMMA JoinRoute ==
  /\ Route("join") \in Seq(StepNames) /\ Ends("join") = 9
  /\ LET s == Route("join") IN
     /\ s[1] = "isBlocked" /\ s[2] = "findKey" /\ s[3] = "insertKey" /\ s[4] = "isBanned" /\ s[5] = "lookUp"
     /\ s[6] = "consumeInvite" /\ s[7] = "addUser" /\ s[8] = "clearAbuse" /\ s[9] = "joinInvite"
  BY DEF Route, CheckThenCount, JoinViaInvite, StepNames, InviteOps, Ends

LEMMA RejectRoute ==
  /\ Route("reject") \in Seq(StepNames) /\ Ends("reject") = 3
  /\ LET s == Route("reject") IN s[1] = "forgetCode" /\ s[2] = "addAbuse" /\ s[3] = "joinInvite"
  /\ Rejected = Tail(Route("reject"))
  <1>1. Route("reject") \in Seq(StepNames)
    BY SMTT(30) DEF Route, Rejected, StepNames, InviteOps
  <1>2. Ends("reject") = 3
    BY SMTT(30) DEF Ends, Route, Rejected
  <1>3. LET s == Route("reject") IN s[1] = "forgetCode" /\ s[2] = "addAbuse" /\ s[3] = "joinInvite"
    BY SMTT(30) DEF Route, Rejected
  <1>4. Rejected \in Seq(StepNames) /\ Len(Rejected) = 2 /\ Rejected[1] = "addAbuse" /\ Rejected[2] = "joinInvite"
    BY DEF Rejected, StepNames, InviteOps
  <1>5. /\ Tail(Route("reject")) \in Seq(StepNames) /\ Len(Tail(Route("reject"))) = 2
        /\ Tail(Route("reject"))[1] = "addAbuse" /\ Tail(Route("reject"))[2] = "joinInvite"
    BY <1>1, <1>2, <1>3, HeadTailProperties DEF Ends
  <1>6. \A k \in 1..2 : k = 1 \/ k = 2
    OBVIOUS
  <1> QED BY <1>1, <1>2, <1>3, <1>4, <1>5, <1>6, SeqEqual

LEMMA DeleteRoute ==
  /\ Route("delete") \in Seq(StepNames) /\ Ends("delete") = 4
  /\ LET s == Route("delete") IN
     s[1] = "mayInvite" /\ s[2] = "deleteRow" /\ s[3] = "uncacheInvite" /\ s[4] = "deleteInvite"
  BY DEF Route, DeleteInvite, StepNames, InviteOps, Ends

LEMMA ListRoute ==
  /\ Route("list") \in Seq(StepNames) /\ Ends("list") = 4
  /\ LET s == Route("list") IN
     s[1] = "mayInvite" /\ s[2] = "countListed" /\ s[3] = "selectListed" /\ s[4] = "listInvites"
  BY DEF Route, ListInvites, StepNames, InviteOps, Ends

LEMMA UpTo9 == \A i \in 1..9 : i \in {1, 2, 3, 4, 5, 6, 7, 8, 9}
  OBVIOUS

\* Where each step is.
LEMMA CreatePlaces ==
  /\ Ends("create") = 8
  /\ \A i \in 1..8 : LET x == Route("create")[i] IN
       /\ x \in {"isBlocked", "findKey", "insertKey", "mayInvite", "countInvites", "uploadInvite", "cacheInvite", "createInvite"}
       /\ (x = "isBlocked" <=> i = 1) /\ (x = "findKey" <=> i = 2) /\ (x = "insertKey" <=> i = 3)
       /\ (x = "mayInvite" <=> i = 4) /\ (x = "countInvites" <=> i = 5) /\ (x = "uploadInvite" <=> i = 6)
       /\ (x = "cacheInvite" <=> i = 7) /\ (x = "createInvite" <=> i = 8)
  BY CreateRoute, UpTo9

LEMMA JoinPlaces ==
  /\ Ends("join") = 9
  /\ \A i \in 1..9 : LET x == Route("join")[i] IN
       /\ x \in {"isBlocked", "findKey", "insertKey", "isBanned", "lookUp", "consumeInvite", "addUser", "clearAbuse", "joinInvite"}
       /\ (x = "isBlocked" <=> i = 1) /\ (x = "findKey" <=> i = 2) /\ (x = "insertKey" <=> i = 3)
       /\ (x = "isBanned" <=> i = 4) /\ (x = "lookUp" <=> i = 5) /\ (x = "consumeInvite" <=> i = 6)
       /\ (x = "addUser" <=> i = 7) /\ (x = "clearAbuse" <=> i = 8) /\ (x = "joinInvite" <=> i = 9)
  BY JoinRoute, UpTo9

LEMMA RejectPlaces ==
  /\ Ends("reject") = 3
  /\ \A i \in 1..3 : LET x == Route("reject")[i] IN
       /\ x \in {"forgetCode", "addAbuse", "joinInvite"}
       /\ (x = "forgetCode" <=> i = 1) /\ (x = "addAbuse" <=> i = 2) /\ (x = "joinInvite" <=> i = 3)
  BY RejectRoute, UpTo9

LEMMA DeletePlaces ==
  /\ Ends("delete") = 4
  /\ \A i \in 1..4 : LET x == Route("delete")[i] IN
       /\ x \in {"mayInvite", "deleteRow", "uncacheInvite", "deleteInvite"}
       /\ (x = "mayInvite" <=> i = 1) /\ (x = "deleteRow" <=> i = 2) /\ (x = "uncacheInvite" <=> i = 3)
       /\ (x = "deleteInvite" <=> i = 4)
  BY DeleteRoute, UpTo9

LEMMA ListPlaces ==
  /\ Ends("list") = 4
  /\ \A i \in 1..4 : LET x == Route("list")[i] IN
       /\ x \in {"mayInvite", "countListed", "selectListed", "listInvites"}
       /\ (x = "mayInvite" <=> i = 1) /\ (x = "countListed" <=> i = 2) /\ (x = "selectListed" <=> i = 3)
       /\ (x = "listInvites" <=> i = 4)
  BY ListRoute, UpTo9

LEMMA RouteIs ==
  ASSUME NEW w \in Ways
  PROVE  /\ Route(w) \in Seq(StepNames) /\ Ends(w) \in 3..9 /\ Route(w)[Ends(w)] = OpOf(w) /\ OpOf(w) \in InviteOps
         /\ w \in {"create", "join"} => OpOf(w) \in {"createInvite", "joinInvite"}
  <1>1. CASE w = "create"
    BY <1>1, CreateRoute DEF OpOf, InviteOps
  <1>2. CASE w = "join"
    BY <1>2, JoinRoute DEF OpOf, InviteOps
  <1>3. CASE w = "reject"
    BY <1>3, RejectRoute DEF OpOf, InviteOps
  <1>4. CASE w = "delete"
    BY <1>4, DeleteRoute DEF OpOf, InviteOps
  <1>5. CASE w = "list"
    BY <1>5, ListRoute DEF OpOf, InviteOps
  <1> QED BY <1>1, <1>2, <1>3, <1>4, <1>5 DEF Ways

LEMMA RestIs ==
  ASSUME NEW w \in Ways, NEW i \in 1..Ends(w)
  PROVE  /\ Rest(w, i) \in Seq(StepNames) /\ Len(Rest(w, i)) = Ends(w) - i + 1
         /\ \A j \in 1..(Ends(w) - i + 1) : Rest(w, i)[j] = Route(w)[i + j - 1]
         /\ Rest(w, i) # <<>> /\ Head(Rest(w, i)) = Route(w)[i]
         /\ Rest(w, i)[Len(Rest(w, i))] = OpOf(w)
  <1> DEFINE s == Route(w)
             n == Ends(w)
  <1>1. s \in Seq(StepNames) /\ n \in Nat /\ n = Len(s) /\ s[n] = OpOf(w)
    BY RouteIs DEF Ends
  <1>2. i \in 1..n /\ n \in i..n /\ i \in Nat
    BY <1>1
  <1>3. /\ Rest(w, i) \in Seq(StepNames) /\ Len(Rest(w, i)) = n - i + 1
        /\ \A j \in 1..(n - i + 1) : Rest(w, i)[j] = s[i + j - 1]
    BY <1>1, <1>2, SubSeqProperties DEF Rest
  <1> HIDE DEF s, n
  <1>4. 1 \in 1..(n - i + 1) /\ n - i + 1 \in 1..(n - i + 1) /\ i + 1 - 1 = i /\ i + (n - i + 1) - 1 = n
    BY <1>1, <1>2
  <1>5. Rest(w, i)[1] = s[i] /\ Rest(w, i)[n - i + 1] = s[n]
    BY <1>3, <1>4
  <1>6. Rest(w, i) # <<>> /\ Head(Rest(w, i)) = Rest(w, i)[1]
    BY <1>3, <1>4
  <1> QED BY <1>1, <1>3, <1>5, <1>6 DEF s, n

LEMMA TailOfRest ==
  ASSUME NEW w \in Ways, NEW i \in 1..Ends(w), i # Ends(w)
  PROVE  Tail(Rest(w, i)) = Rest(w, i + 1)
  BY RouteIs, HeadTailOfSubSeq DEF Ends, Rest

LEMMA LastOfRest ==
  ASSUME NEW w \in Ways
  PROVE  Rest(w, Ends(w)) = <<OpOf(w)>> /\ Tail(Rest(w, Ends(w))) = <<>>
  <1>1. Ends(w) \in 1..Ends(w) /\ Ends(w) \in Nat
    BY RouteIs
  <1>2. Ends(w) - Ends(w) + 1 = 1
    BY <1>1
  <1>3. /\ Rest(w, Ends(w)) \in Seq(StepNames) /\ Len(Rest(w, Ends(w))) = Ends(w) - Ends(w) + 1
        /\ Rest(w, Ends(w))[Len(Rest(w, Ends(w)))] = OpOf(w)
    BY <1>1, RestIs
  <1>4. Rest(w, Ends(w)) = <<OpOf(w)>>
    BY <1>2, <1>3
  <1> QED BY <1>4

LEMMA WholeRest ==
  ASSUME NEW w \in Ways
  PROVE  Rest(w, 1) = Route(w) /\ 1 \in 1..Ends(w)
  BY RouteIs, SubSeqFull DEF Rest, Ends

(***************************************************************************)
(* What a thread's steps say of it.                                        *)
(***************************************************************************)
LEMMA AllPlaces ==
  /\ \A w \in Ways : Ends(w) \in Nat
  /\ Ends("create") = 8 /\ Ends("join") = 9 /\ Ends("reject") = 3 /\ Ends("delete") = 4 /\ Ends("list") = 4
  <1>1. \A w \in Ways : Ends(w) \in 3..9
    BY RouteIs
  <1>2. Ends("create") = 8 /\ Ends("join") = 9 /\ Ends("reject") = 3 /\ Ends("delete") = 4 /\ Ends("list") = 4
    BY CreateRoute, JoinRoute, RejectRoute, DeleteRoute, ListRoute
  <1> QED BY <1>1, <1>2

LEMMA Reads ==
  ASSUME NEW th \in Threads, NEW w \in Ways, NEW i \in 1..Ends(w), pc[th] = Rest(w, i)
  PROVE  Busy(th) /\ Op(th) = OpOf(w) /\ Head(pc[th]) = Route(w)[i] /\ \A x : AtStep(th, x) <=> Route(w)[i] = x
  BY RestIs DEF Busy, Op, AtStep

LEMMA ReadsNext ==
  ASSUME NEW th \in Threads, NEW w \in Ways, NEW i \in 1..Ends(w), pc'[th] = Rest(w, i)
  PROVE  \A x : AtStep(th, x)' <=> Route(w)[i] = x
  BY RestIs DEF Busy, AtStep

\* A thread that has something to do is at a step of a way.
LEMMA Place ==
  ASSUME InvitesInv, NEW th \in Threads, pc[th] # <<>>
  PROVE  \E w \in Ways : \E i \in 1..Ends(w) : pc[th] = Rest(w, i) /\ At(th, w, i) /\ Head(pc[th]) = Route(w)[i]
  BY RestIs DEF InvitesInv, ThreadOK

LEMMA Starts ==
  ASSUME InvitesInv, NEW th \in Threads, NEW x, AtStep(th, x)
  PROVE  \E w \in Ways : \E i \in 1..Ends(w) : pc[th] = Rest(w, i) /\ At(th, w, i) /\ Route(w)[i] = x
  BY Place DEF AtStep, Busy

\* Going on: to the next step, or to the reply.
LEMMA Goes ==
  ASSUME NEW th \in Threads, NEW w \in Ways, NEW i \in 1..Ends(w), pc[th] = Rest(w, i)
  PROVE  /\ i # Ends(w) /\ Advance(th) => pc' = [pc EXCEPT ![th] = Rest(w, i + 1)]
         /\ Return(th) => pc' = [pc EXCEPT ![th] = Rest(w, Ends(w))]
         /\ i + 1 \in Nat /\ (i # Ends(w) => i + 1 \in 1..Ends(w)) /\ Ends(w) \in 1..Ends(w)
  <1>1. Ends(w) \in Nat /\ Ends(w) >= 3 /\ i \in Nat /\ i <= Ends(w)
    BY RouteIs
  <1>2. ASSUME i # Ends(w), Advance(th) PROVE pc' = [pc EXCEPT ![th] = Rest(w, i + 1)]
    BY <1>2, TailOfRest DEF Advance
  <1>3. ASSUME Return(th) PROVE pc' = [pc EXCEPT ![th] = Rest(w, Ends(w))]
    BY <1>3, LastOfRest, Reads DEF Return
  <1> QED BY <1>1, <1>2, <1>3

LEMMA Tables ==
  ASSUME InvitesInv
  PROVE  /\ Len(server_invites) \in Nat /\ Codes \subseteq Nat /\ 0 \notin Codes /\ IsFiniteSet(Codes)
         /\ DOMAIN server_invites = Codes /\ DOMAIN admitted = Codes
         /\ \A c \in Codes : server_invites[c] \in InviteRecord /\ admitted[c] \subseteq Users
         /\ \A th \in Threads : jo[th] \in CallRecord /\ key[th] \in Keys /\ key[th] \in Addresses
         /\ now \in Nat
  <1>1. Len(server_invites) \in Nat /\ Len(admitted) = Len(server_invites)
    BY DEF InvitesInv, TablesOK
  <1>2. IsFiniteSet(Codes)
    BY <1>1, FS_Interval DEF Codes
  <1>3. Codes \subseteq Nat /\ 0 \notin Codes
    BY <1>1 DEF Codes
  <1>4. DOMAIN server_invites = Codes /\ DOMAIN admitted = Codes
    BY <1>1 DEF InvitesInv, TablesOK, Codes
  <1>5. \A c \in Codes : server_invites[c] \in InviteRecord /\ admitted[c] \subseteq Users
    BY <1>1 DEF InvitesInv, TablesOK, Codes
  <1>6. \A th \in Threads : jo[th] \in CallRecord
    BY DEF InvitesInv, TablesOK
  <1>7. now \in Nat /\ \A th \in Threads : key[th] \in Keys /\ key[th] \in Addresses
    BY InvitesAssumption DEF InvitesInv, AbuseInv, AbuseTypeOK, LimitsTypeOK
  <1> QED BY <1>1, <1>2, <1>3, <1>4, <1>5, <1>6, <1>7

LEMMA FaultCounted ==
  ASSUME InvitesInv
  PROVE  /\ InviteFault => invite_faults' \in 0..MaxInviteFaults
         /\ UNCHANGED invite_faults => invite_faults' \in 0..MaxInviteFaults
  BY InvitesAssumption DEF InvitesInv, TablesOK, InviteFault

(***************************************************************************)
(* What others' steps leave of a thread.                                   *)
(***************************************************************************)
\* Codes stay, and one that is no good stays so.
CodesKeep ==
    /\ Codes \subseteq Codes'
    /\ \A c \in Codes : Usable(c)' => Usable(c)
    /\ \A c \in Codes : server_invites'[c].server = server_invites[c].server

\* A call is as it was, or its list has gone stale.
CallKept(o) == jo'[o] = jo[o] \/ jo'[o] = [jo[o] EXCEPT !.stale = TRUE]

LEMMA KeptCall ==
  ASSUME NEW o \in Threads, jo[o] \in CallRecord, CallKept(o)
  PROVE  /\ jo'[o] \in CallRecord /\ jo'[o].user = jo[o].user /\ jo'[o].server = jo[o].server
         /\ jo'[o].code = jo[o].code /\ jo'[o].dead = jo[o].dead /\ jo'[o].cached = jo[o].cached
         /\ jo'[o].total = jo[o].total /\ jo'[o].page = jo[o].page /\ (~jo'[o].stale => ~jo[o].stale)
  <1>1. CASE jo'[o] = jo[o]
    BY <1>1
  <1>2. CASE jo'[o] = [jo[o] EXCEPT !.stale = TRUE]
    <2> DEFINE r == jo[o]
               q == jo'[o]
    <2> HIDE DEF r, q
    <2>1. r \in CallRecord /\ q = [r EXCEPT !.stale = TRUE]
      BY <1>2 DEF r, q
    <2>2. q \in CallRecord
      BY <2>1 DEF CallRecord
    <2>3. /\ q.user = r.user /\ q.server = r.server /\ q.code = r.code /\ q.dead = r.dead /\ q.cached = r.cached
          /\ q.total = r.total /\ q.page = r.page /\ q.stale
      BY <2>1 DEF CallRecord
    <2> QED BY <2>2, <2>3 DEF r, q
  <1> QED BY <1>1, <1>2 DEF CallKept

LEMMA OtherKept ==
  ASSUME InvitesInv, NEW o \in Threads, pc'[o] = pc[o], CallKept(o), CodesKeep,
         ~jo'[o].stale => InvitesOf(jo[o].server)' = InvitesOf(jo[o].server)
  PROVE  ThreadOK(o)'
  <1>1. CASE pc[o] = <<>>
    BY <1>1 DEF ThreadOK
  <1>2. CASE pc[o] # <<>>
    <2>1. PICK w \in Ways : \E i \in 1..Ends(w) : pc[o] = Rest(w, i) /\ At(o, w, i)
      BY <1>2, Place
    <2>2. PICK i \in 1..Ends(w) : pc[o] = Rest(w, i) /\ At(o, w, i)
      BY <2>1
    <2>3. /\ jo'[o] \in CallRecord /\ jo'[o].user = jo[o].user /\ jo'[o].server = jo[o].server
          /\ jo'[o].code = jo[o].code /\ jo'[o].dead = jo[o].dead
          /\ jo'[o].total = jo[o].total /\ jo'[o].page = jo[o].page /\ (~jo'[o].stale => ~jo[o].stale)
      BY KeptCall, Tables
    <2>4. jo[o].code \in {0} \cup Codes /\ \A k \in DOMAIN jo[o].page : jo[o].page[k] \in Codes
      BY DEF InvitesInv, TablesOK
    <2>5. Usable(jo[o].code)' => Usable(jo[o].code)
      BY <2>3, <2>4 DEF Usable, CodesKeep, Live, Expired
    <2>6. ~jo'[o].stale => Cardinality(InvitesOf(jo[o].server))' = Cardinality(InvitesOf(jo[o].server))
      BY <2>3
    <2>7. At(o, w, i)'
      BY <2>2, <2>3, <2>4, <2>5, <2>6 DEF At, CodesKeep
    <2> QED BY <2>2, <2>7 DEF ThreadOK
  <1> QED BY <1>1, <1>2

(***************************************************************************)
(* Steps of a thread that leave the table of invites as it is.             *)
(***************************************************************************)
LEMMA SameTable ==
  ASSUME InvitesInv, UNCHANGED <<now, server_invites>>
  PROVE  /\ Codes' = Codes /\ CodesKeep
         /\ \A s : InvitesOf(s)' = InvitesOf(s) /\ ActiveInvites(s)' = ActiveInvites(s)
  BY DEF Codes, Live, Expired, Usable, InvitesOf, ActiveInvites, CodesKeep

\* The others, when the table and their calls stay.
LEMMA OthersStay ==
  ASSUME InvitesInv, NEW th, \A o \in Threads \ {th} : pc'[o] = pc[o] /\ jo'[o] = jo[o],
         UNCHANGED <<now, server_invites>>
  PROVE  \A o \in Threads \ {th} : ThreadOK(o)'
  BY SameTable, OtherKept DEF CallKept

\* Uses and caps, when nobody comes to the step that is about them.
LEMMA UsesStay ==
  ASSUME InvitesInv, UNCHANGED <<server_invites, admitted>>, \A c \in Codes : Consumers(c)' \subseteq Consumers(c)
  PROVE  UsesOK'
  <1>1. Codes' = Codes
    BY DEF Codes
  <1> SUFFICES ASSUME NEW c \in Codes
               PROVE  /\ IsFiniteSet(admitted[c])
                      /\ Cardinality(admitted[c]) + Cardinality(Consumers(c)') <= server_invites[c].current_uses
                      /\ server_invites[c].current_uses <= server_invites[c].max_uses
    BY <1>1 DEF UsesOK
  <1>2. /\ IsFiniteSet(admitted[c])
        /\ Cardinality(admitted[c]) + Cardinality(Consumers(c)) <= server_invites[c].current_uses
        /\ server_invites[c].current_uses <= server_invites[c].max_uses
    BY DEF InvitesInv, UsesOK
  <1>3. IsFiniteSet(Consumers(c)) /\ Consumers(c)' \subseteq Consumers(c)
    BY LimitConstants, FS_Subset DEF Consumers
  <1>4. Cardinality(Consumers(c)') <= Cardinality(Consumers(c)) /\ Cardinality(Consumers(c)') \in Nat
        /\ Cardinality(Consumers(c)) \in Nat /\ Cardinality(admitted[c]) \in Nat
    BY <1>2, <1>3, FS_Subset, FS_CardinalityType
  <1>5. server_invites[c].current_uses \in Nat
    BY Tables DEF InviteRecord
  <1> QED BY <1>2, <1>4, <1>5

LEMMA ActiveFinite ==
  ASSUME InvitesInv
  PROVE  \A s : /\ IsFiniteSet(ActiveInvites(s)) /\ Cardinality(ActiveInvites(s)) \in Nat
                /\ IsFiniteSet(Creators(s)) /\ Cardinality(Creators(s)) \in Nat
                /\ Cardinality(Creators(s)) <= Cardinality(Threads) /\ Cardinality(Threads) \in Nat
  BY Tables, LimitConstants, FS_Subset, FS_CardinalityType DEF ActiveInvites, Creators

LEMMA CapStays ==
  ASSUME InvitesInv, ~miscounted' => ~miscounted,
         \A s \in Servers : ActiveInvites(s)' \subseteq ActiveInvites(s) /\ Creators(s)' \subseteq Creators(s)
  PROVE  CapOK'
  <1> SUFFICES ASSUME ~miscounted, MaxInvitesPerServer > 0, NEW s \in Servers
               PROVE  Cardinality(ActiveInvites(s)') + Cardinality(Creators(s)') <= MaxInvitesPerServer + Cardinality(Threads) - 1
    BY DEF CapOK
  <1>1. Cardinality(ActiveInvites(s)) + Cardinality(Creators(s)) <= MaxInvitesPerServer + Cardinality(Threads) - 1
    BY DEF InvitesInv, CapOK
  <1>2. /\ IsFiniteSet(ActiveInvites(s)) /\ Cardinality(ActiveInvites(s)) \in Nat
        /\ IsFiniteSet(Creators(s)) /\ Cardinality(Creators(s)) \in Nat /\ Cardinality(Threads) \in Nat
    BY ActiveFinite
  <1>3. Cardinality(ActiveInvites(s)') <= Cardinality(ActiveInvites(s)) /\ Cardinality(ActiveInvites(s)') \in Nat
    BY <1>2, FS_Subset, FS_CardinalityType
  <1>4. Cardinality(Creators(s)') <= Cardinality(Creators(s)) /\ Cardinality(Creators(s)') \in Nat
    BY <1>2, FS_Subset, FS_CardinalityType
  <1>5. MaxInvitesPerServer \in Nat
    BY InvitesAssumption
  <1> QED BY <1>1, <1>2, <1>3, <1>4, <1>5

\* A thread comes to a step that is neither to admit somebody nor to insert an invite.
LEMMA LocalStep ==
  ASSUME InvitesInv, NEW th \in Threads, NEW p \in Seq(StepNames), pc' = [pc EXCEPT ![th] = p],
         NEW r \in CallRecord, jo' = [jo EXCEPT ![th] = r],
         r.code \in {0} \cup Codes, \A k \in DOMAIN r.page : r.page[k] \in Codes,
         UNCHANGED <<now, server_invites, admitted, members>>,
         miscounted' \in BOOLEAN, ~miscounted' => ~miscounted,
         InviteCodeToServerId' \subseteq Codes, invite_faults' \in 0..MaxInviteFaults,
         LimitsTypeOK', AbuseInv',
         p = <<>> \/ Head(p) \notin {"addUser", "uploadInvite"},
         ThreadOK(th)'
  PROVE  InvitesInv'
  BY OthersStay, UsesStay, SameTable, CapStays DEF InvitesInv, TablesOK, Codes, AtStep, Busy,
     Consumers, Creators

LEMMA AbuseStays == ASSUME InvitesInv, UNCHANGED abuseVars PROVE AbuseInv' /\ UNCHANGED now
  BY DEF InvitesInv, AbuseInv, AbuseTypeOK, Remembered, BanSet, Since, abuseVars

LEMMA LimitsStay == ASSUME InvitesInv, UNCHANGED limitVars PROVE LimitsTypeOK'
  BY DEF InvitesInv, LimitsTypeOK, limitVars

\* A thread goes on to place j of way v, its call to be r, and nothing else but the cache, the
\* counters and the record of failures changes.
LEMMA Moves ==
  ASSUME InvitesInv, NEW th \in Threads, NEW v \in Ways, NEW j \in 1..Ends(v), pc' = [pc EXCEPT ![th] = Rest(v, j)],
         NEW r \in CallRecord, jo' = [jo EXCEPT ![th] = r],
         r.code \in {0} \cup Codes, \A k \in DOMAIN r.page : r.page[k] \in Codes,
         UNCHANGED <<now, server_invites, admitted, members>>,
         miscounted' \in BOOLEAN, ~miscounted' => ~miscounted,
         InviteCodeToServerId' \subseteq Codes, invite_faults' \in 0..MaxInviteFaults,
         LimitsTypeOK', AbuseInv', Route(v)[j] \notin {"addUser", "uploadInvite"},
         At(th, v, j)'
  PROVE  InvitesInv'
  <1>1. Rest(v, j) \in Seq(StepNames) /\ Head(Rest(v, j)) = Route(v)[j]
    BY RestIs
  <1>2. pc'[th] = Rest(v, j)
    BY DEF InvitesInv, TablesOK
  <1>3. ThreadOK(th)'
    BY <1>2 DEF ThreadOK
  <1> QED BY <1>1, <1>3, LocalStep

\* The same, when the call stays as it is.
LEMMA Stays ==
  ASSUME InvitesInv, NEW th \in Threads, NEW v \in Ways, NEW j \in 1..Ends(v), pc' = [pc EXCEPT ![th] = Rest(v, j)],
         UNCHANGED <<now, server_invites, admitted, members, jo>>,
         miscounted' \in BOOLEAN, ~miscounted' => ~miscounted,
         InviteCodeToServerId' \subseteq Codes, invite_faults' \in 0..MaxInviteFaults,
         LimitsTypeOK', AbuseInv', Route(v)[j] \notin {"addUser", "uploadInvite"},
         At(th, v, j)
  PROVE  InvitesInv'
  <1>1. PICK r \in CallRecord : r = jo[th]
    BY Tables
  <1>2. jo' = [jo EXCEPT ![th] = r]
    BY <1>1 DEF InvitesInv, TablesOK
  <1>3. r.code \in {0} \cup Codes /\ \A k \in DOMAIN r.page : r.page[k] \in Codes
    BY <1>1 DEF InvitesInv, TablesOK
  <1>4. At(th, v, j)'
    BY SameTable DEF Usable, Live, Expired, At
  <1> QED BY <1>2, <1>3, <1>4, Moves

(***************************************************************************)
(* The record of failures and the counters.                                *)
(***************************************************************************)
LEMMA AbuseConstants ==
  /\ InviteAbuseMaxAttempts \in Nat /\ InviteAbuseMaxAttempts > 0
  /\ InviteAbuseWindowSeconds \in Nat /\ InviteAbuseWindowSeconds > 0
  /\ InviteAbuseBanDurationSeconds \in Nat /\ InviteAbuseBanDurationSeconds > 0
  BY AbuseAssumption

\* Of an address: its failures, those that are kept, and its ban.
AddressOK(a) ==
    /\ IsFiniteSet(failures[a]) /\ FailedAttempts[a] \subseteq failures[a]
    /\ \A x \in failures[a] : x.at <= now /\ x.number <= Cardinality(failures[a])
    /\ a \notin forgot => Remembered(a) /\ BanSet(a)

LEMMA AddressSame ==
  ASSUME NEW a, AddressOK(a), failures'[a] = failures[a], FailedAttempts'[a] = FailedAttempts[a],
         BanUntil'[a] = BanUntil[a], now' = now, a \notin forgot' => a \notin forgot
  PROVE  AddressOK(a)'
  BY DEF AddressOK, Remembered, BanSet, Since

LEMMA Recalled ==
  ASSUME AbuseInv, NEW a \in Addresses
  PROVE  /\ AddressOK(a) /\ failures[a] \subseteq Attempts /\ Cardinality(failures[a]) \in Nat /\ BanUntil[a] \in Nat
         /\ now \in Nat /\ FailedAttempts[a] \subseteq Attempts /\ \A x \in Attempts : x.number \in Nat /\ x.at \in Nat
  BY FS_CardinalityType DEF AbuseInv, AbuseTypeOK, AddressOK, Attempts

LEMMA AbuseFrom ==
  ASSUME AbuseTypeOK, \A a \in Addresses : AddressOK(a) PROVE AbuseInv
  BY DEF AbuseInv, AddressOK

LEMMA FailureAdded == ASSUME AbuseInv, NEW a \in Addresses, AddInviteAbuseAttempt(a) PROVE AbuseInv'
  <1> DEFINE x0 == Attempt(a)
             kept == PurgeOldInviteAttempts(FailedAttempts[a] \cup {x0}, now)
  <1>1. x0 \in Attempts /\ x0.number = Cardinality(failures[a]) + 1 /\ x0.at = now
    BY Recalled DEF Attempt, Attempts
  <1> HIDE DEF x0
  <1>2. kept = {x \in FailedAttempts[a] \cup {x0} : x.at >= now - InviteAbuseWindowSeconds} /\ kept \subseteq FailedAttempts[a] \cup {x0}
    BY DEF PurgeOldInviteAttempts
  <1> HIDE DEF kept
  <1>3. /\ FailedAttempts' = [FailedAttempts EXCEPT ![a] = kept]
        /\ BanUntil' = [BanUntil EXCEPT ![a] = IF Cardinality(kept) >= InviteAbuseMaxAttempts
                                               THEN now + InviteAbuseBanDurationSeconds ELSE @]
        /\ failures' = [failures EXCEPT ![a] = @ \cup {x0}]
        /\ now' = now /\ forgot' = forgot
    BY DEF AddInviteAbuseAttempt, x0, kept
  <1>4. /\ failures'[a] = failures[a] \cup {x0} /\ FailedAttempts'[a] = kept
        /\ Cardinality(kept) >= InviteAbuseMaxAttempts => BanUntil'[a] = now + InviteAbuseBanDurationSeconds
        /\ \A b \in Addresses \ {a} : failures'[b] = failures[b] /\ FailedAttempts'[b] = FailedAttempts[b] /\ BanUntil'[b] = BanUntil[b]
    BY <1>3 DEF AbuseInv, AbuseTypeOK
  <1>5. AbuseTypeOK'
    BY <1>1, <1>2, <1>3, Recalled, AbuseConstants DEF AbuseInv, AbuseTypeOK
  <1>6. x0 \notin failures[a] /\ IsFiniteSet(failures[a])
    BY <1>1, Recalled DEF AddressOK
  <1>7. IsFiniteSet(failures'[a]) /\ Cardinality(failures'[a]) = Cardinality(failures[a]) + 1
    <2>1. PICK S : S = failures[a]
      OBVIOUS
    <2>2. PICK x : x = x0
      OBVIOUS
    <2>3. IsFiniteSet(S \cup {x}) /\ Cardinality(S \cup {x}) = Cardinality(S) + 1
      BY <2>1, <2>2, <1>6, FS_AddElement
    <2>4. failures'[a] = S \cup {x}
      BY <2>1, <2>2, <1>4
    <2> QED BY <2>1, <2>3, <2>4
  <1>8. ASSUME a \notin forgot PROVE kept = {x \in failures'[a] : x.at >= now - InviteAbuseWindowSeconds}
    BY <1>2, <1>4, <1>8, Recalled DEF AddressOK, Remembered, Since
  <1>9. AddressOK(a)'
    <2>1. FailedAttempts'[a] \subseteq failures'[a]
      BY <1>2, <1>4, Recalled DEF AddressOK
    <2>2. \A x \in failures'[a] : x.at <= now' /\ x.number <= Cardinality(failures'[a])
      BY <1>1, <1>3, <1>4, <1>7, Recalled DEF AddressOK
    <2>3. ASSUME a \notin forgot' PROVE Remembered(a)'
      BY <2>3, <1>3, <1>4, <1>8 DEF Remembered, Since
    <2>4. ASSUME a \notin forgot' PROVE BanSet(a)'
      <3> SUFFICES ASSUME NEW last \in failures'[a], \A x \in failures'[a] : x.at <= last.at,
                          Cardinality({x \in failures'[a] : x.at >= last.at - InviteAbuseWindowSeconds}) >= InviteAbuseMaxAttempts
                   PROVE  BanUntil'[a] >= last.at + InviteAbuseBanDurationSeconds
        BY DEF BanSet, Since
      <3>1. last.at = now
        BY <1>1, <1>3, <1>4, <2>2, Recalled
      <3>2. Cardinality(kept) >= InviteAbuseMaxAttempts
        BY <3>1, <2>4, <1>3, <1>8
      <3>3. now + InviteAbuseBanDurationSeconds \in Nat
        BY Recalled, AbuseConstants
      <3> QED BY <3>1, <3>2, <3>3, <1>4
    <2> QED BY <1>7, <2>1, <2>2, <2>3, <2>4 DEF AddressOK
  <1>10. \A b \in Addresses : AddressOK(b)'
    BY <1>3, <1>4, <1>9, AddressSame, Recalled
  <1> QED BY <1>5, <1>10 DEF AbuseInv, AddressOK

LEMMA FailuresCleared == ASSUME AbuseInv, NEW a \in Addresses, ClearInviteAbuseForIp(a) PROVE AbuseInv'
  BY FS_EmptySet, AddressSame, Recalled DEF ClearInviteAbuseForIp, AbuseInv, AbuseTypeOK, AddressOK,
     Remembered, BanSet, Since

LEMMA TimePasses == ASSUME AbuseInv, Tick PROVE AbuseInv'
  BY Recalled, AbuseConstants DEF Tick, AbuseInv, AbuseTypeOK, AddressOK, Remembered, Since, BanSet

LEMMA CleansUp == ASSUME AbuseInv, PeriodicInviteAbuseCleanup PROVE AbuseInv'
  <1> DEFINE Ended(a) == BanUntil[a] > 0 /\ BanUntil[a] <= now
             Kept(a) == {x \in FailedAttempts[a] : x.at >= now - InviteAbuseWindowSeconds}
  <1>1. /\ FailedAttempts' = [a \in Addresses |-> IF Ended(a) THEN {} ELSE Kept(a)]
        /\ BanUntil' = [a \in Addresses |-> IF Ended(a) THEN 0 ELSE BanUntil[a]]
        /\ forgot' = forgot \cup {a \in Addresses : Ended(a) /\ Kept(a) # {}}
        /\ now' = now /\ failures' = failures
    BY DEF PeriodicInviteAbuseCleanup, PurgeOldInviteAttempts
  <1>2. AbuseTypeOK'
    BY <1>1 DEF AbuseInv, AbuseTypeOK
  <1>3. ASSUME NEW a \in Addresses PROVE AddressOK(a)'
    BY <1>1, Recalled, AbuseConstants DEF AddressOK, Remembered, Since, BanSet
  <1> QED BY <1>2, <1>3 DEF AbuseInv, AddressOK

(***************************************************************************)
(* The steps, one lemma each.  First where each is.                        *)
(***************************************************************************)
LEMMA CountingPlaces ==
  ASSUME NEW w \in Ways, NEW i \in 1..Ends(w), Route(w)[i] \in {"isBlocked", "findKey", "insertKey"}
  PROVE  /\ w \in {"create", "join"}
         /\ Route(w)[i] = "isBlocked" => i = 1
         /\ Route(w)[i] = "findKey" => i = 2
         /\ Route(w)[i] = "insertKey" => i = 3
         /\ Route(w)[2] = "findKey" /\ Route(w)[3] = "insertKey" /\ Route(w)[4] \in {"mayInvite", "isBanned"}
         /\ 3 # Ends(w) /\ {2, 3, 4} \subseteq 1..Ends(w)
  <1>1. w \notin {"reject", "delete", "list"}
    BY RejectPlaces, DeletePlaces, ListPlaces DEF Ways
  <1>2. CASE w = "create"
    <2>1. Ends(w) = 8 /\ {2, 3, 4} \subseteq 1..8
      BY <1>2, CreatePlaces
    <2>2. /\ Route(w)[i] = "isBlocked" => i = 1
          /\ Route(w)[i] = "findKey" => i = 2
          /\ Route(w)[i] = "insertKey" => i = 3
      BY <1>2, <2>1, CreatePlaces
    <2>3. Route(w)[2] = "findKey" /\ Route(w)[3] = "insertKey" /\ Route(w)[4] \in {"mayInvite", "isBanned"}
      BY <1>2, CreateRoute
    <2> QED BY <1>2, <2>1, <2>2, <2>3
  <1>3. CASE w = "join"
    <2>1. Ends(w) = 9 /\ {2, 3, 4} \subseteq 1..9
      BY <1>3, JoinPlaces
    <2>2. /\ Route(w)[i] = "isBlocked" => i = 1
          /\ Route(w)[i] = "findKey" => i = 2
          /\ Route(w)[i] = "insertKey" => i = 3
      BY <1>3, <2>1, JoinPlaces
    <2>3. Route(w)[2] = "findKey" /\ Route(w)[3] = "insertKey" /\ Route(w)[4] \in {"mayInvite", "isBanned"}
      BY <1>3, JoinRoute
    <2> QED BY <1>3, <2>1, <2>2, <2>3
  <1> QED BY <1>1, <1>2, <1>3 DEF Ways

LEMMA MayPlaces ==
  ASSUME NEW w \in Ways, NEW i \in 1..Ends(w), Route(w)[i] = "mayInvite"
  PROVE  \/ w = "create" /\ i = 4
         \/ w = "delete" /\ i = 1
         \/ w = "list" /\ i = 1
  BY CreatePlaces, JoinPlaces, RejectPlaces, DeletePlaces, ListPlaces DEF Ways

LEMMA CreateOnly ==
  ASSUME NEW w \in Ways, NEW i \in 1..Ends(w)
  PROVE  /\ Route(w)[i] = "countInvites" => w = "create" /\ i = 5
         /\ Route(w)[i] = "uploadInvite" => w = "create" /\ i = 6
         /\ Route(w)[i] = "cacheInvite" => w = "create" /\ i = 7
  BY CreatePlaces, JoinPlaces, RejectPlaces, DeletePlaces, ListPlaces DEF Ways

LEMMA JoinOnly ==
  ASSUME NEW w \in Ways, NEW i \in 1..Ends(w)
  PROVE  /\ Route(w)[i] = "isBanned" => w = "join" /\ i = 4
         /\ Route(w)[i] = "lookUp" => w = "join" /\ i = 5
         /\ Route(w)[i] = "consumeInvite" => w = "join" /\ i = 6
         /\ Route(w)[i] = "addUser" => w = "join" /\ i = 7
         /\ Route(w)[i] = "clearAbuse" => w = "join" /\ i = 8
  BY CreatePlaces, JoinPlaces, RejectPlaces, DeletePlaces, ListPlaces DEF Ways

LEMMA OtherPlaces ==
  ASSUME NEW w \in Ways, NEW i \in 1..Ends(w)
  PROVE  /\ Route(w)[i] = "forgetCode" => w = "reject" /\ i = 1
         /\ Route(w)[i] = "addAbuse" => w = "reject" /\ i = 2
         /\ Route(w)[i] = "deleteRow" => w = "delete" /\ i = 2
         /\ Route(w)[i] = "uncacheInvite" => w = "delete" /\ i = 3
         /\ Route(w)[i] = "countListed" => w = "list" /\ i = 2
         /\ Route(w)[i] = "selectListed" => w = "list" /\ i = 3
         /\ Route(w)[i] = "listInvites" => w = "list" /\ i = 4
  BY CreatePlaces, JoinPlaces, RejectPlaces, DeletePlaces, ListPlaces DEF Ways

\* The reply of a call is neither of the two steps that count.
LEMMA RepliesOnly ==
  ASSUME NEW w \in Ways PROVE Route(w)[Ends(w)] \notin {"addUser", "uploadInvite"} /\ Ends(w) \in 1..Ends(w) /\ Ends(w) # 7
  <1>1. Ends(w) \in 3..9 /\ Route(w)[Ends(w)] \in InviteOps
    BY RouteIs
  <1>2. "addUser" \notin InviteOps /\ "uploadInvite" \notin InviteOps
    BY DEF InviteOps
  <1>3. Ends(w) # 7
    BY AllPlaces DEF Ways
  <1>4. Ends(w) \in 1..Ends(w)
    BY <1>1
  <1> QED BY <1>1, <1>2, <1>3, <1>4

LEMMA AtReply ==
  ASSUME NEW th, NEW w \in Ways, NEW i \in 1..Ends(w), At(th, w, i), ~(w = "list" /\ i = 4) PROVE At(th, w, Ends(w))
  BY AllPlaces, RepliesOnly DEF At

\* Whoever does not reach the step before the next gives up and replies.
LEMMA GivesUp ==
  ASSUME InvitesInv, NEW th \in Threads, NEW w \in Ways, NEW i \in 1..Ends(w), pc[th] = Rest(w, i), At(th, w, i),
         ~(w = "list" /\ i = 4), Return(th),
         UNCHANGED <<server_invites, admitted, members, jo, limitVars, abuseVars>>,
         miscounted' \in BOOLEAN, ~miscounted' => ~miscounted,
         InviteCodeToServerId' \subseteq Codes, invite_faults' \in 0..MaxInviteFaults
  PROVE  InvitesInv'
  BY Goes, LimitsStay, AbuseStays, AtReply, RepliesOnly, Stays

LEMMA CacheStays == ASSUME InvitesInv PROVE UNCHANGED InviteCodeToServerId => InviteCodeToServerId' \subseteq Codes
  BY DEF InvitesInv, TablesOK

LEMMA CountStays == ASSUME InvitesInv PROVE UNCHANGED miscounted => miscounted' \in BOOLEAN /\ (~miscounted' => ~miscounted)
  BY DEF InvitesInv, TablesOK

LEMMA PermissionKeeps == ASSUME InvitesInv, NEW th \in Threads, UserHasPermission(th) PROVE InvitesInv'
  <1>1. PICK w \in Ways : \E i \in 1..Ends(w) : pc[th] = Rest(w, i) /\ At(th, w, i) /\ Route(w)[i] = "mayInvite"
    BY Starts DEF UserHasPermission
  <1>2. PICK i \in 1..Ends(w) : pc[th] = Rest(w, i) /\ At(th, w, i) /\ Route(w)[i] = "mayInvite"
    BY <1>1
  <1>3. \/ w = "create" /\ i = 4
        \/ w = "delete" /\ i = 1
        \/ w = "list" /\ i = 1
    BY <1>2, MayPlaces
  <1>4. UNCHANGED <<server_invites, admitted, members, jo, limitVars, abuseVars, miscounted, InviteCodeToServerId, invite_faults>>
    BY DEF UserHasPermission, inviteVars, inviteTables, Aside
  <1>5. /\ InviteCodeToServerId' \subseteq Codes /\ invite_faults' \in 0..MaxInviteFaults
        /\ miscounted' \in BOOLEAN /\ (~miscounted' => ~miscounted)
    BY <1>4, CacheStays, FaultCounted, CountStays
  <1>6. CASE Return(th)
    BY <1>2, <1>3, <1>4, <1>5, <1>6, GivesUp
  <1>7. CASE Advance(th)
    <2>1. i # Ends(w) /\ Route(w)[i + 1] \notin {"addUser", "uploadInvite"} /\ At(th, w, i + 1)
      <3>1. CASE w = "create" /\ i = 4
        BY <3>1, <1>2, CreateRoute DEF At
      <3>2. CASE w = "delete" /\ i = 1
        BY <3>2, <1>2, DeleteRoute DEF At
      <3>3. CASE w = "list" /\ i = 1
        BY <3>3, <1>2, ListRoute DEF At
      <3> QED BY <1>3, <3>1, <3>2, <3>3
    <2>2. pc' = [pc EXCEPT ![th] = Rest(w, i + 1)] /\ i + 1 \in 1..Ends(w)
      BY <1>2, <1>7, <2>1, Goes
    <2>3. LimitsTypeOK' /\ AbuseInv' /\ UNCHANGED now
      BY <1>4, LimitsStay, AbuseStays
    <2> QED BY <1>4, <1>5, <2>1, <2>2, <2>3, Stays
  <1> QED BY <1>6, <1>7 DEF UserHasPermission, AdvanceIf

\* The counters are those of the two calls.
LEMMA CountingKeeps ==
  ASSUME InvitesInv, NEW th \in Threads, CountingStep(th), UNCHANGED <<inviteVars, abuseVars>> PROVE InvitesInv'
  <1>1. PICK x \in {"isBlocked", "findKey", "insertKey"} : AtStep(th, x)
    BY DEF CountingStep, IsBlockedKey, FindKey, InsertKey
  <1>2. PICK w \in Ways : \E i \in 1..Ends(w) : pc[th] = Rest(w, i) /\ At(th, w, i) /\ Route(w)[i] = x
    BY <1>1, Starts
  <1>3. PICK i \in 1..Ends(w) : pc[th] = Rest(w, i) /\ At(th, w, i) /\ Route(w)[i] = x
    BY <1>2
  <1>4. /\ w \in {"create", "join"} /\ i \in 1..3 /\ 3 # Ends(w) /\ {2, 3, 4} \subseteq 1..Ends(w)
        /\ (x = "isBlocked" => i = 1) /\ (x = "findKey" => i = 2) /\ (x = "insertKey" => i = 3)
        /\ \A j \in {2, 3, 4} : Route(w)[j] \notin {"addUser", "uploadInvite"}
    BY <1>3, CountingPlaces
  <1>5. \A j \in {2, 3, 4} : At(th, w, j)
    BY <1>3, <1>4 DEF At
  <1>6. UNCHANGED <<server_invites, admitted, members, jo, abuseVars, miscounted, InviteCodeToServerId, invite_faults>>
    BY DEF inviteVars, inviteTables
  <1>7. /\ InviteCodeToServerId' \subseteq Codes /\ invite_faults' \in 0..MaxInviteFaults
        /\ miscounted' \in BOOLEAN /\ (~miscounted' => ~miscounted) /\ AbuseInv' /\ UNCHANGED now
    BY <1>6, CacheStays, FaultCounted, CountStays, AbuseStays
  <1>8. ASSUME NEW j \in {2, 3, 4}, pc' = [pc EXCEPT ![th] = Rest(w, j)], LimitsTypeOK' PROVE InvitesInv'
    BY <1>4, <1>5, <1>6, <1>7, <1>8, Stays
  <1>9. ASSUME NEW n \in Nat, Record(th, n) PROVE LimitsTypeOK'
    <2>1. Op(th) \in {"createInvite", "joinInvite"}
      BY <1>3, <1>4, Reads, RouteIs
    <2>2. LimitOf(th) \in Limits
      BY <2>1, LimitNames DEF LimitOf, CountedBy
    <2>3. PICK l \in Limits : l = LimitOf(th)
      BY <2>2
    <2>4. PICK k \in Keys : k = key[th]
      BY Tables
    <2>5. RateLimitMap' \in [Limits -> [Keys -> Nat]] /\ counted' \in [Limits -> [Keys -> Nat]]
      BY <1>9, <2>3, <2>4, Recorded DEF Record, InvitesInv
    <2> QED BY <1>9, <2>5 DEF Record, InvitesInv, LimitsTypeOK
  <1>10. CASE IsBlockedKey(th)
    BY <1>1, <1>3, <1>4, <1>6, <1>7, <1>8, <1>10, LimitsStay, GivesUp, Goes DEF IsBlockedKey,
       AtStep, AdvanceIf
  <1>11. ASSUME NEW l \in Limits, l = LimitOf(th) PROVE RateLimitMap[l][key[th]] + 1 \in Nat
    BY Tables DEF InvitesInv, LimitsTypeOK
  <1>12. LimitOf(th) \in Limits
    BY <1>3, <1>4, Reads, RouteIs, LimitNames DEF LimitOf, CountedBy
  <1>13. RateLimitMap[LimitOf(th)][key[th]] + 1 \in Nat
    BY <1>11, <1>12
  <1>14. CASE FindKey(th)
    <2>1. x = "findKey" /\ i = 2
      BY <1>1, <1>4, <1>14 DEF FindKey, AtStep
    <2>2. CASE RateLimitMap[LimitOf(th)][key[th]] > 0
      <3>1. LimitsTypeOK' /\ pc' = [pc EXCEPT ![th] = Tail(Tail(@))]
        BY <2>2, <1>14, <1>9, <1>13 DEF FindKey
      <3>2. Tail(Rest(w, 2)) = Rest(w, 3) /\ Tail(Rest(w, 3)) = Rest(w, 4)
        BY <1>4, AllPlaces, TailOfRest
      <3>3. pc' = [pc EXCEPT ![th] = Rest(w, 4)]
        BY <3>1, <3>2, <2>1, <1>3
      <3> QED BY <3>1, <3>3, <1>8
    <2>3. CASE ~(RateLimitMap[LimitOf(th)][key[th]] > 0)
      BY <1>3, <1>4, <1>8, <1>14, <2>1, <2>3, AllPlaces, Goes, LimitsStay DEF FindKey
    <2> QED BY <2>2, <2>3
  <1>15. CASE InsertKey(th)
    BY <1>1, <1>3, <1>4, <1>8, <1>9, <1>13, <1>15, Goes DEF InsertKey, AtStep
  <1> QED BY <1>10, <1>14, <1>15 DEF CountingStep

LEMMA BannedKeeps == ASSUME InvitesInv, NEW th \in Threads, RefuseBanned(th) PROVE InvitesInv'
  <1>1. PICK w \in Ways : \E i \in 1..Ends(w) : pc[th] = Rest(w, i) /\ At(th, w, i) /\ Route(w)[i] = "isBanned"
    BY Starts DEF RefuseBanned
  <1>2. PICK i \in 1..Ends(w) : pc[th] = Rest(w, i) /\ At(th, w, i) /\ Route(w)[i] = "isBanned"
    BY <1>1
  <1>3. w = "join" /\ i = 4
    BY <1>2, JoinOnly
  <1>4. UNCHANGED <<server_invites, admitted, members, jo, limitVars, abuseVars, miscounted, InviteCodeToServerId, invite_faults>>
    BY DEF RefuseBanned, inviteVars, inviteTables, Aside
  <1>5. /\ InviteCodeToServerId' \subseteq Codes /\ invite_faults' \in 0..MaxInviteFaults
        /\ miscounted' \in BOOLEAN /\ (~miscounted' => ~miscounted) /\ LimitsTypeOK' /\ AbuseInv' /\ UNCHANGED now
    BY <1>4, CacheStays, FaultCounted, CountStays, LimitsStay, AbuseStays
  <1>6. CASE Return(th)
    BY <1>2, <1>3, <1>4, <1>5, <1>6, GivesUp
  <1>7. CASE Advance(th)
    <2>1. i # Ends(w) /\ i + 1 = 5 /\ Route(w)[5] \notin {"addUser", "uploadInvite"} /\ At(th, w, 5)
      BY <1>2, <1>3, JoinRoute DEF At
    <2>2. pc' = [pc EXCEPT ![th] = Rest(w, 5)] /\ 5 \in 1..Ends(w)
      BY <1>2, <1>7, <2>1, Goes
    <2> QED BY <1>4, <1>5, <2>1, <2>2, Stays
  <1> QED BY <1>6, <1>7 DEF RefuseBanned, AdvanceIf

LEMMA CodeInHand ==
  ASSUME InvitesInv, NEW th \in Threads
  PROVE  /\ jo[th] \in CallRecord /\ jo[th].code \in {0} \cup Codes /\ \A k \in DOMAIN jo[th].page : jo[th].page[k] \in Codes
  BY DEF InvitesInv, TablesOK

LEMMA LookUpKeeps == ASSUME InvitesInv, NEW th \in Threads, LookUpCode(th) PROVE InvitesInv'
  <1>1. PICK w \in Ways : \E i \in 1..Ends(w) : pc[th] = Rest(w, i) /\ At(th, w, i) /\ Route(w)[i] = "lookUp"
    BY Starts DEF LookUpCode
  <1>2. PICK i \in 1..Ends(w) : pc[th] = Rest(w, i) /\ At(th, w, i) /\ Route(w)[i] = "lookUp"
    BY <1>1
  <1>3. w = "join" /\ i = 5
    BY <1>2, JoinOnly
  <1>4. /\ UNCHANGED <<server_invites, admitted, members, limitVars, abuseVars, miscounted, InviteCodeToServerId, invite_faults>>
        /\ Advance(th) /\ jo' = [jo EXCEPT ![th].cached = jo[th].code \in InviteCodeToServerId]
    BY DEF LookUpCode, inviteTables, Aside, NoInviteFault
  <1>5. /\ InviteCodeToServerId' \subseteq Codes /\ invite_faults' \in 0..MaxInviteFaults
        /\ miscounted' \in BOOLEAN /\ (~miscounted' => ~miscounted) /\ LimitsTypeOK' /\ AbuseInv' /\ UNCHANGED now
    BY <1>4, CacheStays, FaultCounted, CountStays, LimitsStay, AbuseStays
  <1>6. PICK b \in BOOLEAN : jo' = [jo EXCEPT ![th].cached = b]
    <2>1. CASE jo[th].code \in InviteCodeToServerId
      BY <1>4, <2>1
    <2>2. CASE jo[th].code \notin InviteCodeToServerId
      <3>1. (jo[th].code \in InviteCodeToServerId) = FALSE
        BY <2>2
      <3>2. jo' = [jo EXCEPT ![th].cached = FALSE]
        BY <3>1, <1>4, Zenon
      <3> QED BY <3>2
    <2> QED BY <2>1, <2>2
  <1>7. PICK q \in CallRecord : q = jo[th]
    BY Tables
  <1>8. PICK r : r = [q EXCEPT !.cached = b]
    OBVIOUS
  <1>9. r \in CallRecord
    BY <1>8 DEF CallRecord
  <1>10. r.code = q.code /\ r.page = q.page /\ r.user = q.user /\ r.dead = q.dead
    BY <1>8 DEF CallRecord
  <1>11. jo' = [jo EXCEPT ![th] = r] /\ jo'[th] = r
    BY <1>6, <1>7, <1>8 DEF InvitesInv, TablesOK
  <1>12. r.code \in {0} \cup Codes /\ \A k \in DOMAIN r.page : r.page[k] \in Codes
    BY <1>7, <1>10, CodeInHand
  <1>13. i # Ends(w) /\ i + 1 = 6 /\ Route(w)[6] \notin {"addUser", "uploadInvite"}
    BY <1>3, JoinRoute
  <1>14. pc' = [pc EXCEPT ![th] = Rest(w, 6)] /\ 6 \in 1..Ends(w)
    BY <1>2, <1>4, <1>13, Goes
  <1>15. At(th, w, 6)'
    BY <1>2, <1>3, <1>4, <1>5, <1>7, <1>10, <1>11 DEF Usable, Live, Expired, At
  <1> QED BY <1>4, <1>5, <1>9, <1>11, <1>12, <1>13, <1>14, <1>15, Moves

LEMMA CacheKeeps == ASSUME InvitesInv, NEW th \in Threads, CacheInvite(th) PROVE InvitesInv'
  <1>1. PICK w \in Ways : \E i \in 1..Ends(w) : pc[th] = Rest(w, i) /\ At(th, w, i) /\ Route(w)[i] = "cacheInvite"
    BY Starts DEF CacheInvite
  <1>2. PICK i \in 1..Ends(w) : pc[th] = Rest(w, i) /\ At(th, w, i) /\ Route(w)[i] = "cacheInvite"
    BY <1>1
  <1>3. w = "create" /\ i = 7
    BY <1>2, CreateOnly
  <1>4. /\ UNCHANGED <<server_invites, admitted, members, jo, limitVars, abuseVars, miscounted, invite_faults>>
        /\ Advance(th) /\ InviteCodeToServerId' = InviteCodeToServerId \cup {jo[th].code}
    BY DEF CacheInvite, inviteTables, Aside, NoInviteFault
  <1>5. InviteCodeToServerId' \subseteq Codes
    BY <1>2, <1>3, <1>4 DEF At, InvitesInv, TablesOK
  <1>6. /\ invite_faults' \in 0..MaxInviteFaults
        /\ miscounted' \in BOOLEAN /\ (~miscounted' => ~miscounted) /\ LimitsTypeOK' /\ AbuseInv' /\ UNCHANGED now
    BY <1>4, FaultCounted, CountStays, LimitsStay, AbuseStays
  <1>7. i # Ends(w) /\ i + 1 = 8 /\ Route(w)[8] \notin {"addUser", "uploadInvite"} /\ At(th, w, 8)
    BY <1>2, <1>3, CreateRoute DEF At
  <1>8. pc' = [pc EXCEPT ![th] = Rest(w, 8)] /\ 8 \in 1..Ends(w)
    BY <1>2, <1>4, <1>7, Goes
  <1> QED BY <1>4, <1>5, <1>6, <1>7, <1>8, Stays

LEMMA ForgetKeeps == ASSUME InvitesInv, NEW th \in Threads, ForgetCode(th) PROVE InvitesInv'
  <1>1. PICK x \in {"forgetCode", "uncacheInvite"} : AtStep(th, x)
    BY DEF ForgetCode
  <1>2. PICK w \in Ways : \E i \in 1..Ends(w) : pc[th] = Rest(w, i) /\ At(th, w, i) /\ Route(w)[i] = x
    BY <1>1, Starts
  <1>3. PICK i \in 1..Ends(w) : pc[th] = Rest(w, i) /\ At(th, w, i) /\ Route(w)[i] = x
    BY <1>2
  <1>4. (w = "reject" /\ i = 1) \/ (w = "delete" /\ i = 3)
    BY <1>3, OtherPlaces
  <1>5. /\ UNCHANGED <<server_invites, admitted, members, jo, limitVars, abuseVars, miscounted, invite_faults>>
        /\ Advance(th) /\ InviteCodeToServerId' = InviteCodeToServerId \ {jo[th].code}
    BY DEF ForgetCode, inviteTables, Aside, NoInviteFault
  <1>6. /\ invite_faults' \in 0..MaxInviteFaults /\ InviteCodeToServerId' \subseteq Codes
        /\ miscounted' \in BOOLEAN /\ (~miscounted' => ~miscounted) /\ LimitsTypeOK' /\ AbuseInv' /\ UNCHANGED now
    BY <1>5, FaultCounted, CountStays, LimitsStay, AbuseStays DEF InvitesInv, TablesOK
  <1>7. i # Ends(w) /\ Route(w)[i + 1] \notin {"addUser", "uploadInvite"} /\ At(th, w, i + 1)
    BY <1>3, <1>4, RejectRoute, DeleteRoute DEF At
  <1>8. pc' = [pc EXCEPT ![th] = Rest(w, i + 1)] /\ i + 1 \in 1..Ends(w)
    BY <1>3, <1>5, <1>7, Goes
  <1> QED BY <1>5, <1>6, <1>7, <1>8, Stays

\* A step on the record of failures.
LEMMA RecordKeeps == ASSUME InvitesInv, NEW th \in Threads, RecordAbuse(th) \/ ClearAbuse(th) PROVE InvitesInv'
  <1>1. PICK x \in {"addAbuse", "clearAbuse"} : AtStep(th, x)
    BY DEF RecordAbuse, ClearAbuse
  <1>2. PICK w \in Ways : \E i \in 1..Ends(w) : pc[th] = Rest(w, i) /\ At(th, w, i) /\ Route(w)[i] = x
    BY <1>1, Starts
  <1>3. PICK i \in 1..Ends(w) : pc[th] = Rest(w, i) /\ At(th, w, i) /\ Route(w)[i] = x
    BY <1>2
  <1>4. (w = "reject" /\ i = 2) \/ (w = "join" /\ i = 8)
    BY <1>3, OtherPlaces, JoinOnly
  <1>5. /\ UNCHANGED <<server_invites, admitted, members, jo, limitVars, miscounted, invite_faults, InviteCodeToServerId>>
        /\ Advance(th) /\ (AddInviteAbuseAttempt(key[th]) \/ ClearInviteAbuseForIp(key[th]))
    BY DEF RecordAbuse, ClearAbuse, inviteTables, inviteVars
  <1>6. PICK a \in Addresses : a = key[th]
    BY Tables
  <1>7. AbuseInv' /\ UNCHANGED now
    BY <1>5, <1>6, FailureAdded, FailuresCleared DEF AddInviteAbuseAttempt, ClearInviteAbuseForIp,
       InvitesInv
  <1>8. /\ invite_faults' \in 0..MaxInviteFaults /\ InviteCodeToServerId' \subseteq Codes
        /\ miscounted' \in BOOLEAN /\ (~miscounted' => ~miscounted) /\ LimitsTypeOK'
    BY <1>5, FaultCounted, CountStays, LimitsStay, CacheStays
  <1>9. i # Ends(w) /\ Route(w)[i + 1] \notin {"addUser", "uploadInvite"} /\ At(th, w, i + 1)
    BY <1>3, <1>4, RejectRoute, JoinRoute DEF At
  <1>10. pc' = [pc EXCEPT ![th] = Rest(w, i + 1)] /\ i + 1 \in 1..Ends(w)
    BY <1>3, <1>5, <1>9, Goes
  <1> QED BY <1>5, <1>7, <1>8, <1>9, <1>10, Stays

\* A call ends.
LEMMA IdleCall == NoInviteCall.code = 0 /\ NoInviteCall.page = <<>> /\ NoInviteCall \in CallRecord
  BY DEF NoInviteCall, CallRecord

LEMMA ReplyKeeps == ASSUME InvitesInv, NEW th \in Threads, InviteReply(th) PROVE InvitesInv'
  <1>1. /\ pc' = [pc EXCEPT ![th] = <<>>] /\ jo' = [jo EXCEPT ![th] = NoInviteCall]
        /\ UNCHANGED <<server_invites, admitted, members, limitVars, abuseVars, miscounted, invite_faults, InviteCodeToServerId>>
    BY DEF InviteReply, Finish, inviteTables
  <1>2. /\ invite_faults' \in 0..MaxInviteFaults /\ InviteCodeToServerId' \subseteq Codes
        /\ miscounted' \in BOOLEAN /\ (~miscounted' => ~miscounted) /\ LimitsTypeOK' /\ AbuseInv' /\ UNCHANGED now
    BY <1>1, FaultCounted, CountStays, LimitsStay, AbuseStays, CacheStays
  <1>3. ThreadOK(th)'
    BY <1>1 DEF ThreadOK, InvitesInv, TablesOK
  <1>4. <<>> \in Seq(StepNames)
    OBVIOUS
  <1>5. \A k \in DOMAIN NoInviteCall.page : NoInviteCall.page[k] \in Codes
    BY IdleCall
  <1>6. <<>> = <<>> \/ Head(<<>>) \notin {"addUser", "uploadInvite"}
    OBVIOUS
  <1> QED BY <1>1, <1>2, <1>3, <1>4, <1>5, <1>6, IdleCall, LocalStep

LEMMA CountListedKeeps == ASSUME InvitesInv, NEW th \in Threads, CountListed(th) PROVE InvitesInv'
  <1>1. PICK w \in Ways : \E i \in 1..Ends(w) : pc[th] = Rest(w, i) /\ At(th, w, i) /\ Route(w)[i] = "countListed"
    BY Starts DEF CountListed
  <1>2. PICK i \in 1..Ends(w) : pc[th] = Rest(w, i) /\ At(th, w, i) /\ Route(w)[i] = "countListed"
    BY <1>1
  <1>3. w = "list" /\ i = 2
    BY <1>2, OtherPlaces
  <1>4. PICK q \in CallRecord : q = jo[th]
    BY Tables
  <1>5. PICK n : n = Cardinality(InvitesOf(jo[th].server))
    OBVIOUS
  <1>6. /\ UNCHANGED <<server_invites, admitted, members, limitVars, abuseVars, miscounted, InviteCodeToServerId, invite_faults>>
        /\ jo' = [jo EXCEPT ![th].total = n, ![th].stale = FALSE]
    BY <1>5 DEF CountListed, inviteTables, Aside, NoInviteFault
  <1>7. /\ InviteCodeToServerId' \subseteq Codes /\ invite_faults' \in 0..MaxInviteFaults
        /\ miscounted' \in BOOLEAN /\ (~miscounted' => ~miscounted) /\ LimitsTypeOK' /\ AbuseInv' /\ UNCHANGED now
    BY <1>6, CacheStays, FaultCounted, CountStays, LimitsStay, AbuseStays
  <1>8. PICK r : r = [q EXCEPT !.total = n, !.stale = FALSE]
    OBVIOUS
  <1>9. n \in Nat
    BY <1>5, Tables, FS_Subset, FS_CardinalityType DEF InvitesOf
  <1>10. r \in CallRecord
    BY <1>8, <1>9 DEF CallRecord
  <1>11. r.code = q.code /\ r.page = q.page /\ r.server = q.server /\ r.total = n
    BY <1>8 DEF CallRecord
  <1>12. jo' = [jo EXCEPT ![th] = r] /\ jo'[th] = r
    BY <1>4, <1>6, <1>8 DEF InvitesInv, TablesOK
  <1>13. r.code \in {0} \cup Codes /\ \A k \in DOMAIN r.page : r.page[k] \in Codes
    BY <1>4, <1>11, CodeInHand
  <1>14. \A j \in {3, 4} : At(th, w, j)'
    <2>1. q.server \in Servers /\ q.page = <<>>
      BY <1>2, <1>3, <1>4 DEF At
    <2>2. jo'[th].server = q.server /\ jo'[th].page = <<>> /\ jo'[th].total = n
      BY <2>1, <1>11, <1>12
    <2>3. jo'[th].total = Cardinality(InvitesOf(jo[th].server))'
      BY <1>4, <1>5, <1>6, <1>7, <2>2, SameTable
    <2>4. Len(jo'[th].page) = 0 /\ \A k \in DOMAIN jo'[th].page : FALSE
      BY <2>2
    <2> QED BY <1>3, <2>1, <2>2, <2>3, <2>4 DEF At
  <1>15. Ends(w) = 4 /\ Route(w)[3] = "selectListed" /\ Route(w)[4] = "listInvites"
    BY <1>3, ListRoute
  <1>16. \E j \in {3, 4} : pc' = [pc EXCEPT ![th] = Rest(w, j)]
    BY <1>2, <1>3, <1>15, Goes DEF CountListed, AdvanceIf
  <1>17. PICK j \in {3, 4} : pc' = [pc EXCEPT ![th] = Rest(w, j)]
    BY <1>16
  <1>18. j \in 1..Ends(w) /\ Route(w)[j] \notin {"addUser", "uploadInvite"}
    BY <1>15
  <1> QED BY <1>6, <1>7, <1>10, <1>12, <1>13, <1>14, <1>17, <1>18, Moves

LEMMA ListKeeps == ASSUME InvitesInv, NEW th \in Threads, ListInvitesFromDB(th) PROVE InvitesInv'
  <1>1. PICK w \in Ways : \E i \in 1..Ends(w) : pc[th] = Rest(w, i) /\ At(th, w, i) /\ Route(w)[i] = "selectListed"
    BY Starts DEF ListInvitesFromDB
  <1>2. PICK i \in 1..Ends(w) : pc[th] = Rest(w, i) /\ At(th, w, i) /\ Route(w)[i] = "selectListed"
    BY <1>1
  <1>3. w = "list" /\ i = 3
    BY <1>2, OtherPlaces
  <1>4. PICK q \in CallRecord : q = jo[th]
    BY Tables
  <1>5. PICK found : found = InvitesOf(jo[th].server)
    OBVIOUS
  <1>6. PICK page \in [1..Cardinality(found) -> found] : jo' = [jo EXCEPT ![th].page = page]
    BY <1>5 DEF ListInvitesFromDB
  <1>7. /\ UNCHANGED <<server_invites, admitted, members, limitVars, abuseVars, miscounted, InviteCodeToServerId, invite_faults>>
        /\ Advance(th)
    BY DEF ListInvitesFromDB, inviteTables, Aside, NoInviteFault
  <1>8. /\ InviteCodeToServerId' \subseteq Codes /\ invite_faults' \in 0..MaxInviteFaults
        /\ miscounted' \in BOOLEAN /\ (~miscounted' => ~miscounted) /\ LimitsTypeOK' /\ AbuseInv' /\ UNCHANGED now
    BY <1>7, CacheStays, FaultCounted, CountStays, LimitsStay, AbuseStays
  <1>9. found \subseteq Codes /\ Cardinality(found) \in Nat /\ \A c \in found : server_invites[c].server = q.server
    BY <1>4, <1>5, Tables, FS_Subset, FS_CardinalityType DEF InvitesOf
  <1>10. page \in Seq(Nat) /\ Len(page) = Cardinality(found) /\ DOMAIN page = 1..Cardinality(found)
         /\ \A k \in DOMAIN page : page[k] \in Codes /\ server_invites[page[k]].server = q.server
    <2>1. Codes \subseteq Nat
      BY Tables
    <2>2. page \in [1..Cardinality(found) -> Nat]
      BY <2>1, <1>9
    <2> QED BY <2>2, <1>9
  <1>11. PICK r : r = [q EXCEPT !.page = page]
    OBVIOUS
  <1>12. r \in CallRecord
    BY <1>10, <1>11 DEF CallRecord
  <1>13. r.code = q.code /\ r.page = page /\ r.server = q.server /\ r.total = q.total /\ r.stale = q.stale
    BY <1>11 DEF CallRecord
  <1>14. jo' = [jo EXCEPT ![th] = r] /\ jo'[th] = r
    BY <1>4, <1>6, <1>11 DEF InvitesInv, TablesOK
  <1>15. r.code \in {0} \cup Codes /\ \A k \in DOMAIN r.page : r.page[k] \in Codes
    BY <1>4, <1>10, <1>13, CodeInHand
  <1>16. At(th, w, 4)'
    <2>1. q.server \in Servers
      BY <1>2, <1>3, <1>4 DEF At
    <2>2. ~q.stale => q.total = Cardinality(found)
      BY <1>2, <1>3, <1>4, <1>5 DEF At
    <2>3. /\ jo'[th].server = q.server /\ jo'[th].page = page /\ jo'[th].total = q.total /\ jo'[th].stale = q.stale
          /\ server_invites' = server_invites
      BY <1>7, <1>13, <1>14
    <2>4. ~jo'[th].stale => Len(jo'[th].page) \in {0, jo'[th].total}
      BY <2>2, <2>3, <1>10
    <2>5. \A k \in DOMAIN jo'[th].page : server_invites'[jo'[th].page[k]].server = jo'[th].server
      BY <2>3, <1>10
    <2> QED BY <2>1, <2>3, <2>4, <2>5, <1>3 DEF At
  <1>17. i # Ends(w) /\ i + 1 = 4 /\ Route(w)[4] \notin {"addUser", "uploadInvite"}
    BY <1>3, ListRoute
  <1>18. pc' = [pc EXCEPT ![th] = Rest(w, 4)] /\ 4 \in 1..Ends(w)
    BY <1>2, <1>7, <1>17, Goes
  <1> QED BY <1>7, <1>8, <1>12, <1>14, <1>15, <1>16, <1>17, <1>18, Moves

(***************************************************************************)
(* Creating an invite.                                                     *)
(***************************************************************************)
\* Whoever has found room is one of the threads; the cap counts the invites there are and those
\* who have found room.
LEMMA CountKeeps == ASSUME InvitesInv, NEW th \in Threads, GetActiveInviteCountForServer(th) PROVE InvitesInv'
  <1>1. PICK w \in Ways : \E i \in 1..Ends(w) : pc[th] = Rest(w, i) /\ At(th, w, i) /\ Route(w)[i] = "countInvites"
    BY Starts DEF GetActiveInviteCountForServer
  <1>2. PICK i \in 1..Ends(w) : pc[th] = Rest(w, i) /\ At(th, w, i) /\ Route(w)[i] = "countInvites"
    BY <1>1
  <1>3. w = "create" /\ i = 5
    BY <1>2, CreateOnly
  <1>4. UNCHANGED <<server_invites, admitted, members, jo, limitVars, abuseVars, InviteCodeToServerId>>
    BY DEF GetActiveInviteCountForServer, inviteTables, Aside
  <1>5. InviteCodeToServerId' \subseteq Codes /\ LimitsTypeOK' /\ AbuseInv' /\ UNCHANGED now
    BY <1>4, CacheStays, LimitsStay, AbuseStays
  <1>6. /\ invite_faults' \in 0..MaxInviteFaults /\ miscounted' \in BOOLEAN /\ (~miscounted' => ~miscounted)
    BY FaultCounted, CountStays DEF GetActiveInviteCountForServer, NoInviteFault
  <1>7. CASE Return(th)
    BY <1>2, <1>3, <1>4, <1>5, <1>6, <1>7, GivesUp
  <1>8. CASE Advance(th) /\ (~miscounted' /\ MaxInvitesPerServer > 0 =>
                                Cardinality(ActiveInvites(jo[th].server)) < MaxInvitesPerServer)
    <2>1. i # Ends(w) /\ i + 1 = 6 /\ At(th, w, 6)
      BY <1>2, <1>3, CreateRoute DEF At
    <2>2. pc' = [pc EXCEPT ![th] = Rest(w, 6)] /\ 6 \in 1..Ends(w)
      BY <1>2, <1>8, <2>1, Goes
    <2>3. Rest(w, 6) \in Seq(StepNames) /\ Head(Rest(w, 6)) = "uploadInvite" /\ pc'[th] = Rest(w, 6)
      BY <2>2, <1>3, RestIs, CreateRoute DEF InvitesInv, TablesOK
    <2>4. (\A o \in Threads \ {th} : pc'[o] = pc[o]) /\ pc' \in [Threads -> Seq(StepNames)]
      BY <2>2, <2>3 DEF InvitesInv, TablesOK
    <2>5. Codes' = Codes
      BY <1>4 DEF Codes
    <2>6. TablesOK'
      BY <1>4, <1>5, <1>6, <2>4, <2>5 DEF InvitesInv, TablesOK
    <2>7. UsesOK'
      BY <1>4, <2>3, <2>4, UsesStay DEF Consumers, AtStep, Busy
    <2>8. CapOK'
      <3> SUFFICES ASSUME ~miscounted', MaxInvitesPerServer > 0, NEW s \in Servers
                   PROVE  Cardinality(ActiveInvites(s)') + Cardinality(Creators(s)') <= MaxInvitesPerServer + Cardinality(Threads) - 1
        BY DEF CapOK
      <3>1. ActiveInvites(s)' = ActiveInvites(s)
        BY <1>4, <1>5, SameTable
      <3>2. /\ Cardinality(ActiveInvites(s)) \in Nat /\ Cardinality(Creators(s)) \in Nat /\ IsFiniteSet(Creators(s))
            /\ Cardinality(Threads) \in Nat /\ IsFiniteSet(Threads) /\ MaxInvitesPerServer \in Nat
        BY ActiveFinite, LimitConstants, InvitesAssumption
      <3>3. CASE s = jo[th].server
        BY <1>8, <3>1, <3>2, <3>3, FS_Subset, FS_CardinalityType DEF Creators
      <3>4. CASE s # jo[th].server
        BY <1>4, <1>6, <2>4, <3>1, <3>2, <3>4, FS_Subset, FS_CardinalityType DEF Creators, AtStep,
           Busy, InvitesInv, CapOK
      <3> QED BY <3>3, <3>4
    <2>9. ThreadOK(th)'
      BY <1>3, <1>4, <2>1, <2>2, <2>3 DEF At, ThreadOK
    <2>10. \A o \in Threads : ThreadOK(o)'
      BY <2>9, <2>4, <1>4, <1>5, OthersStay
    <2> QED BY <1>5, <2>6, <2>7, <2>8, <2>10 DEF InvitesInv
  <1>9. \/ Return(th)
        \/ Advance(th) /\ (~miscounted' /\ MaxInvitesPerServer > 0 =>
                              Cardinality(ActiveInvites(jo[th].server)) < MaxInvitesPerServer)
    BY DEF GetActiveInviteCountForServer, AdvanceIf
  <1> QED BY <1>7, <1>8, <1>9

LEMMA StaleCalls ==
  ASSUME InvitesInv, NEW s
  PROVE  \A o \in Threads : \/ Stale(s)[o] = jo[o] /\ jo[o].server # s
                            \/ Stale(s)[o] = [jo[o] EXCEPT !.stale = TRUE] /\ jo[o].server = s
  BY DEF Stale

\* Another thread, when a step makes the lists of a server stale and leaves the other servers as they are.
LEMMA GoesStale ==
  ASSUME InvitesInv, NEW o \in Threads, NEW s, pc'[o] = pc[o], jo'[o] = Stale(s)[o],
         CodesKeep, \A t \in Servers \cup {0} : t # s => InvitesOf(t)' = InvitesOf(t)
  PROVE  /\ ThreadOK(o)' /\ jo'[o] \in CallRecord
         /\ jo'[o].code = jo[o].code /\ jo'[o].page = jo[o].page /\ jo'[o].server = jo[o].server
  <1>1. CallKept(o)
    BY StaleCalls DEF CallKept
  <1>2. jo[o] \in CallRecord
    BY Tables
  <1>3. jo'[o] \in CallRecord /\ jo'[o].code = jo[o].code /\ jo'[o].page = jo[o].page /\ jo'[o].server = jo[o].server
    BY <1>1, <1>2, KeptCall
  <1>4. PICK t \in Servers \cup {0} : t = jo[o].server
    BY <1>2 DEF CallRecord
  <1>5. ~jo'[o].stale => t # s
    <2>1. CASE jo'[o] = jo[o] /\ jo[o].server # s
      BY <2>1, <1>4
    <2>2. CASE jo'[o] = [jo[o] EXCEPT !.stale = TRUE]
      BY <2>2, <1>2 DEF CallRecord
    <2> QED BY <2>1, <2>2, StaleCalls
  <1>6. ~jo'[o].stale => InvitesOf(jo[o].server)' = InvitesOf(jo[o].server)
    BY <1>3, <1>4, <1>5
  <1> QED BY <1>1, <1>3, <1>6, OtherKept

LEMMA InviteIs ==
  ASSUME InvitesInv, NEW s \in Servers, NEW uses \in AskedUses, NEW lifetime \in AskedExpiry
  PROVE  /\ Invite(s, uses, lifetime) \in InviteRecord /\ Invite(s, uses, lifetime).server = s
         /\ Invite(s, uses, lifetime).current_uses = 0
  <1>1. uses \in Nat /\ lifetime \in Nat /\ InviteDefaultMaxUses \in Nat /\ InviteDefaultExpiresInSeconds \in Nat
        /\ InviteMaxExpiresInSeconds \in Nat /\ now \in Nat
    BY InvitesAssumption, Tables
  <1>2. Lifetime(lifetime) \in Nat
    BY <1>1 DEF Lifetime
  <1>3. now + Lifetime(lifetime) \in Nat /\ (IF uses = 0 THEN InviteDefaultMaxUses ELSE uses) \in Nat
    BY <1>1, <1>2
  <1> QED BY <1>3 DEF Invite, InviteRecord

\* Uses, when an invite is new.
LEMMA UsesGrow ==
  ASSUME InvitesInv, NEW n, Codes' = Codes \cup {n}, \A c : Consumers(c)' \subseteq Consumers(c),
         \A c \in Codes : admitted'[c] = admitted[c] /\ server_invites'[c] = server_invites[c],
         Consumers(n)' = {}, admitted'[n] = {}, server_invites'[n].current_uses = 0, server_invites'[n].max_uses \in Nat
  PROVE  UsesOK'
  <1>1. ASSUME NEW c \in Codes
        PROVE  /\ IsFiniteSet(admitted'[c])
               /\ Cardinality(admitted'[c]) + Cardinality(Consumers(c)') <= server_invites'[c].current_uses
               /\ server_invites'[c].current_uses <= server_invites'[c].max_uses
    <2>1. /\ IsFiniteSet(admitted[c])
          /\ Cardinality(admitted[c]) + Cardinality(Consumers(c)) <= server_invites[c].current_uses
          /\ server_invites[c].current_uses <= server_invites[c].max_uses
      BY DEF InvitesInv, UsesOK
    <2>2. IsFiniteSet(Consumers(c)) /\ Consumers(c)' \subseteq Consumers(c)
      BY LimitConstants, FS_Subset DEF Consumers
    <2>3. Cardinality(Consumers(c)') <= Cardinality(Consumers(c)) /\ Cardinality(Consumers(c)') \in Nat
          /\ Cardinality(Consumers(c)) \in Nat /\ Cardinality(admitted[c]) \in Nat
      BY <2>1, <2>2, FS_Subset, FS_CardinalityType
    <2>4. server_invites[c].current_uses \in Nat
      BY Tables DEF InviteRecord
    <2>5. Cardinality(admitted[c]) + Cardinality(Consumers(c)') <= server_invites[c].current_uses
      BY <2>1, <2>3, <2>4
    <2>6. admitted'[c] = admitted[c] /\ server_invites'[c] = server_invites[c]
      OBVIOUS
    <2> QED BY <2>1, <2>5, <2>6
  <1>2. /\ IsFiniteSet(admitted'[n])
        /\ Cardinality(admitted'[n]) + Cardinality(Consumers(n)') <= server_invites'[n].current_uses
        /\ server_invites'[n].current_uses <= server_invites'[n].max_uses
    BY FS_EmptySet
  <1> QED BY <1>1, <1>2 DEF UsesOK

LEMMA Uploaded ==
  ASSUME InvitesInv, NEW th \in Threads, pc[th] = Rest("create", 6), At(th, "create", 6),
         NEW row \in InviteRecord, row.server = jo[th].server, row.current_uses = 0,
         server_invites' = Append(server_invites, row), admitted' = Append(admitted, {}),
         NEW s \in Servers, s = jo[th].server, \A o \in Threads \ {th} : jo'[o] = Stale(s)[o],
         NEW q \in CallRecord, q.code = Len(server_invites) + 1, q.page = jo[th].page, q.server = s, q.dead = jo[th].dead,
         jo'[th] = q, jo' = [o \in Threads |-> jo'[o]],
         pc' = [pc EXCEPT ![th] = Rest("create", 7)],
         UNCHANGED <<members, InviteCodeToServerId, limitVars, abuseVars, miscounted, invite_faults>>
  PROVE  InvitesInv'
  <1>0. PICK n : n = Len(server_invites) + 1
    OBVIOUS
  <1>1. server_invites \in Seq(InviteRecord) /\ admitted \in Seq(SUBSET Users) /\ Len(admitted) = Len(server_invites)
        /\ Len(server_invites) \in Nat
    BY DEF InvitesInv, TablesOK
  <1>2. /\ server_invites' \in Seq(InviteRecord) /\ Len(server_invites') = n
        /\ \A c \in Codes : server_invites'[c] = server_invites[c]
        /\ server_invites'[n] = row
    BY <1>0, <1>1 DEF Codes
  <1>3. /\ admitted' \in Seq(SUBSET Users) /\ Len(admitted') = n
        /\ \A c \in Codes : admitted'[c] = admitted[c]
        /\ admitted'[n] = {}
    BY <1>0, <1>1 DEF Codes
  <1>4. Codes' = Codes \cup {n} /\ n \notin Codes /\ n \in Nat
    BY <1>0, <1>1, <1>2 DEF Codes
  <1>5. LimitsTypeOK' /\ AbuseInv' /\ UNCHANGED now
    BY LimitsStay, AbuseStays
  <1>6. s \in Servers /\ s = jo[th].server
    OBVIOUS
  <1>7. \A c \in Codes : (Live(c)' <=> Live(c)) /\ (Expired(c)' <=> Expired(c)) /\ (Usable(c)' <=> Usable(c))
    BY <1>2, <1>5 DEF Live, Expired, Usable
  <1>8. CodesKeep
    BY <1>2, <1>4, <1>7 DEF CodesKeep
  <1>9. \A t \in Servers \cup {0} : t # s => InvitesOf(t)' = InvitesOf(t)
    <2>1. server_invites'[n].server = s
      BY <1>2, <1>6
    <2> QED BY <2>1, <1>2, <1>4, <1>7 DEF InvitesOf
  <1>10. \A t \in Servers : ActiveInvites(t)' \subseteq ActiveInvites(t) \cup (IF t = s THEN {n} ELSE {})
    <2>1. server_invites'[n].server = s
      BY <1>2, <1>6
    <2> QED BY <2>1, <1>2, <1>4, <1>7 DEF ActiveInvites
  <1>11. /\ pc'[th] = Rest("create", 7) /\ (\A o \in Threads \ {th} : pc'[o] = pc[o])
         /\ pc' \in [Threads -> Seq(StepNames)] /\ Head(pc'[th]) = "cacheInvite" /\ Head(pc[th]) = "uploadInvite" /\ pc[th] # <<>>
    <2>1. 7 \in 1..Ends("create") /\ 6 \in 1..Ends("create") /\ "create" \in Ways
      BY CreateRoute DEF Ways
    <2>2. Rest("create", 7) \in Seq(StepNames) /\ Head(Rest("create", 7)) = Route("create")[7]
      BY <2>1, RestIs
    <2>3. Rest("create", 6) # <<>> /\ Head(Rest("create", 6)) = Route("create")[6]
      BY <2>1, RestIs
    <2>4. Route("create")[6] = "uploadInvite" /\ Route("create")[7] = "cacheInvite"
      BY CreateRoute
    <2>5. /\ pc'[th] = Rest("create", 7) /\ (\A o \in Threads \ {th} : pc'[o] = pc[o])
          /\ pc' \in [Threads -> Seq(StepNames)]
      BY <2>2 DEF InvitesInv, TablesOK
    <2> QED BY <2>2, <2>3, <2>4, <2>5
  <1>12. \A o \in Threads \ {th} : pc'[o] = pc[o] /\ jo'[o] = Stale(s)[o]
    BY <1>11
  <1>13. \A o \in Threads \ {th} : /\ ThreadOK(o)' /\ jo'[o] \in CallRecord
                                   /\ jo'[o].code = jo[o].code /\ jo'[o].page = jo[o].page /\ jo'[o].server = jo[o].server
    BY <1>8, <1>9, <1>12, GoesStale
  <1>14. /\ jo'[th] \in CallRecord /\ jo'[th].code = n /\ jo'[th].page = jo[th].page /\ jo'[th].server = s
         /\ jo'[th].dead = jo[th].dead
    BY <1>0
  <1>15. TablesOK'
    <2>1. jo' \in [Threads -> CallRecord]
      BY <1>13, <1>14
    <2>2. \A o \in Threads : jo'[o].code \in {0} \cup Codes' /\ \A k \in DOMAIN jo'[o].page : jo'[o].page[k] \in Codes'
      BY <1>4, <1>13, <1>14, CodeInHand
    <2>3. InviteCodeToServerId' \subseteq Codes' /\ members' \subseteq Users \X Servers
          /\ miscounted' \in BOOLEAN /\ invite_faults' \in 0..MaxInviteFaults
      BY <1>4 DEF InvitesInv, TablesOK
    <2> QED BY <1>2, <1>3, <1>11, <2>1, <2>2, <2>3 DEF TablesOK
  <1>16. UsesOK'
    <2>1. \A c : Consumers(c)' \subseteq Consumers(c)
      BY <1>11, <1>13 DEF Consumers, AtStep, Busy
    <2>2. \A o \in Threads \ {th} : jo'[o].code # n
      BY <1>0, <1>1, <1>4, <1>13, CodeInHand
    <2>3. ~AtStep(th, "addUser")'
      BY <1>11 DEF AtStep, Busy
    <2>4. Consumers(n)' = {}
      BY <2>2, <2>3 DEF Consumers
    <2>5. admitted'[n] = {} /\ server_invites'[n].current_uses = 0 /\ server_invites'[n].max_uses \in Nat
      BY <1>2, <1>3 DEF InviteRecord
    <2> QED BY <2>1, <2>4, <2>5, <1>2, <1>3, <1>4, UsesGrow
  <1>17. CapOK'
    <2> SUFFICES ASSUME ~miscounted', MaxInvitesPerServer > 0, NEW t \in Servers
                 PROVE  Cardinality(ActiveInvites(t)') + Cardinality(Creators(t)') <= MaxInvitesPerServer + Cardinality(Threads) - 1
      BY DEF CapOK
    <2>1. Cardinality(ActiveInvites(t)) + Cardinality(Creators(t)) <= MaxInvitesPerServer + Cardinality(Threads) - 1
      BY DEF InvitesInv, CapOK
    <2>2. /\ IsFiniteSet(ActiveInvites(t)) /\ Cardinality(ActiveInvites(t)) \in Nat
          /\ IsFiniteSet(Creators(t)) /\ Cardinality(Creators(t)) \in Nat /\ Cardinality(Threads) \in Nat
          /\ MaxInvitesPerServer \in Nat
      BY ActiveFinite, InvitesAssumption
    <2>3. Creators(t)' \subseteq Creators(t) \ {th}
      BY <1>11, <1>13 DEF Creators, AtStep, Busy
    <2>4. CASE t = s
      <3>1. th \in Creators(t)
        BY <2>4, <1>6, <1>11 DEF Creators, AtStep, Busy
      <3>2. Cardinality(Creators(t) \ {th}) = Cardinality(Creators(t)) - 1 /\ IsFiniteSet(Creators(t) \ {th})
        BY <3>1, <2>2, FS_RemoveElement
      <3>3. Cardinality(Creators(t)') <= Cardinality(Creators(t)) - 1 /\ Cardinality(Creators(t)') \in Nat
        BY <3>2, <2>3, FS_Subset, FS_CardinalityType
      <3>4. ActiveInvites(t)' \subseteq ActiveInvites(t) \cup {n}
        BY <2>4, <1>10
      <3>5. IsFiniteSet(ActiveInvites(t) \cup {n}) /\ Cardinality(ActiveInvites(t) \cup {n}) <= Cardinality(ActiveInvites(t)) + 1
            /\ Cardinality(ActiveInvites(t) \cup {n}) \in Nat
        <4>1. PICK A : A = ActiveInvites(t)
          OBVIOUS
        <4>2. IsFiniteSet(A) /\ Cardinality(A) \in Nat
          BY <2>2, <4>1
        <4>3. /\ IsFiniteSet(A \cup {n})
              /\ Cardinality(A \cup {n}) = Cardinality(A) \/ Cardinality(A \cup {n}) = Cardinality(A) + 1
          BY <4>2, FS_AddElement
        <4> QED BY <4>1, <4>2, <4>3, FS_CardinalityType
      <3>6. Cardinality(ActiveInvites(t)') <= Cardinality(ActiveInvites(t)) + 1 /\ Cardinality(ActiveInvites(t)') \in Nat
        BY <3>4, <3>5, <2>2, FS_Subset, FS_CardinalityType
      <3> QED BY <2>1, <2>2, <3>3, <3>6
    <2>5. CASE t # s
      <3>1. ActiveInvites(t)' \subseteq ActiveInvites(t)
        BY <2>5, <1>10
      <3>2. Cardinality(Creators(t)') <= Cardinality(Creators(t)) /\ Cardinality(Creators(t)') \in Nat
        BY <2>2, <2>3, FS_Subset, FS_CardinalityType
      <3>3. Cardinality(ActiveInvites(t)') <= Cardinality(ActiveInvites(t)) /\ Cardinality(ActiveInvites(t)') \in Nat
        BY <3>1, <2>2, FS_Subset, FS_CardinalityType
      <3> QED BY <2>1, <2>2, <3>2, <3>3
    <2> QED BY <2>4, <2>5
  <1>18. ThreadOK(th)'
    <2>1. At(th, "create", 7)'
      BY <1>4, <1>6, <1>14 DEF At
    <2>2. 7 \in 1..Ends("create") /\ "create" \in Ways
      BY CreateRoute DEF Ways
    <2> QED BY <2>1, <2>2, <1>11 DEF ThreadOK
  <1> QED BY <1>5, <1>13, <1>15, <1>16, <1>17, <1>18 DEF InvitesInv

LEMMA UploadKeeps == ASSUME InvitesInv, NEW th \in Threads, UploadInviteToDB(th) PROVE InvitesInv'
  <1>1. PICK w \in Ways : \E i \in 1..Ends(w) : pc[th] = Rest(w, i) /\ At(th, w, i) /\ Route(w)[i] = "uploadInvite"
    BY Starts DEF UploadInviteToDB
  <1>2. PICK i \in 1..Ends(w) : pc[th] = Rest(w, i) /\ At(th, w, i) /\ Route(w)[i] = "uploadInvite"
    BY <1>1
  <1>3. w = "create" /\ i = 6
    BY <1>2, CreateOnly
  <1>4. UNCHANGED <<members, InviteCodeToServerId, limitVars, abuseVars>>
    BY DEF UploadInviteToDB, Aside
  <1>5. CASE InviteFault /\ Return(th) /\ UNCHANGED <<server_invites, admitted, jo, miscounted>>
    BY <1>2, <1>3, <1>4, <1>5, CacheStays, FaultCounted, CountStays, GivesUp
  <1>6. CASE /\ \E uses \in AskedUses, lifetime \in AskedExpiry :
                    server_invites' = Append(server_invites, Invite(jo[th].server, uses, lifetime))
             /\ admitted' = Append(admitted, {})
             /\ jo' = [Stale(jo[th].server) EXCEPT ![th].code = Len(server_invites')]
             /\ Advance(th)
             /\ NoInviteFault
    <2>1. PICK uses \in AskedUses, lifetime \in AskedExpiry :
              server_invites' = Append(server_invites, Invite(jo[th].server, uses, lifetime))
      BY <1>6
    <2>2. PICK s \in Servers : s = jo[th].server
      BY <1>2, <1>3 DEF At
    <2>3. PICK row : row = Invite(s, uses, lifetime)
      OBVIOUS
    <2>4. row \in InviteRecord /\ row.server = jo[th].server /\ row.current_uses = 0 /\ server_invites' = Append(server_invites, row)
      BY <2>1, <2>2, <2>3, InviteIs
    <2>5. pc' = [pc EXCEPT ![th] = Rest("create", 7)]
      <3>1. i # Ends(w)
        BY <1>3, CreateRoute
      <3>2. pc' = [pc EXCEPT ![th] = Rest(w, i + 1)]
        BY <1>2, <1>6, <3>1, Goes
      <3>3. i + 1 = 7
        BY <1>3
      <3> QED BY <1>3, <3>2, <3>3
    <2>6. PICK q0 \in CallRecord : q0 = jo[th]
      BY Tables
    <2>7. PICK n : n = Len(server_invites) + 1
      OBVIOUS
    <2>8. Len(server_invites') = n /\ n \in Nat
      BY <2>4, <2>7 DEF InvitesInv, TablesOK
    <2>9. PICK q : q = [[q0 EXCEPT !.stale = TRUE] EXCEPT !.code = n]
      OBVIOUS
    <2>10. q \in CallRecord
      BY <2>8, <2>9 DEF CallRecord
    <2>11. q.code = n /\ q.page = q0.page /\ q.server = q0.server /\ q.dead = q0.dead
      BY <2>9 DEF CallRecord
    <2>12. PICK calls : calls = Stale(s)
      OBVIOUS
    <2>13. calls = [o \in Threads |-> calls[o]] /\ calls[th] = [q0 EXCEPT !.stale = TRUE]
      BY <2>12, <2>2, <2>6 DEF Stale
    <2>14. jo' = [calls EXCEPT ![th] = q]
      BY <1>6, <2>2, <2>8, <2>9, <2>12, <2>13
    <2>15. jo'[th] = q /\ jo' = [o \in Threads |-> jo'[o]] /\ \A o \in Threads \ {th} : jo'[o] = Stale(s)[o]
      BY <2>12, <2>13, <2>14
    <2>16. UNCHANGED <<miscounted, invite_faults>> /\ admitted' = Append(admitted, {}) /\ pc[th] = Rest("create", 6)
           /\ At(th, "create", 6)
      BY <1>2, <1>3, <1>6 DEF NoInviteFault
    <2> QED BY <2>2, <2>4, <2>5, <2>6, <2>7, <2>10, <2>11, <2>15, <2>16, <1>4, Uploaded
  <1> QED BY <1>5, <1>6 DEF UploadInviteToDB

(***************************************************************************)
(* Consuming, admitting and deleting.                                      *)
(***************************************************************************)
UsesOf(c) ==
    /\ IsFiniteSet(admitted[c])
    /\ Cardinality(admitted[c]) + Cardinality(Consumers(c)) <= server_invites[c].current_uses
    /\ server_invites[c].current_uses <= server_invites[c].max_uses

LEMMA UsesNow ==
  ASSUME InvitesInv, NEW c \in Codes
  PROVE  /\ UsesOf(c) /\ IsFiniteSet(admitted[c]) /\ Cardinality(admitted[c]) \in Nat
         /\ IsFiniteSet(Consumers(c)) /\ Cardinality(Consumers(c)) \in Nat
         /\ server_invites[c].current_uses \in Nat /\ server_invites[c].max_uses \in Nat
  BY LimitConstants, FS_Subset, Tables, FS_CardinalityType DEF InvitesInv, UsesOK, UsesOf,
     Consumers, InviteRecord

\* Of a code that is not concerned.
LEMMA UsesKept ==
  ASSUME InvitesInv, NEW c \in Codes, admitted'[c] = admitted[c], Consumers(c)' \subseteq Consumers(c),
         server_invites'[c].current_uses = server_invites[c].current_uses,
         server_invites'[c].max_uses = server_invites[c].max_uses
  PROVE  UsesOf(c)'
  BY UsesNow, FS_Subset, FS_CardinalityType DEF UsesOf

\* Rows that are changed: those of one invite, whose server and end stay.
LEMMA RowChanged ==
  ASSUME InvitesInv, NEW c \in Codes, NEW row \in InviteRecord, server_invites' = [server_invites EXCEPT ![c] = row],
         UNCHANGED now,
         row.server = server_invites[c].server, row.expires_at = server_invites[c].expires_at,
         row.max_uses = server_invites[c].max_uses, row.current_uses >= server_invites[c].current_uses,
         server_invites[c].deleted => row.deleted
  PROVE  /\ server_invites' \in Seq(InviteRecord) /\ Len(server_invites') = Len(server_invites) /\ Codes' = Codes
         /\ server_invites'[c] = row /\ \A d \in Codes \ {c} : server_invites'[d] = server_invites[d]
         /\ CodesKeep
         /\ \A t : ActiveInvites(t)' \subseteq ActiveInvites(t)
         /\ \A t : t # server_invites[c].server => InvitesOf(t)' = InvitesOf(t)
         /\ (row.deleted <=> server_invites[c].deleted) => \A t : InvitesOf(t)' = InvitesOf(t)
  <1>1. /\ server_invites' \in Seq(InviteRecord) /\ Len(server_invites') = Len(server_invites)
        /\ server_invites'[c] = row /\ \A d \in Codes \ {c} : server_invites'[d] = server_invites[d]
    BY DEF InvitesInv, TablesOK, Codes
  <1>2. Codes' = Codes
    BY <1>1 DEF Codes
  <1>3. server_invites[c].current_uses \in Nat /\ server_invites[c].max_uses \in Nat /\ row.current_uses \in Nat
    BY UsesNow DEF InviteRecord
  <1>4. \A d \in Codes : /\ Live(d)' => Live(d)
                         /\ Expired(d)' <=> Expired(d)
                         /\ server_invites'[d].server = server_invites[d].server
    BY <1>1 DEF Live, Expired
  <1>5. ASSUME NEW d \in Codes PROVE Usable(d)' => Usable(d)
    BY <1>1, <1>3, <1>4 DEF Usable
  <1>6. \A t : ActiveInvites(t)' \subseteq ActiveInvites(t)
    BY <1>2, <1>4 DEF ActiveInvites
  <1>7. \A t : t # server_invites[c].server => InvitesOf(t)' = InvitesOf(t)
    BY <1>1, <1>2 DEF InvitesOf, Live
  <1>8. (row.deleted <=> server_invites[c].deleted) => \A t : InvitesOf(t)' = InvitesOf(t)
    BY <1>1, <1>2 DEF InvitesOf, Live
  <1> QED BY <1>1, <1>2, <1>4, <1>5, <1>6, <1>7, <1>8 DEF CodesKeep

LEMMA Consumed ==
  ASSUME InvitesInv, NEW th \in Threads, pc[th] = Rest("join", 6), At(th, "join", 6),
         NEW c \in Codes, c = jo[th].code, Usable(c),
         NEW row \in InviteRecord, server_invites' = [server_invites EXCEPT ![c] = row],
         row.server = server_invites[c].server, row.expires_at = server_invites[c].expires_at,
         row.max_uses = server_invites[c].max_uses, row.current_uses = server_invites[c].current_uses + 1,
         row.deleted = server_invites[c].deleted,
         NEW q \in CallRecord, jo' = [jo EXCEPT ![th] = q], q.server = row.server, q.code = c,
         q.page = jo[th].page, q.dead = jo[th].dead, q.user = jo[th].user,
         pc' = [pc EXCEPT ![th] = Rest("join", 7)],
         UNCHANGED <<members, InviteCodeToServerId, admitted, miscounted, invite_faults, limitVars, abuseVars>>
  PROVE  InvitesInv'
  <1>1. LimitsTypeOK' /\ AbuseInv' /\ UNCHANGED now
    BY LimitsStay, AbuseStays
  <1>2. server_invites[c].current_uses \in Nat /\ server_invites[c].max_uses \in Nat
        /\ server_invites[c].current_uses < server_invites[c].max_uses /\ server_invites[c].server \in Servers
    BY UsesNow, Tables DEF Usable, InviteRecord
  <1>3. row.current_uses >= server_invites[c].current_uses
    BY <1>2
  <1>4. /\ server_invites' \in Seq(InviteRecord) /\ Len(server_invites') = Len(server_invites) /\ Codes' = Codes
        /\ server_invites'[c] = row /\ \A d \in Codes \ {c} : server_invites'[d] = server_invites[d]
        /\ CodesKeep
        /\ \A t : ActiveInvites(t)' \subseteq ActiveInvites(t)
        /\ \A t : InvitesOf(t)' = InvitesOf(t)
    BY <1>1, <1>3, RowChanged
  <1>5. /\ pc'[th] = Rest("join", 7) /\ (\A o \in Threads \ {th} : pc'[o] = pc[o])
        /\ pc' \in [Threads -> Seq(StepNames)] /\ Head(pc'[th]) = "addUser" /\ 7 \in 1..Ends("join") /\ "join" \in Ways
    <2>1. 7 \in 1..Ends("join") /\ "join" \in Ways /\ Route("join")[7] = "addUser"
      BY JoinRoute DEF Ways
    <2>2. Rest("join", 7) \in Seq(StepNames) /\ Head(Rest("join", 7)) = Route("join")[7]
      BY <2>1, RestIs
    <2> QED BY <2>1, <2>2 DEF InvitesInv, TablesOK
  <1>6. jo'[th] = q /\ (\A o \in Threads \ {th} : jo'[o] = jo[o]) /\ jo' \in [Threads -> CallRecord]
    BY DEF InvitesInv, TablesOK
  <1>7. TablesOK'
    BY <1>4, <1>5, <1>6, CodeInHand DEF InvitesInv, TablesOK
  <1>8. UsesOK'
    <2>1. ASSUME NEW d \in Codes, d # c PROVE UsesOf(d)'
      BY <1>4, <1>5, <1>6, <2>1, UsesKept DEF Consumers, AtStep, Busy
    <2>2. UsesOf(c)'
      <3>1. Consumers(c)' \subseteq Consumers(c) \cup {th}
        BY <1>5, <1>6 DEF Consumers, AtStep, Busy
      <3>2. PICK C : C = Consumers(c)
        OBVIOUS
      <3>3. IsFiniteSet(C) /\ Cardinality(C) \in Nat
        BY <3>2, UsesNow
      <3>4. /\ IsFiniteSet(C \cup {th})
            /\ Cardinality(C \cup {th}) = Cardinality(C) \/ Cardinality(C \cup {th}) = Cardinality(C) + 1
        BY <3>3, FS_AddElement
      <3>5. Cardinality(Consumers(c)') <= Cardinality(C \cup {th}) /\ Cardinality(Consumers(c)') \in Nat
            /\ Cardinality(C \cup {th}) \in Nat
        BY <3>1, <3>2, <3>4, FS_Subset, FS_CardinalityType
      <3>6. Cardinality(Consumers(c)') <= Cardinality(Consumers(c)) + 1
        BY <3>2, <3>3, <3>4, <3>5
      <3>7. Cardinality(admitted[c]) + Cardinality(Consumers(c)') <= row.current_uses /\ row.current_uses <= row.max_uses
        BY <3>5, <3>6, <1>2, UsesNow DEF UsesOf
      <3> QED BY <3>7, <1>4, UsesNow DEF UsesOf
    <2> QED BY <2>1, <2>2, <1>4 DEF UsesOK, UsesOf
  <1>9. CapOK'
    BY <1>4, <1>5, <1>6, CapStays DEF Creators, AtStep, Busy
  <1>10. ASSUME NEW o \in Threads \ {th} PROVE ThreadOK(o)'
    BY <1>4, <1>5, <1>6, OtherKept DEF CallKept
  <1>11. ThreadOK(th)'
    BY <1>2, <1>4, <1>5, <1>6 DEF At, ThreadOK
  <1> QED BY <1>1, <1>7, <1>8, <1>9, <1>10, <1>11 DEF InvitesInv

LEMMA ConsumeKeeps == ASSUME InvitesInv, NEW th \in Threads, ConsumeInviteFromDB(th) PROVE InvitesInv'
  <1>1. PICK w \in Ways : \E i \in 1..Ends(w) : pc[th] = Rest(w, i) /\ At(th, w, i) /\ Route(w)[i] = "consumeInvite"
    BY Starts DEF ConsumeInviteFromDB
  <1>2. PICK i \in 1..Ends(w) : pc[th] = Rest(w, i) /\ At(th, w, i) /\ Route(w)[i] = "consumeInvite"
    BY <1>1
  <1>3. w = "join" /\ i = 6
    BY <1>2, JoinOnly
  <1>4. UNCHANGED <<members, InviteCodeToServerId, admitted, miscounted, limitVars, abuseVars>>
    BY DEF ConsumeInviteFromDB, Aside
  <1>5. /\ InviteCodeToServerId' \subseteq Codes /\ miscounted' \in BOOLEAN /\ (~miscounted' => ~miscounted)
        /\ LimitsTypeOK' /\ AbuseInv' /\ UNCHANGED now
    BY <1>4, CacheStays, CountStays, LimitsStay, AbuseStays
  <1>6. CASE Reject(th) /\ (UNCHANGED invite_faults \/ InviteFault)
    <2>1. invite_faults' \in 0..MaxInviteFaults /\ UNCHANGED <<server_invites, jo>>
      BY <1>6, FaultCounted DEF Reject
    <2>2. PICK j \in {1, 2} : pc' = [pc EXCEPT ![th] = Rest("reject", j)]
      <3>1. Rest("reject", 1) = Route("reject") /\ Rest("reject", 2) = Rejected
        BY RejectRoute, WholeRest, TailOfRest DEF Ways
      <3>2. Rejected = <<>> \o Rejected
        BY DEF Rejected
      <3>3. CASE jo[th].cached
        BY <1>6, <3>1, <3>3 DEF Reject, Route
      <3>4. CASE ~jo[th].cached
        BY <1>6, <3>1, <3>2, <3>4 DEF Reject
      <3> QED BY <3>3, <3>4
    <2>3. "reject" \in Ways /\ j \in 1..Ends("reject") /\ Route("reject")[j] \notin {"addUser", "uploadInvite"}
      BY RejectRoute DEF Ways
    <2>4. At(th, "reject", j)
      BY DEF At
    <2> QED BY <2>1, <2>2, <2>3, <2>4, <1>4, <1>5, Stays
  <1>7. CASE Usable(jo[th].code) /\ Consume(th)
    <2>1. PICK q0 \in CallRecord : q0 = jo[th]
      BY Tables
    <2>2. PICK c \in Codes : c = q0.code
      BY <1>7, <2>1, CodeInHand DEF Usable
    <2>3. PICK row0 \in InviteRecord : row0 = server_invites[c]
      BY Tables
    <2>4. PICK n \in Nat : n = row0.current_uses + 1
      BY <2>3 DEF InviteRecord
    <2>5. PICK row : row = [row0 EXCEPT !.current_uses = n]
      OBVIOUS
    <2>6. row \in InviteRecord
      BY <2>5 DEF InviteRecord
    <2>7. /\ row.current_uses = n /\ row.server = row0.server /\ row.expires_at = row0.expires_at
          /\ row.max_uses = row0.max_uses /\ row.deleted = row0.deleted
      BY <2>5 DEF InviteRecord
    <2>8. server_invites' = [server_invites EXCEPT ![c] = row]
      BY <1>7, <2>1, <2>2, <2>3, <2>4, <2>5 DEF Consume
    <2>9. PICK q : q = [q0 EXCEPT !.server = row0.server]
      OBVIOUS
    <2>10. row0.server \in Servers
      BY <2>3 DEF InviteRecord
    <2>11. q \in CallRecord
      BY <2>9, <2>10 DEF CallRecord
    <2>12. q.server = row0.server /\ q.code = q0.code /\ q.page = q0.page /\ q.dead = q0.dead /\ q.user = q0.user
      BY <2>9 DEF CallRecord
    <2>13. jo' = [jo EXCEPT ![th] = q]
      BY <1>7, <2>1, <2>2, <2>3, <2>9 DEF Consume
    <2>14. pc' = [pc EXCEPT ![th] = Rest("join", 7)]
      <3>1. i # Ends(w)
        BY <1>3, JoinRoute
      <3>2. pc' = [pc EXCEPT ![th] = Rest(w, i + 1)]
        BY <1>2, <1>7, <3>1, Goes DEF Consume
      <3>3. i + 1 = 7
        BY <1>3
      <3> QED BY <1>3, <3>2, <3>3
    <2>15. UNCHANGED invite_faults /\ pc[th] = Rest("join", 6) /\ At(th, "join", 6) /\ Usable(c)
      BY <1>2, <1>3, <1>7, <2>1, <2>2 DEF Consume
    <2>16. /\ c = jo[th].code /\ q.code = c /\ q.server = row.server /\ q.page = jo[th].page /\ q.dead = jo[th].dead
           /\ q.user = jo[th].user
      BY <2>1, <2>2, <2>7, <2>12
    <2>17. /\ row.server = server_invites[c].server /\ row.expires_at = server_invites[c].expires_at
           /\ row.max_uses = server_invites[c].max_uses /\ row.current_uses = server_invites[c].current_uses + 1
           /\ row.deleted = server_invites[c].deleted
      BY <2>3, <2>4, <2>7
    <2> QED BY <1>4, <2>6, <2>8, <2>11, <2>13, <2>14, <2>15, <2>16, <2>17, Consumed
  <1> QED BY <1>6, <1>7 DEF ConsumeInviteFromDB

\* The INSERT of a member ends a consumed use: its code has one consumer less and at most one admitted more.
LEMMA Admitted ==
  ASSUME InvitesInv, NEW th \in Threads, pc[th] = Rest("join", 7), At(th, "join", 7), Advance(th),
         NEW c \in Codes, c = jo[th].code, NEW u \in Users, NEW s \in Servers,
         members' = members \cup {<<u, s>>},
         admitted' = admitted \/ admitted' = [admitted EXCEPT ![c] = @ \cup {u}],
         UNCHANGED <<server_invites, InviteCodeToServerId, jo, miscounted, invite_faults, limitVars, abuseVars>>
  PROVE  InvitesInv'
  <1>1. LimitsTypeOK' /\ AbuseInv' /\ UNCHANGED now
    BY LimitsStay, AbuseStays
  <1>2. Codes' = Codes /\ \A t : ActiveInvites(t)' = ActiveInvites(t)
    BY <1>1, SameTable
  <1>3. "join" \in Ways /\ 7 \in 1..Ends("join") /\ 8 \in 1..Ends("join") /\ 7 # Ends("join") /\ 7 + 1 = 8
        /\ Route("join")[7] = "addUser" /\ Route("join")[8] = "clearAbuse"
    BY JoinRoute DEF Ways
  <1>4. pc' = [pc EXCEPT ![th] = Rest("join", 8)]
    BY <1>3, Goes
  <1>5. /\ pc'[th] = Rest("join", 8) /\ (\A o \in Threads \ {th} : pc'[o] = pc[o])
        /\ pc' \in [Threads -> Seq(StepNames)] /\ Head(pc'[th]) = "clearAbuse" /\ Head(pc[th]) = "addUser" /\ pc[th] # <<>>
    BY <1>3, <1>4, RestIs DEF InvitesInv, TablesOK
  <1>6. /\ admitted' \in Seq(SUBSET Users) /\ Len(admitted') = Len(admitted)
        /\ \A d \in Codes \ {c} : admitted'[d] = admitted[d]
        /\ admitted'[c] = admitted[c] \/ admitted'[c] = admitted[c] \cup {u}
    <2>1. admitted \in Seq(SUBSET Users) /\ DOMAIN admitted = Codes /\ admitted[c] \subseteq Users
      BY Tables DEF InvitesInv, TablesOK
    <2>2. PICK b \in SUBSET Users : b = admitted[c] \cup {u}
      BY <2>1
    <2>3. CASE admitted' = [admitted EXCEPT ![c] = @ \cup {u}]
      BY <2>1, <2>2, <2>3
    <2>4. CASE admitted' = admitted
      BY <2>1, <2>4
    <2> QED BY <2>3, <2>4
  <1>7. TablesOK'
    BY <1>2, <1>5, <1>6 DEF InvitesInv, TablesOK
  <1>8. UsesOK'
    <2>1. ASSUME NEW d \in Codes, d # c PROVE UsesOf(d)'
      BY <1>5, <1>6, <2>1, UsesKept DEF Consumers, AtStep, Busy
    <2>2. UsesOf(c)'
      <3>1. Consumers(c)' \subseteq Consumers(c) \ {th} /\ th \in Consumers(c)
        BY <1>5 DEF Consumers, AtStep, Busy
      <3>2. PICK C : C = Consumers(c)
        OBVIOUS
      <3>3. PICK A : A = admitted[c]
        OBVIOUS
      <3>4. IsFiniteSet(C) /\ Cardinality(C) \in Nat /\ IsFiniteSet(A) /\ Cardinality(A) \in Nat /\ th \in C
        BY <3>1, <3>2, <3>3, UsesNow
      <3>5. IsFiniteSet(C \ {th}) /\ Cardinality(C \ {th}) = Cardinality(C) - 1
        BY <3>4, FS_RemoveElement
      <3>6. Cardinality(Consumers(c)') <= Cardinality(C) - 1 /\ Cardinality(Consumers(c)') \in Nat
        BY <3>1, <3>2, <3>5, FS_Subset, FS_CardinalityType
      <3>7. /\ IsFiniteSet(A \cup {u})
            /\ Cardinality(A \cup {u}) = Cardinality(A) \/ Cardinality(A \cup {u}) = Cardinality(A) + 1
        BY <3>4, FS_AddElement
      <3>8. IsFiniteSet(admitted'[c]) /\ Cardinality(admitted'[c]) <= Cardinality(A) + 1 /\ Cardinality(admitted'[c]) \in Nat
        <4>1. CASE admitted'[c] = admitted[c]
          BY <4>1, <3>3, <3>4
        <4>2. CASE admitted'[c] = admitted[c] \cup {u}
          BY <3>3, <3>4, <3>7, <4>2
        <4> QED BY <4>1, <4>2, <1>6
      <3>9. Cardinality(A) + Cardinality(C) <= server_invites[c].current_uses
            /\ server_invites[c].current_uses <= server_invites[c].max_uses /\ server_invites[c].current_uses \in Nat
        BY <3>2, <3>3, UsesNow DEF UsesOf
      <3>10. Cardinality(admitted'[c]) + Cardinality(Consumers(c)') <= server_invites[c].current_uses
        BY <3>4, <3>6, <3>8, <3>9
      <3> QED BY <3>8, <3>9, <3>10 DEF UsesOf
    <2> QED BY <2>1, <2>2, <1>2 DEF UsesOK, UsesOf
  <1>9. CapOK'
    BY <1>2, <1>5, CapStays DEF Creators, AtStep, Busy
  <1>10. \A o \in Threads \ {th} : ThreadOK(o)'
    BY <1>1, <1>5, OthersStay
  <1>11. ThreadOK(th)'
    BY <1>1, <1>3, <1>5 DEF Usable, Live, Expired, At, ThreadOK
  <1> QED BY <1>1, <1>7, <1>8, <1>9, <1>10, <1>11 DEF InvitesInv

LEMMA AdmitKeeps == ASSUME InvitesInv, NEW th \in Threads, AddUserToServer(th) PROVE InvitesInv'
  <1>1. PICK w \in Ways : \E i \in 1..Ends(w) : pc[th] = Rest(w, i) /\ At(th, w, i) /\ Route(w)[i] = "addUser"
    BY Starts DEF AddUserToServer
  <1>2. PICK i \in 1..Ends(w) : pc[th] = Rest(w, i) /\ At(th, w, i) /\ Route(w)[i] = "addUser"
    BY <1>1
  <1>3. w = "join" /\ i = 7
    BY <1>2, JoinOnly
  <1>4. UNCHANGED <<server_invites, InviteCodeToServerId, jo, miscounted, limitVars, abuseVars>>
    BY DEF AddUserToServer, Aside
  <1>5. PICK u \in Users, s \in Servers, c \in Codes : u = jo[th].user /\ s = jo[th].server /\ c = jo[th].code
    BY <1>2, <1>3 DEF At
  <1>6. CASE InviteFault /\ Return(th) /\ UNCHANGED <<members, admitted>>
    BY <1>2, <1>3, <1>4, <1>6, CacheStays, FaultCounted, CountStays, GivesUp
  <1>7. CASE /\ members' = members \cup {<<u, s>>} /\ Advance(th) /\ UNCHANGED invite_faults
             /\ admitted' = admitted \/ admitted' = [admitted EXCEPT ![c] = @ \cup {u}]
    BY <1>2, <1>3, <1>4, <1>5, <1>7, Admitted
  <1>8. \/ /\ members' = members \cup {<<jo[th].user, jo[th].server>>} /\ Advance(th) /\ UNCHANGED invite_faults
           /\ admitted' = admitted \/ admitted' = [admitted EXCEPT ![jo[th].code] = @ \cup {jo[th].user}]
        \/ InviteFault /\ Return(th) /\ UNCHANGED <<members, admitted>>
    BY DEF AddUserToServer
  <1>9. \/ /\ members' = members \cup {<<u, s>>} /\ Advance(th) /\ UNCHANGED invite_faults
           /\ admitted' = admitted \/ admitted' = [admitted EXCEPT ![c] = @ \cup {u}]
        \/ InviteFault /\ Return(th) /\ UNCHANGED <<members, admitted>>
    BY <1>5, <1>8
  <1> QED BY <1>6, <1>7, <1>9

LEMMA Deleted ==
  ASSUME InvitesInv, NEW th \in Threads, pc[th] = Rest("delete", 2), At(th, "delete", 2), Advance(th),
         NEW c \in Codes, c = jo[th].code, NEW s \in Servers, s = jo[th].server, s = server_invites[c].server,
         NEW row \in InviteRecord, server_invites' = [server_invites EXCEPT ![c] = row],
         row.server = s, row.expires_at = server_invites[c].expires_at, row.max_uses = server_invites[c].max_uses,
         row.current_uses = server_invites[c].current_uses, row.deleted,
         \A o \in Threads : jo'[o] = Stale(s)[o], jo' = [o \in Threads |-> jo'[o]],
         UNCHANGED <<members, InviteCodeToServerId, admitted, miscounted, invite_faults, limitVars, abuseVars>>
  PROVE  InvitesInv'
  <1>1. LimitsTypeOK' /\ AbuseInv' /\ UNCHANGED now
    BY LimitsStay, AbuseStays
  <1>2. row.current_uses >= server_invites[c].current_uses
    BY UsesNow
  <1>3. /\ server_invites' \in Seq(InviteRecord) /\ Len(server_invites') = Len(server_invites) /\ Codes' = Codes
        /\ server_invites'[c] = row /\ \A d \in Codes \ {c} : server_invites'[d] = server_invites[d]
        /\ CodesKeep
        /\ \A t : ActiveInvites(t)' \subseteq ActiveInvites(t)
        /\ \A t : t # s => InvitesOf(t)' = InvitesOf(t)
    <2>1. row.server = server_invites[c].server
      OBVIOUS
    <2>2. server_invites[c].deleted => row.deleted
      OBVIOUS
    <2>3. /\ server_invites' \in Seq(InviteRecord) /\ Len(server_invites') = Len(server_invites) /\ Codes' = Codes
          /\ server_invites'[c] = row /\ \A d \in Codes \ {c} : server_invites'[d] = server_invites[d]
          /\ CodesKeep
          /\ \A t : ActiveInvites(t)' \subseteq ActiveInvites(t)
          /\ \A t : t # server_invites[c].server => InvitesOf(t)' = InvitesOf(t)
      BY <1>1, <1>2, <2>1, <2>2, RowChanged
    <2> QED BY <2>3
  <1>4. "delete" \in Ways /\ 2 \in 1..Ends("delete") /\ 3 \in 1..Ends("delete") /\ 2 # Ends("delete") /\ 2 + 1 = 3
        /\ Route("delete")[3] = "uncacheInvite"
    BY DeleteRoute DEF Ways
  <1>5. pc' = [pc EXCEPT ![th] = Rest("delete", 3)]
    BY <1>4, Goes
  <1>6. /\ pc'[th] = Rest("delete", 3) /\ (\A o \in Threads \ {th} : pc'[o] = pc[o])
        /\ pc' \in [Threads -> Seq(StepNames)] /\ Head(pc'[th]) = "uncacheInvite"
    <2>1. Rest("delete", 3) \in Seq(StepNames) /\ Head(Rest("delete", 3)) = Route("delete")[3]
      BY <1>4, RestIs
    <2> QED BY <2>1, <1>4, <1>5 DEF InvitesInv, TablesOK
  <1>7. ASSUME NEW o \in Threads
        PROVE  /\ jo'[o] \in CallRecord /\ jo'[o].code = jo[o].code /\ jo'[o].page = jo[o].page
               /\ jo'[o].server = jo[o].server
    <2>1. jo'[o] = Stale(s)[o]
      OBVIOUS
    <2>2. CallKept(o)
      BY <2>1, StaleCalls DEF CallKept
    <2> QED BY <2>2, Tables, KeptCall
  <1>8. \A o \in Threads \ {th} : ThreadOK(o)'
    <2> SUFFICES ASSUME NEW o \in Threads \ {th} PROVE ThreadOK(o)'
      OBVIOUS
    <2>1. pc'[o] = pc[o] /\ jo'[o] = Stale(s)[o] /\ o \in Threads
      BY <1>6
    <2>2. \A t \in Servers \cup {0} : t # s => InvitesOf(t)' = InvitesOf(t)
      BY <1>3
    <2> QED BY <2>1, <2>2, <1>3, GoesStale
  <1>9. TablesOK'
    BY <1>3, <1>6, <1>7, CodeInHand DEF InvitesInv, TablesOK
  <1>10. UsesOK'
    <2>1. ASSUME NEW d \in Codes PROVE UsesOf(d)'
      <3>1. Consumers(d)' \subseteq Consumers(d)
        BY <1>6, <1>7 DEF Consumers, AtStep, Busy
      <3>2. /\ server_invites'[d].current_uses = server_invites[d].current_uses
            /\ server_invites'[d].max_uses = server_invites[d].max_uses
        BY <1>3
      <3> QED BY <3>1, <3>2, UsesKept
    <2> QED BY <2>1, <1>3 DEF UsesOK, UsesOf
  <1>11. CapOK'
    BY <1>3, <1>6, <1>7, CapStays DEF Creators, AtStep, Busy
  <1>12. ThreadOK(th)'
    <2>1. At(th, "delete", 3)'
      BY <1>3, <1>7 DEF At
    <2> QED BY <2>1, <1>4, <1>6 DEF ThreadOK
  <1> QED BY <1>1, <1>8, <1>9, <1>10, <1>11, <1>12 DEF InvitesInv

LEMMA DeleteKeeps == ASSUME InvitesInv, NEW th \in Threads, DeleteInviteFromDB(th) PROVE InvitesInv'
  <1>1. PICK w \in Ways : \E i \in 1..Ends(w) : pc[th] = Rest(w, i) /\ At(th, w, i) /\ Route(w)[i] = "deleteRow"
    BY Starts DEF DeleteInviteFromDB
  <1>2. PICK i \in 1..Ends(w) : pc[th] = Rest(w, i) /\ At(th, w, i) /\ Route(w)[i] = "deleteRow"
    BY <1>1
  <1>3. w = "delete" /\ i = 2
    BY <1>2, OtherPlaces
  <1>4. UNCHANGED <<members, InviteCodeToServerId, admitted, miscounted, limitVars, abuseVars>>
    BY DEF DeleteInviteFromDB, Aside
  <1>5. PICK s \in Servers, c \in Codes : s = jo[th].server /\ c = jo[th].code
    BY <1>2, <1>3 DEF At
  <1>6. CASE (UNCHANGED invite_faults \/ InviteFault) /\ Return(th) /\ UNCHANGED <<server_invites, jo>>
    BY <1>2, <1>3, <1>4, <1>6, CacheStays, FaultCounted, CountStays, GivesUp
  <1>7. CASE /\ server_invites[c].server = s /\ server_invites' = [server_invites EXCEPT ![c].deleted = TRUE]
             /\ jo' = Stale(s) /\ Advance(th) /\ UNCHANGED invite_faults
    <2>1. PICK row0 \in InviteRecord : row0 = server_invites[c]
      BY Tables
    <2>2. PICK row : row = [row0 EXCEPT !.deleted = TRUE]
      OBVIOUS
    <2>3. row \in InviteRecord
      BY <2>2 DEF InviteRecord
    <2>4. /\ row.server = row0.server /\ row.expires_at = row0.expires_at /\ row.max_uses = row0.max_uses
          /\ row.current_uses = row0.current_uses /\ row.deleted
      BY <2>2 DEF InviteRecord
    <2>5. server_invites' = [server_invites EXCEPT ![c] = row]
      BY <1>7, <2>1, <2>2
    <2>6. (\A o \in Threads : jo'[o] = Stale(s)[o]) /\ jo' = [o \in Threads |-> jo'[o]]
      BY <1>7 DEF Stale
    <2>7. Advance(th) /\ UNCHANGED invite_faults /\ pc[th] = Rest("delete", 2) /\ At(th, "delete", 2)
      BY <1>2, <1>3, <1>7
    <2>8. /\ row.server = s /\ s = server_invites[c].server /\ row.expires_at = server_invites[c].expires_at
          /\ row.max_uses = server_invites[c].max_uses /\ row.current_uses = server_invites[c].current_uses
      BY <1>7, <2>1, <2>4
    <2> QED BY <1>4, <1>5, <2>3, <2>4, <2>5, <2>6, <2>7, <2>8, Deleted
  <1>8. \/ /\ server_invites[jo[th].code].server = jo[th].server
           /\ server_invites' = [server_invites EXCEPT ![jo[th].code].deleted = TRUE]
           /\ jo' = Stale(jo[th].server) /\ Advance(th) /\ UNCHANGED invite_faults
        \/ (UNCHANGED invite_faults \/ InviteFault) /\ Return(th) /\ UNCHANGED <<server_invites, jo>>
    BY DEF DeleteInviteFromDB
  <1> QED BY <1>5, <1>6, <1>7, <1>8

(***************************************************************************)
(* Calls that begin.                                                       *)
(***************************************************************************)
LEMMA Begins ==
  ASSUME InvitesInv, NEW th \in Threads, NEW w \in Ways, w # "reject", pc' = [pc EXCEPT ![th] = Route(w)],
         NEW r \in CallRecord, jo' = [jo EXCEPT ![th] = r], r.code \in {0} \cup Codes, r.page = <<>>,
         UNCHANGED <<inviteTables, InviteCodeToServerId, admitted, miscounted, invite_faults, abuseVars>>,
         LimitsTypeOK', At(th, w, 1)'
  PROVE  InvitesInv'
  <1>1. pc' = [pc EXCEPT ![th] = Rest(w, 1)] /\ 1 \in 1..Ends(w)
    BY WholeRest
  <1>2. UNCHANGED <<server_invites, members>>
    BY DEF inviteTables
  <1>3. /\ InviteCodeToServerId' \subseteq Codes /\ invite_faults' \in 0..MaxInviteFaults
        /\ miscounted' \in BOOLEAN /\ (~miscounted' => ~miscounted) /\ AbuseInv' /\ UNCHANGED now
    BY CacheStays, FaultCounted, CountStays, AbuseStays
  <1>4. Route(w)[1] \notin {"addUser", "uploadInvite"}
    BY CreateRoute, JoinRoute, DeleteRoute, ListRoute DEF Ways
  <1>5. \A k \in DOMAIN r.page : r.page[k] \in Codes
    OBVIOUS
  <1> QED BY <1>1, <1>2, <1>3, <1>4, <1>5, Moves

LEMMA IdleRecord == \E q \in CallRecord : q = NoInviteCall /\ q.code = 0 /\ q.page = <<>> /\ q.dead = FALSE
  BY IdleCall DEF NoInviteCall

LEMMA KeyTaken ==
  ASSUME InvitesInv, NEW th, NEW op, NEW a \in Addresses, NEW steps, Limited(th, op, a, steps)
  PROVE  LimitsTypeOK' /\ pc' = [pc EXCEPT ![th] = Append(steps, op)]
  BY InvitesAssumption DEF Limited, InvitesInv, LimitsTypeOK, Enter

LEMMA CreateKeeps ==
  ASSUME InvitesInv, NEW th \in Threads, NEW u \in Users, NEW s \in Servers, NEW a \in Addresses,
         HandleServerCreateInvite(th, u, s, a)
  PROVE  InvitesInv'
  <1>1. PICK r : r = [NoInviteCall EXCEPT !.user = u, !.server = s]
    OBVIOUS
  <1>3. r \in CallRecord /\ r.code = 0 /\ r.server = s /\ r.page = <<>> /\ r.dead = FALSE
    BY <1>1, IdleRecord DEF CallRecord
  <1>4. LimitsTypeOK' /\ pc' = [pc EXCEPT ![th] = Append(CheckThenCount \o CreateInvite, "createInvite")]
    BY KeyTaken DEF HandleServerCreateInvite
  <1>5. pc' = [pc EXCEPT ![th] = Route("create")]
    BY <1>4 DEF Route
  <1>6. /\ jo' = [jo EXCEPT ![th] = r]
        /\ UNCHANGED <<inviteTables, InviteCodeToServerId, admitted, miscounted, invite_faults, abuseVars>>
    BY <1>1 DEF HandleServerCreateInvite, BeginInviteCall
  <1>7. At(th, "create", 1)'
    BY <1>3, <1>6 DEF InvitesInv, TablesOK, At
  <1> QED BY <1>3, <1>4, <1>5, <1>6, <1>7, Begins DEF Ways

LEMMA JoinKeeps ==
  ASSUME InvitesInv, NEW th \in Threads, NEW u \in Users, NEW code \in {0} \cup Codes, NEW a \in Addresses,
         HandleServerJoinInvite(th, u, code, a)
  PROVE  InvitesInv'
  <1>1. PICK c \in Nat : c = code
    BY Tables
  <1>2. PICK d \in BOOLEAN : (d <=> ~Usable(c)) /\ d = ~Usable(c)
    OBVIOUS
  <1>3. PICK r : r = [NoInviteCall EXCEPT !.user = u, !.code = c, !.dead = d]
    OBVIOUS
  <1>5. r \in CallRecord /\ r.user = u /\ r.code = c /\ r.page = <<>> /\ r.dead = d
    BY <1>3, IdleRecord DEF CallRecord
  <1>6. LimitsTypeOK' /\ pc' = [pc EXCEPT ![th] = Append(CheckThenCount \o JoinViaInvite, "joinInvite")]
    BY KeyTaken DEF HandleServerJoinInvite
  <1>7. pc' = [pc EXCEPT ![th] = Route("join")]
    BY <1>6 DEF Route
  <1>8. BeginInviteCall(th, "joinInvite", r)
    BY <1>1, <1>2, <1>3 DEF HandleServerJoinInvite
  <1>9. /\ jo' = [jo EXCEPT ![th] = r]
        /\ UNCHANGED <<inviteTables, InviteCodeToServerId, admitted, miscounted, invite_faults, abuseVars>>
    BY <1>8 DEF BeginInviteCall
  <1>10. At(th, "join", 1)'
    BY <1>2, <1>5, <1>9 DEF InvitesInv, TablesOK, Usable, Live, Expired, inviteTables, abuseVars, At
  <1>11. r.code \in {0} \cup Codes /\ "join" \in Ways
    BY <1>1, <1>5 DEF Ways
  <1> QED BY <1>5, <1>6, <1>7, <1>9, <1>10, <1>11, Begins

LEMMA KeepingKeeps ==
  ASSUME InvitesInv, NEW th \in Threads, NEW u \in Users, NEW s \in Servers,
         HandleServerListInvites(th, u, s) \/ \E code \in Codes : HandleServerDeleteInvite(th, u, s, code)
  PROVE  InvitesInv'
  <1>1. CASE HandleServerListInvites(th, u, s)
    <2>1. PICK r : r = [NoInviteCall EXCEPT !.user = u, !.server = s]
      OBVIOUS
    <2>3. r \in CallRecord /\ r.code = 0 /\ r.server = s /\ r.page = <<>>
      BY <2>1, IdleRecord DEF CallRecord
    <2>4. /\ pc' = [pc EXCEPT ![th] = Route("list")] /\ jo' = [jo EXCEPT ![th] = r]
          /\ UNCHANGED <<inviteTables, InviteCodeToServerId, admitted, miscounted, invite_faults, abuseVars, limitVars>>
      BY <1>1, <2>1 DEF HandleServerListInvites, BeginInviteCall, Enter, Route
    <2>5. At(th, "list", 1)'
      BY <2>3, <2>4 DEF InvitesInv, TablesOK, At
    <2> QED BY <2>3, <2>4, <2>5, LimitsStay, Begins DEF Ways
  <1>2. ASSUME NEW code \in Codes, HandleServerDeleteInvite(th, u, s, code) PROVE InvitesInv'
    <2>1. PICK c \in Nat : c = code
      BY Tables
    <2>2. PICK r : r = [NoInviteCall EXCEPT !.user = u, !.server = s, !.code = c]
      OBVIOUS
    <2>4. r \in CallRecord /\ r.code = c /\ r.server = s /\ r.page = <<>>
      BY <2>2, IdleRecord DEF CallRecord
    <2>5. /\ pc' = [pc EXCEPT ![th] = Route("delete")] /\ jo' = [jo EXCEPT ![th] = r]
          /\ UNCHANGED <<inviteTables, InviteCodeToServerId, admitted, miscounted, invite_faults, abuseVars, limitVars>>
      BY <1>2, <2>1, <2>2 DEF HandleServerDeleteInvite, BeginInviteCall, Enter, Route
    <2>6. At(th, "delete", 1)'
      BY <2>1, <2>4, <2>5 DEF InvitesInv, TablesOK, Codes, inviteTables, At
    <2> QED BY <2>1, <2>4, <2>5, <2>6, LimitsStay, Begins DEF Ways
  <1> QED BY <1>1, <1>2

(***************************************************************************)
(* Time, resets and restarts.                                              *)
(***************************************************************************)
LEMMA ClockKeeps == ASSUME InvitesInv, Clock PROVE InvitesInv'
  <1>1. UNCHANGED <<inviteVars, limitVars, pc>> /\ UNCHANGED <<server_invites, members, jo, admitted, InviteCodeToServerId, miscounted, invite_faults>>
    BY DEF Clock, inviteVars, inviteTables
  <1>2. AbuseInv'
    BY TimePasses, CleansUp DEF Clock, InvitesInv
  <1>3. now \in Nat /\ now' \in Nat /\ now <= now'
    BY Tables DEF Clock, Tick, PeriodicInviteAbuseCleanup
  <1>4. Codes' = Codes
    BY <1>1 DEF Codes
  <1>5. \A c \in Codes : server_invites[c].expires_at \in Nat
    BY Tables DEF InviteRecord
  <1>6. \A c \in Codes : (Expired(c) => Expired(c)') /\ (Live(c)' <=> Live(c))
    BY <1>1, <1>3, <1>5 DEF Expired, Live
  <1>7. CodesKeep
    BY <1>1, <1>4, <1>6 DEF CodesKeep, Usable
  <1>8. \A s : InvitesOf(s)' = InvitesOf(s) /\ ActiveInvites(s)' \subseteq ActiveInvites(s)
    BY <1>1, <1>4, <1>6 DEF InvitesOf, ActiveInvites
  <1>9. LimitsTypeOK' /\ TablesOK'
    BY <1>1, <1>4, LimitsStay DEF InvitesInv, TablesOK
  <1>10. UsesOK'
    BY <1>1, UsesStay DEF Consumers, AtStep, Busy
  <1>11. CapOK'
    BY <1>1, <1>8, CapStays DEF Creators, AtStep, Busy
  <1>12. ASSUME NEW o \in Threads PROVE ThreadOK(o)'
    BY <1>1, <1>7, <1>8, OtherKept DEF CallKept
  <1> QED BY <1>2, <1>9, <1>10, <1>11, <1>12 DEF InvitesInv

\* Whatever changes the counters alone.
LEMMA InvitesAlone == ASSUME InvitesInv, LimitsTypeOK', UNCHANGED <<pc, abuseVars, inviteVars>> PROVE InvitesInv'
  BY AbuseStays, SameTable, UsesStay, CapStays, OtherKept DEF inviteVars, inviteTables, InvitesInv,
     TablesOK, Consumers, AtStep, Busy, Creators, CallKept

LEMMA ResetKeeps == ASSUME InvitesInv, ResetRateLimits, UNCHANGED <<abuseVars, inviteVars>> PROVE InvitesInv'
  <1>1. Len(ResetOrder) = 8
    BY DEF ResetOrder
  <1>2. resetting' \in 0..Len(ResetOrder) - 1
    BY <1>1 DEF InvitesInv, LimitsTypeOK, ResetRateLimits
  <1>3. LimitsTypeOK'
    BY <1>2 DEF InvitesInv, LimitsTypeOK, ResetRateLimits
  <1> QED BY <1>3, InvitesAlone DEF ResetRateLimits

LEMMA NobodyBusy ==
  ASSUME pc = Idle
  PROVE  /\ \A th \in Threads : ThreadOK(th)
         /\ \A c : Consumers(c) = {} /\ Creators(c) = {}
  BY DEF Idle, ThreadOK, Consumers, Creators, AtStep, Busy

LEMMA NothingRemembered ==
  ASSUME now \in Nat, FailedAttempts = [a \in Addresses |-> {}], BanUntil = [a \in Addresses |-> 0],
         failures = [a \in Addresses |-> {}], forgot = {}
  PROVE  AbuseInv
  BY FS_EmptySet, AbuseFrom DEF AbuseTypeOK, AddressOK, Remembered, BanSet, Since

LEMMA RestartKeeps == ASSUME InvitesInv, InvitesRestart PROVE InvitesInv'
  <1>1. /\ pc' = Idle /\ jo' = [th \in Threads |-> NoInviteCall] /\ InviteCodeToServerId' = {}
        /\ UNCHANGED <<now, server_invites, members, admitted, miscounted, invite_faults, key>>
    BY DEF InvitesRestart, inviteTables
  <1>2. /\ \A th \in Threads : ThreadOK(th)'
        /\ \A c : Consumers(c)' = {} /\ Creators(c)' = {}
    BY <1>1 DEF Idle, ThreadOK, Consumers, Creators, AtStep, Busy
  <1>3. AbuseInv'
    BY <1>1, Tables, FS_EmptySet DEF InvitesRestart, AbuseTypeOK, AddressOK, Remembered, BanSet,
       Since, AbuseInv
  <1>4. LimitsTypeOK'
    BY <1>1 DEF ResetOrder, InvitesInv, LimitsTypeOK, InvitesRestart, LimitsRestart, NoAttempts
  <1>5. Codes' = Codes /\ \A s : ActiveInvites(s)' = ActiveInvites(s)
    BY <1>1, SameTable
  <1>6. TablesOK'
    BY <1>1, <1>5, IdleCall DEF Idle, InvitesInv, TablesOK
  <1>7. UsesOK'
    BY <1>1, <1>2, UsesStay
  <1>8. CapOK'
    BY <1>1, <1>2, <1>5, CapStays
  <1> QED BY <1>2, <1>3, <1>4, <1>6, <1>7, <1>8 DEF InvitesInv

(***************************************************************************)
(* The invariant and what follows from it.                                 *)
(***************************************************************************)
LEMMA InvitesStart0 == InvitesInit => InvitesInv
  <1> SUFFICES ASSUME InvitesInit PROVE InvitesInv
    OBVIOUS
  <1>1. /\ pc = Idle /\ now = 1 /\ FailedAttempts = [a \in Addresses |-> {}] /\ BanUntil = [a \in Addresses |-> 0]
        /\ failures = [a \in Addresses |-> {}] /\ forgot = {} /\ server_invites = <<>> /\ jo = [th \in Threads |-> NoInviteCall]
        /\ members = Inviters \X Servers /\ miscounted = FALSE /\ invite_faults = 0
        /\ admitted = [c \in Codes |-> {}] /\ InviteCodeToServerId \in {{}, Codes}
    BY DEF InvitesInit, LimitsInit, AbuseInit, InvitesStart
  <1>2. Codes = {} /\ Len(server_invites) = 0
    BY <1>1 DEF Codes
  <1>3. admitted = <<>>
    BY <1>1, <1>2
  <1>4. AbuseInv
    BY <1>1, NothingRemembered
  <1>5. LimitsTypeOK
    BY StartTyped DEF InvitesInit, TypedCalls
  <1>6. TablesOK
    <2>1. server_invites \in Seq(InviteRecord) /\ admitted \in Seq(SUBSET Users) /\ Len(admitted) = Len(server_invites)
      BY <1>1, <1>3
    <2>2. pc \in [Threads -> Seq(StepNames)]
      BY <1>1 DEF Idle
    <2>3. jo \in [Threads -> CallRecord] /\ \A th \in Threads : jo[th].code = 0 /\ \A k \in DOMAIN jo[th].page : FALSE
      BY <1>1, IdleCall
    <2>4. members \subseteq Users \X Servers /\ invite_faults \in 0..MaxInviteFaults /\ miscounted \in BOOLEAN
      <3>1. Inviters \subseteq Users /\ MaxInviteFaults \in Nat
        BY InvitesAssumption
      <3>2. members \subseteq Users \X Servers
        BY <3>1, <1>1
      <3>3. invite_faults \in 0..MaxInviteFaults
        BY <3>1, <1>1
      <3>4. miscounted \in BOOLEAN
        BY <1>1
      <3> QED BY <3>2, <3>3, <3>4
    <2> QED BY <2>1, <2>2, <2>3, <2>4, <1>1, <1>2 DEF TablesOK
  <1>7. UsesOK
    BY <1>2 DEF UsesOK
  <1>8. CapOK
    <2> SUFFICES ASSUME MaxInvitesPerServer > 0, NEW s \in Servers
                 PROVE  Cardinality(ActiveInvites(s)) + Cardinality(Creators(s)) <= MaxInvitesPerServer + Cardinality(Threads) - 1
      BY DEF CapOK
    <2>1. ActiveInvites(s) = {} /\ Creators(s) = {}
      BY <1>1, <1>2, NobodyBusy DEF ActiveInvites
    <2>2. Cardinality({}) = 0 /\ Cardinality(Threads) \in Nat /\ MaxInvitesPerServer \in Nat
      BY FS_EmptySet, LimitConstants, FS_CardinalityType, InvitesAssumption
    <2> QED BY <2>1, <2>2
  <1> QED BY <1>1, <1>4, <1>5, <1>6, <1>7, <1>8, NobodyBusy DEF InvitesInv

LEMMA InvitesStay == InvitesInv /\ [InvitesNext]_<<pc, limitVars, abuseVars, inviteVars>> => InvitesInv'
  <1> SUFFICES ASSUME InvitesInv, [InvitesNext]_<<pc, limitVars, abuseVars, inviteVars>> PROVE InvitesInv'
    OBVIOUS
  <1>1. ASSUME NEW th \in Threads, InviteStep(th) PROVE InvitesInv'
    BY <1>1, PermissionKeeps, CountKeeps, UploadKeeps, CacheKeeps, BannedKeeps, LookUpKeeps, ConsumeKeeps, ForgetKeeps,
       RecordKeeps, AdmitKeeps, DeleteKeeps, CountListedKeeps, ListKeeps, ReplyKeeps, CountingKeeps DEF InviteStep
  <1>2. ASSUME NEW th \in Threads, NEW u \in Users, Joins(th, u) \/ Deletes(th, u) \/ Keeping(th, u) PROVE InvitesInv'
    BY <1>2, JoinKeeps, KeepingKeeps, CreateKeeps DEF Joins, Deletes, Keeping
  <1>3. CASE UNCHANGED <<pc, limitVars, abuseVars, inviteVars>>
    BY <1>3, LimitsStay, InvitesAlone
  <1> QED BY <1>1, <1>2, <1>3, ClockKeeps, ResetKeeps, RestartKeeps DEF InvitesNext

LEMMA InvitesInvariant == InvitesSpec => []InvitesInv
  BY InvitesStart0, InvitesStay, PTL DEF InvitesSpec

LEMMA InvTyped == InvitesInv => InvitesTypeOK
  BY Tables DEF InviteRecord, InvitesInv, AbuseInv, TablesOK, InvitesTypeOK

LEMMA InvWithinUses == InvitesInv => AdmittedWithinUses
  BY UsesNow DEF AdmittedWithinUses, UsesOf

LEMMA InvDead == InvitesInv => DeadInviteAdmitsNobody
  BY Starts, JoinOnly DEF DeadInviteAdmitsNobody, At

LEMMA InvListed == InvitesInv => ListHasTotal
  BY Starts, OtherPlaces DEF ListHasTotal, At

LEMMA InvCapped == InvitesInv => InvitesNearlyCapped
  BY ActiveFinite, InvitesAssumption DEF InvitesNearlyCapped, InvitesInv, CapOK

LEMMA InvBans == InvitesInv => FailuresBan
  BY Recalled, AbuseConstants DEF FailuresBan, InvitesInv, AddressOK, BanDue, BanSet, Since,
     IsInviteAbuseBanned

\* InvitesConsistent, of any number of threads, users, servers, addresses and codes: whatever
\* calls, failed statements, cleanups, resets and restarts there are, a code lets in at most as
\* many as it has uses, one that was no good when the call began lets nobody in, and a list has
\* as many invites as its total says (ServersManager.cpp:1638, docs/servers_api.md:937 and 967).
THEOREM InvitesStayConsistent == InvitesSpec => []InvitesConsistent
<1>1. InvitesInv => InvitesConsistent
  BY InvTyped, InvWithinUses, InvDead, InvListed DEF InvitesConsistent
<1> QED BY <1>1, InvitesInvariant, PTL

\* InvitesNearlyCapped, of any number of threads: a server's maximum of active invites can be
\* passed by no more than the threads that create at once (FServersManager::CreateInvite).
THEOREM CapNearlyKept == InvitesSpec => []InvitesNearlyCapped
<1> QED BY InvCapped, InvitesInvariant, PTL

\* FailuresBan, of any window, number of attempts and ban: who failed too often within the
\* window is banned to the end of the ban, whatever is purged and cleaned up in the meantime
\* (FRateLimiter::AddInviteAbuseAttempt, docs/servers_api.md:913).
THEOREM FailuresAreBanned == InvitesSpec => []FailuresBan
<1> QED BY InvBans, InvitesInvariant, PTL

(***************************************************************************)
(* Messages: the places of the calls, which are what a thread has still to *)
(* do.  P posts, D deletes, G reads a page.                                *)
(***************************************************************************)
P1 == <<"stamp", "upload", "push", "ServerMessage">>
P2 == <<"upload", "push", "ServerMessage">>
P3 == <<"push", "ServerMessage">>
P4 == <<"ServerMessage">>
D1 == <<"owner", "tombstone", "mark", "ServerMessageDelete">>
D2 == <<"tombstone", "mark", "ServerMessageDelete">>
D3 == <<"mark", "ServerMessageDelete">>
D4 == <<"ServerMessageDelete">>
G1 == <<"page", "GetServerMessages">>
G2 == <<"selectPage", "append", "pageAgain", "GetServerMessages">>
G3 == <<"append", "pageAgain", "GetServerMessages">>
G4 == <<"pageAgain", "GetServerMessages">>
G5 == <<"GetServerMessages">>

PostPlaces == {P1, P2, P3, P4}
ErasePlaces == {D1, D2, D3, D4}
PagePlaces == {G1, G2, G3, G4, G5}
MessagePlaces == {<<>>} \cup PostPlaces \cup ErasePlaces \cup PagePlaces

LEMMA AppendToOne == ASSUME NEW a, NEW e PROVE Append(<<a>>, e) = <<a, e>>
  <1> DEFINE S == {a, e}
             s == <<a>>
             u == <<a, e>>
  <1>1. s \in Seq(S) /\ u \in Seq(S) /\ e \in S /\ Len(u) = Len(s) + 1
    OBVIOUS
  <1>2. (\A i \in 1..Len(s) : u[i] = s[i]) /\ u[Len(u)] = e
    OBVIOUS
  <1> HIDE DEF s, u, S
  <1>3. Append(s, e) \in Seq(S) /\ Len(Append(s, e)) = Len(u)
    BY <1>1
  <1>4. \A i \in 1..Len(u) : Append(s, e)[i] = u[i]
    BY <1>1, <1>2
  <1>5. Append(s, e) = u
    BY <1>1, <1>3, <1>4, SeqEqual
  <1> QED BY <1>5 DEF s, u

PlaceStep(p) == Head(p)
PlaceRest(p) == Tail(p)
PlaceOp(p) == p[Len(p)]

LEMMA MessagePlacesAre ==
  /\ P1 # <<>> /\ PlaceStep(P1) = "stamp" /\ PlaceOp(P1) = "ServerMessage" /\ PlaceRest(P1) = P2
  /\ P2 # <<>> /\ PlaceStep(P2) = "upload" /\ PlaceOp(P2) = "ServerMessage" /\ PlaceRest(P2) = P3
  /\ P3 # <<>> /\ PlaceStep(P3) = "push" /\ PlaceOp(P3) = "ServerMessage" /\ PlaceRest(P3) = P4
  /\ P4 # <<>> /\ PlaceStep(P4) = "ServerMessage" /\ PlaceOp(P4) = "ServerMessage" /\ PlaceRest(P4) = <<>>
  /\ D1 # <<>> /\ PlaceStep(D1) = "owner" /\ PlaceOp(D1) = "ServerMessageDelete" /\ PlaceRest(D1) = D2
  /\ D2 # <<>> /\ PlaceStep(D2) = "tombstone" /\ PlaceOp(D2) = "ServerMessageDelete" /\ PlaceRest(D2) = D3
  /\ D3 # <<>> /\ PlaceStep(D3) = "mark" /\ PlaceOp(D3) = "ServerMessageDelete" /\ PlaceRest(D3) = D4
  /\ D4 # <<>> /\ PlaceStep(D4) = "ServerMessageDelete" /\ PlaceOp(D4) = "ServerMessageDelete" /\ PlaceRest(D4) = <<>>
  /\ G1 # <<>> /\ PlaceStep(G1) = "page" /\ PlaceOp(G1) = "GetServerMessages" /\ PlaceRest(G1) = G5
  /\ G2 # <<>> /\ PlaceStep(G2) = "selectPage" /\ PlaceOp(G2) = "GetServerMessages" /\ PlaceRest(G2) = G3
  /\ G3 # <<>> /\ PlaceStep(G3) = "append" /\ PlaceOp(G3) = "GetServerMessages" /\ PlaceRest(G3) = G4
  /\ G4 # <<>> /\ PlaceStep(G4) = "pageAgain" /\ PlaceOp(G4) = "GetServerMessages" /\ PlaceRest(G4) = G5
  /\ G5 # <<>> /\ PlaceStep(G5) = "GetServerMessages" /\ PlaceOp(G5) = "GetServerMessages" /\ PlaceRest(G5) = <<>>
  /\ Download \o PlaceRest(G1) = G2
  <1>1. Download \o PlaceRest(G1) = G2
    <2>1. PlaceRest(G1) = <<"GetServerMessages">>
      BY DEF PlaceRest, G1
    <2>2. Append(Download, "GetServerMessages") = G2
      BY AppendToThree DEF Download, G2
    <2>3. Download \in Seq({"selectPage", "append", "pageAgain", "GetServerMessages"})
      BY DEF Download
    <2>4. Download \o <<"GetServerMessages">> = Append(Download, "GetServerMessages")
      BY <2>3, AppendIsConcat
    <2> QED BY <2>1, <2>2, <2>4
  <1> QED BY <1>1 DEF PlaceStep, PlaceOp, PlaceRest, P1, P2, P3, P4, D1, D2, D3, D4, G1, G2, G3, G4, G5

LEMMA PlaceOfStep ==
  ASSUME NEW p \in MessagePlaces
  PROVE  LET at(step) == p # <<>> /\ PlaceStep(p) = step IN
    /\ at("stamp") <=> p = P1
    /\ at("upload") <=> p = P2
    /\ at("push") <=> p = P3
    /\ at("ServerMessage") <=> p = P4
    /\ at("owner") <=> p = D1
    /\ at("tombstone") <=> p = D2
    /\ at("mark") <=> p = D3
    /\ at("ServerMessageDelete") <=> p = D4
    /\ at("page") <=> p = G1
    /\ at("selectPage") <=> p = G2
    /\ at("append") <=> p = G3
    /\ at("pageAgain") <=> p = G4
    /\ at("GetServerMessages") <=> p = G5
    /\ p # <<>> /\ PlaceStep(p) \in MessageOps <=> p \in {P4, D4, G5}
BY MessagePlacesAre DEF MessagePlaces, PostPlaces, ErasePlaces, PagePlaces, MessageOps

LEMMA PlaceOfOp ==
  ASSUME NEW p \in MessagePlaces
  PROVE  /\ p # <<>> /\ PlaceOp(p) = "ServerMessage" <=> p \in PostPlaces
         /\ p # <<>> /\ PlaceOp(p) = "ServerMessageDelete" <=> p \in ErasePlaces
         /\ p # <<>> /\ PlaceOp(p) = "GetServerMessages" <=> p \in PagePlaces
BY MessagePlacesAre DEF MessagePlaces, PostPlaces, ErasePlaces, PagePlaces

LEMMA MessageCallsBegin ==
  /\ Append(AddMessage, "ServerMessage") = P1
  /\ Append(DeleteMessage, "ServerMessageDelete") = D1
  /\ Append(GetChannelMessages, "GetServerMessages") = G1
  /\ <<"ServerMessage">> = P4 /\ <<"ServerMessageDelete">> = D4 /\ <<"GetServerMessages">> = G5
  BY AppendToThree, AppendToOne DEF AddMessage, P1, DeleteMessage, D1, GetChannelMessages, G1, P4,
     D4, G5

(***************************************************************************)
(* The invariant of the messages.                                          *)
(***************************************************************************)
MessageLocals ==
    [id : 0..Len(server_messages), at : 0..clock, before : 0..MaxMessages, rows : Seq(EntryOf(MessageIds)),
     answer : Seq(EntryOf(MessageIds)), fetched : BOOLEAN]

MessagesTyped ==
    /\ server_messages \in Seq([at : 1..clock, deleted : BOOLEAN])
    /\ clock \in 0..MaxMessages
    /\ ChannelMessages \in Seq(EntryOf(MessageIds))
    /\ pc \in [Threads -> MessagePlaces]
    /\ ml \in [Threads -> MessageLocals]
    /\ mixed \in BOOLEAN /\ crossed \in BOOLEAN /\ downloaded \in BOOLEAN

\* What a thread's place says of its locals.
LocalsFit ==
    \A th \in Threads :
        /\ pc[th] = P2 => ml[th].at >= 1
        /\ pc[th] # G3 => ml[th].rows = <<>>
        /\ pc[th] \notin {G3, G4, G5} => ~ml[th].fetched

\* A row that is on its way to the vector is no tombstone, and nobody is deleting it.
RowsApart ==
    /\ \A th \in Threads : pc[th] = P3 => ml[th].id \in MessageIds /\ ~server_messages[ml[th].id].deleted
    /\ \A t, u \in Threads : pc[t] = P3 /\ pc[u] = P3 /\ ml[t].id = ml[u].id => t = u
    /\ \A th \in Threads : pc[th] \in {D2, D3} =>
           /\ ml[th].id \in MessageIds
           /\ \A t \in Threads : pc[t] = P3 => ml[t].id # ml[th].id
    /\ \A th \in Threads : pc[th] = D3 => server_messages[ml[th].id].deleted

DownloadPlaces == {G2, G3, G4}

DownloadsApart ==
    \A th \in Threads : pc[th] \in DownloadPlaces =>
        \A t \in Threads : pc[t] \notin PostPlaces \cup ErasePlaces /\ (pc[t] \in DownloadPlaces => t = th)

PushedNew == \A th \in Threads : pc[th] = P3 => \A i \in DOMAIN ChannelMessages : ChannelMessages[i].id # ml[th].id

\* Pages of a table and rows to append, whatever the table and the vector are.
OlderIn(table, id, b) == b = 0 \/ table[id].at < b
PagesIn(table, b) ==
    {[i \in DOMAIN s |-> [id |-> s[i], deleted |-> table[s[i]].deleted]] :
        s \in Newest({id \in 1..Len(table) : OlderIn(table, id, b)})}

NoneOlder(table, vector, b) == \A i \in DOMAIN vector : ~OlderIn(table, vector[i].id, b)

\* The rows that are to be appended: as the table has them, once each, and none in memory.
RowsFit(table, vector, rows) ==
    /\ \A i \in DOMAIN rows : rows[i].deleted = table[rows[i].id].deleted
    /\ \A i, j \in DOMAIN rows : rows[i].id = rows[j].id => i = j
    /\ \A i \in DOMAIN rows, j \in DOMAIN vector : vector[j].id # rows[i].id

\* The last k entries are all that is older than the time stamp, and with the rows
\* still to come the page of the table.
LastIds(vector, k) == {vector[i].id : i \in Len(vector) - k + 1..Len(vector)}
Appended(table, vector, rows, b, k) ==
    /\ k + Len(rows) <= Limit
    /\ k <= Len(vector)
    /\ \A i \in DOMAIN vector : OlderIn(table, vector[i].id, b) <=> i > Len(vector) - k
    /\ \A i \in DOMAIN rows : OlderIn(table, rows[i].id, b)
    /\ \E page \in PagesIn(table, b) : IdsOf(page) = IdsOf(rows) \cup LastIds(vector, k)

ThreadDownloads(p, table, vector, local) ==
    /\ p = G2 => NoneOlder(table, vector, local.before)
    /\ p = G3 => RowsFit(table, vector, local.rows)
    /\ p \in {G3, G4} /\ local.fetched =>
           \E k \in 0..Limit : Appended(table, vector, local.rows, local.before, k)

Downloads == \A th \in Threads : ThreadDownloads(pc[th], server_messages, ChannelMessages, ml[th])

EntriesApart ==
    \A i, j \in DOMAIN ChannelMessages : ChannelMessages[i].id = ChannelMessages[j].id => i = j

\* An entry that still shows a deleted message is about to be marked.
Marking ==
    \A i \in DOMAIN ChannelMessages :
        server_messages[ChannelMessages[i].id].deleted /\ ~ChannelMessages[i].deleted =>
            \E th \in Threads : pc[th] = D3 /\ ml[th].id = ChannelMessages[i].id

MemoryInv == ~mixed => DownloadsApart /\ PushedNew /\ Downloads /\ EntriesApart /\ Marking

PostsApart ==
    ~crossed =>
        /\ \A t, u \in Threads : pc[t] \in PostPlaces /\ pc[u] \in PostPlaces => t = u
        /\ \A th \in Threads : pc[th] = P3 => ml[th].id = Len(server_messages)

MessagesInv == MessagesTyped /\ LocalsFit /\ RowsApart /\ MemoryInv /\ PostsApart /\ MemoryIsRecent

LEMMA DownloadPlacesAre ==
  ASSUME NEW p \in MessagePlaces
  PROVE  p # <<>> /\ PlaceOp(p) = "GetServerMessages" /\ Len(p) > 1 /\ PlaceStep(p) # "page" <=> p \in DownloadPlaces
<1>1. Len(G1) = 2 /\ Len(G2) = 4 /\ Len(G3) = 3 /\ Len(G4) = 2 /\ Len(G5) = 1
  BY DEF G1, G2, G3, G4, G5
<1>2. p \in DownloadPlaces => p \in PagePlaces
  BY DEF DownloadPlaces, PagePlaces
<1>3. CASE p \in PagePlaces
  <2>1. /\ \A q \in PagePlaces : q # <<>> /\ PlaceOp(q) = "GetServerMessages"
        /\ PlaceStep(G1) = "page" /\ PlaceStep(G2) = "selectPage" /\ PlaceStep(G3) = "append"
        /\ PlaceStep(G4) = "pageAgain" /\ PlaceStep(G5) = "GetServerMessages"
    BY MessagePlacesAre DEF PagePlaces
  <2>2. CASE p = G1
    BY <1>1, <1>3, <2>1, <2>2 DEF DownloadPlaces
  <2>3. CASE p = G2
    BY <1>1, <1>3, <2>1, <2>3 DEF DownloadPlaces
  <2>4. CASE p = G3
    BY <1>1, <1>3, <2>1, <2>4 DEF DownloadPlaces
  <2>5. CASE p = G4
    BY <1>1, <1>3, <2>1, <2>5 DEF DownloadPlaces
  <2>6. CASE p = G5
    <3>1. G5 \notin DownloadPlaces
      BY <1>1 DEF DownloadPlaces
    <3>2. Len(p) = 1
      BY <1>1, <2>6, Zenon
    <3>3. ~(Len(p) > 1)
      BY <3>2
    <3> QED BY <2>6, <3>1, <3>3
  <2> QED BY <1>3, <2>2, <2>3, <2>4, <2>5, <2>6 DEF PagePlaces
<1>4. CASE p \notin PagePlaces
  BY <1>2, <1>4, PlaceOfOp
<1> QED BY <1>3, <1>4

LEMMA MessageThread ==
  ASSUME NEW th \in Threads, pc[th] \in MessagePlaces
  PROVE  /\ AtStep(th, "stamp") <=> pc[th] = P1
         /\ AtStep(th, "upload") <=> pc[th] = P2
         /\ AtStep(th, "push") <=> pc[th] = P3
         /\ AtStep(th, "owner") <=> pc[th] = D1
         /\ AtStep(th, "tombstone") <=> pc[th] = D2
         /\ AtStep(th, "mark") <=> pc[th] = D3
         /\ AtStep(th, "page") <=> pc[th] = G1
         /\ AtStep(th, "selectPage") <=> pc[th] = G2
         /\ AtStep(th, "append") <=> pc[th] = G3
         /\ AtStep(th, "pageAgain") <=> pc[th] = G4
         /\ Busy(th) /\ Head(pc[th]) \in MessageOps <=> pc[th] \in {P4, D4, G5}
         /\ Downloading(th) <=> pc[th] \in DownloadPlaces
         /\ Busy(th) /\ Op(th) = "ServerMessage" <=> pc[th] \in PostPlaces
         /\ Busy(th) /\ Op(th) = "ServerMessageDelete" <=> pc[th] \in ErasePlaces
         /\ Busy(th) <=> pc[th] # <<>>
<1> DEFINE p == pc[th]
<1>1. p \in MessagePlaces
  OBVIOUS
<1> HIDE DEF p
<1>2. \A step : p # <<>> /\ Head(p) = step <=> p # <<>> /\ PlaceStep(p) = step
  BY DEF PlaceStep
<1>3. /\ p # <<>> /\ Head(p) = "stamp" <=> p = P1
      /\ p # <<>> /\ Head(p) = "upload" <=> p = P2
      /\ p # <<>> /\ Head(p) = "push" <=> p = P3
      /\ p # <<>> /\ Head(p) = "owner" <=> p = D1
      /\ p # <<>> /\ Head(p) = "tombstone" <=> p = D2
      /\ p # <<>> /\ Head(p) = "mark" <=> p = D3
      /\ p # <<>> /\ Head(p) = "page" <=> p = G1
      /\ p # <<>> /\ Head(p) = "selectPage" <=> p = G2
      /\ p # <<>> /\ Head(p) = "append" <=> p = G3
      /\ p # <<>> /\ Head(p) = "pageAgain" <=> p = G4
  BY <1>1, <1>2, PlaceOfStep, Zenon
<1>4. p # <<>> /\ Head(p) \in MessageOps <=> p \in {P4, D4, G5}
  BY <1>1, PlaceOfStep DEF PlaceStep
<1>5. /\ p # <<>> /\ p[Len(p)] = "ServerMessage" <=> p \in PostPlaces
      /\ p # <<>> /\ p[Len(p)] = "ServerMessageDelete" <=> p \in ErasePlaces
  BY <1>1, PlaceOfOp DEF PlaceOp
<1>6. p # <<>> /\ p[Len(p)] = "GetServerMessages" /\ Len(p) > 1 /\ Head(p) # "page" <=> p \in DownloadPlaces
  BY <1>1, DownloadPlacesAre DEF PlaceOp, PlaceStep
<1> QED BY <1>3, <1>4, <1>5, <1>6, Zenon DEF p, AtStep, Busy, Op, Downloading

LEMMA MessageThreads ==
  ASSUME \A th \in Threads : pc[th] \in MessagePlaces
  PROVE  /\ SomeDownload <=> \E th \in Threads : pc[th] \in DownloadPlaces
         /\ BusyIn(Posts) <=> \E th \in Threads : pc[th] \in PostPlaces
         /\ BusyIn({"ServerMessage", "ServerMessageDelete"}) <=>
                \E th \in Threads : pc[th] \in PostPlaces \cup ErasePlaces
         /\ BusyIn({"ServerMessageDelete"}) <=> \E th \in Threads : pc[th] \in ErasePlaces
         /\ OnTheirWay = {ml[th].id : th \in {t \in Threads : pc[t] = P3}}
  BY MessageThread DEF SomeDownload, BusyIn, Posts, OnTheirWay

\* The same after a step.
LEMMA OnTheirWayNext ==
  ASSUME \A th \in Threads : pc'[th] \in MessagePlaces
  PROVE  OnTheirWay' = {ml'[th].id : th \in {t \in Threads : pc'[t] = P3}}
<1>1. \A th \in Threads : AtStep(th, "push")' <=> pc'[th] = P3
  <2> SUFFICES ASSUME NEW th \in Threads PROVE AtStep(th, "push")' <=> pc'[th] = P3
    OBVIOUS
  <2> DEFINE p == pc'[th]
  <2>1. p \in MessagePlaces
    OBVIOUS
  <2> HIDE DEF p
  <2>2. p # <<>> /\ Head(p) = "push" <=> p = P3
    BY <2>1, PlaceOfStep DEF PlaceStep
  <2> QED BY <2>2 DEF p, AtStep, Busy
<1>2. {t \in Threads : AtStep(t, "push")'} = {t \in Threads : pc'[t] = P3}
  BY <1>1, Zenon
<1>3. OnTheirWay' = {ml'[th].id : th \in {t \in Threads : AtStep(t, "push")'}}
  BY Zenon DEF OnTheirWay
<1> QED BY <1>2, <1>3

(***************************************************************************)
(* Where the steps lead.                                                   *)
(***************************************************************************)
Moved(th, q) == pc' = [pc EXCEPT ![th] = q]

LEMMA MessageAdvance ==
  ASSUME NEW th \in Threads, NEW p, NEW q, pc[th] = p, PlaceRest(p) = q, Advance(th)
  PROVE  Moved(th, q)
BY DEF Advance, Moved, PlaceRest

LEMMA MessageReturn ==
  ASSUME NEW th \in Threads, Return(th), pc[th] \in MessagePlaces
  PROVE  /\ pc[th] \in PostPlaces => Moved(th, P4)
         /\ pc[th] \in ErasePlaces => Moved(th, D4)
<1> DEFINE p == pc[th]
<1>1. pc' = [pc EXCEPT ![th] = <<p[Len(p)]>>]
  BY DEF Return, Op
<1>2. p \in MessagePlaces
  OBVIOUS
<1> HIDE DEF p
<1>3. p \in PostPlaces => <<p[Len(p)]>> = P4
  BY <1>2, PlaceOfOp, MessageCallsBegin DEF PlaceOp
<1>4. p \in ErasePlaces => <<p[Len(p)]>> = D4
  BY <1>2, PlaceOfOp, MessageCallsBegin DEF PlaceOp
<1> QED BY <1>1, <1>3, <1>4 DEF p, Moved

LEMMA MessageEnter ==
  ASSUME NEW th \in Threads
  PROVE  /\ Enter(th, AddMessage, "ServerMessage") => pc[th] = <<>> /\ Moved(th, P1)
         /\ Enter(th, DeleteMessage, "ServerMessageDelete") => pc[th] = <<>> /\ Moved(th, D1)
         /\ Enter(th, GetChannelMessages, "GetServerMessages") => pc[th] = <<>> /\ Moved(th, G1)
BY MessageCallsBegin, Zenon DEF Enter, Busy, Moved

LEMMA MessageMoves ==
  ASSUME NEW th \in Threads, pc[th] \in MessagePlaces
  PROVE  /\ StampMessage(th) => pc[th] = P1 /\ Moved(th, P2)
         /\ AtStep(th, "upload") => pc[th] = P2 /\ (Advance(th) => Moved(th, P3)) /\ (Return(th) => Moved(th, P4))
         /\ PushMessage(th) => pc[th] = P3 /\ Moved(th, P4)
         /\ AtStep(th, "owner") => pc[th] = D1 /\ (Advance(th) => Moved(th, D2)) /\ (Return(th) => Moved(th, D4))
         /\ AtStep(th, "tombstone") => pc[th] = D2 /\ (Advance(th) => Moved(th, D3)) /\ (Return(th) => Moved(th, D4))
         /\ MarkMessageDeleted(th) => pc[th] = D3 /\ Moved(th, D4)
         /\ AtStep(th, "page") => pc[th] = G1 /\ (Advance(th) => Moved(th, G5))
                /\ (pc' = [pc EXCEPT ![th] = Download \o Tail(@)] => Moved(th, G2))
         /\ DownloadMessagesFromDB(th) => pc[th] = G2 /\ Moved(th, G3)
         /\ AtStep(th, "append") => pc[th] = G3 /\ (Advance(th) => Moved(th, G4))
         /\ ReadPageAgain(th) => pc[th] = G4 /\ Moved(th, G5)
         /\ MessageReply(th) => pc[th] \in {P4, D4, G5} /\ Moved(th, <<>>)
<1>1. /\ PlaceRest(P1) = P2 /\ PlaceRest(P2) = P3 /\ PlaceRest(P3) = P4 /\ PlaceRest(D1) = D2 /\ PlaceRest(D2) = D3
      /\ PlaceRest(D3) = D4 /\ PlaceRest(G1) = G5 /\ PlaceRest(G2) = G3 /\ PlaceRest(G3) = G4 /\ PlaceRest(G4) = G5
      /\ Download \o PlaceRest(G1) = G2
  BY MessagePlacesAre
<1>2. P2 \in PostPlaces /\ D1 \in ErasePlaces /\ D2 \in ErasePlaces
  BY DEF PostPlaces, ErasePlaces
<1>3. \A p, q : pc[th] = p /\ PlaceRest(p) = q /\ Advance(th) => Moved(th, q)
  BY MessageAdvance
<1>4. Return(th) => (pc[th] \in PostPlaces => Moved(th, P4)) /\ (pc[th] \in ErasePlaces => Moved(th, D4))
  BY MessageReturn
<1>5. pc[th] = G1 /\ pc' = [pc EXCEPT ![th] = Download \o Tail(@)] => Moved(th, G2)
  BY <1>1 DEF Moved, PlaceRest
<1>6. StampMessage(th) => pc[th] = P1 /\ Moved(th, P2)
  BY <1>1, <1>3, MessageThread, Zenon DEF StampMessage
<1>7. AtStep(th, "upload") => pc[th] = P2 /\ (Advance(th) => Moved(th, P3)) /\ (Return(th) => Moved(th, P4))
  BY <1>1, <1>2, <1>3, <1>4, MessageThread, Zenon
<1>8. PushMessage(th) => pc[th] = P3 /\ Moved(th, P4)
  BY <1>1, <1>3, MessageThread, Zenon DEF PushMessage
<1>9. AtStep(th, "owner") => pc[th] = D1 /\ (Advance(th) => Moved(th, D2)) /\ (Return(th) => Moved(th, D4))
  BY <1>1, <1>2, <1>3, <1>4, MessageThread, Zenon
<1>10. AtStep(th, "tombstone") => pc[th] = D2 /\ (Advance(th) => Moved(th, D3)) /\ (Return(th) => Moved(th, D4))
  BY <1>1, <1>2, <1>3, <1>4, MessageThread, Zenon
<1>11. MarkMessageDeleted(th) => pc[th] = D3 /\ Moved(th, D4)
  BY <1>1, <1>3, MessageThread, Zenon DEF MarkMessageDeleted
<1>12. AtStep(th, "page") => pc[th] = G1 /\ (Advance(th) => Moved(th, G5))
           /\ (pc' = [pc EXCEPT ![th] = Download \o Tail(@)] => Moved(th, G2))
  BY <1>1, <1>3, <1>5, MessageThread, Zenon
<1>13. DownloadMessagesFromDB(th) => pc[th] = G2 /\ Moved(th, G3)
  BY <1>1, <1>3, MessageThread, Zenon DEF DownloadMessagesFromDB
<1>14. AtStep(th, "append") => pc[th] = G3 /\ (Advance(th) => Moved(th, G4))
  BY <1>1, <1>3, MessageThread, Zenon
<1>15. ReadPageAgain(th) => pc[th] = G4 /\ Moved(th, G5)
  BY <1>1, <1>3, MessageThread, Zenon DEF ReadPageAgain
<1>16. MessageReply(th) => pc[th] \in {P4, D4, G5} /\ Moved(th, <<>>)
  BY MessageThread, Zenon DEF MessageReply, Finish, Moved
<1> QED BY <1>6, <1>7, <1>8, <1>9, <1>10, <1>11, <1>12, <1>13, <1>14, <1>15, <1>16

\* The places differ: where a thread is not.
LEMMA PlacesDiffer ==
  /\ \A p \in PostPlaces : p # <<>> /\ p \notin ErasePlaces \cup PagePlaces
  /\ \A p \in ErasePlaces : p # <<>> /\ p \notin PostPlaces \cup PagePlaces
  /\ \A p \in PagePlaces : p # <<>> /\ p \notin PostPlaces \cup ErasePlaces
  /\ <<>> \notin PostPlaces \cup ErasePlaces \cup PagePlaces
  /\ P1 \notin {P2, P3, P4} /\ P2 \notin {P3, P4} /\ P3 # P4
  /\ D1 \notin {D2, D3, D4} /\ D2 \notin {D3, D4} /\ D3 # D4
  /\ G1 \notin {G2, G3, G4, G5} /\ G2 \notin {G3, G4, G5} /\ G3 \notin {G4, G5} /\ G4 # G5
  BY MessagePlacesAre DEF PostPlaces, ErasePlaces, PagePlaces

(***************************************************************************)
(* Steps that leave the table and the vector alone.                        *)
(***************************************************************************)
LEMMA SamePages ==
  /\ \A b : TablePages(b) = PagesIn(server_messages, b)
  /\ \A id, b : Older(id, b) <=> OlderIn(server_messages, id, b)
  BY DEF Older, OlderIn, OlderRows, MessageIds, TablePages, PagesIn

\* Nothing but thread th moves; it brings nothing on its way and marks nothing.
Quiet(th, q) ==
    /\ Moved(th, q) /\ q \in MessagePlaces
    /\ \A t \in Threads : t # th => ml'[t] = ml[t]
    /\ server_messages' = server_messages /\ ChannelMessages' = ChannelMessages /\ downloaded' = downloaded
    /\ (mixed => mixed') /\ (crossed => crossed')
    /\ pc[th] \notin {P3, D3} /\ q \notin {P3, D3}

LEMMA OthersKeepPlace ==
  ASSUME pc \in [Threads -> MessagePlaces], NEW th \in Threads, NEW q, Moved(th, q)
  PROVE  /\ pc'[th] = q
         /\ \A t \in Threads : t # th => pc'[t] = pc[t]
         /\ q \in MessagePlaces => pc' \in [Threads -> MessagePlaces]
BY DEF Moved

LEMMA MovedLocals ==
  ASSUME MessagesTyped, LocalsFit, NEW th \in Threads, NEW q, Moved(th, q), \A t \in Threads : t # th => ml'[t] = ml[t],
         q = P2 => ml'[th].at >= 1, q # G3 => ml'[th].rows = <<>>, q \notin {G3, G4, G5} => ~ml'[th].fetched
  PROVE  LocalsFit'
  BY OthersKeepPlace DEF MessagesTyped, LocalsFit

LEMMA QuietRows ==
  ASSUME MessagesTyped, RowsApart, NEW th \in Threads, NEW q, Quiet(th, q),
         q = D2 => ml'[th].id \in MessageIds /\ \A t \in Threads : pc[t] = P3 => ml[t].id # ml'[th].id
  PROVE  RowsApart'
<1>1. pc'[th] = q /\ \A t \in Threads : t # th => pc'[t] = pc[t] /\ ml'[t] = ml[t]
  BY OthersKeepPlace DEF Quiet, MessagesTyped
<1>2. server_messages' = server_messages /\ MessageIds' = MessageIds /\ pc[th] \notin {P3, D3} /\ q \notin {P3, D3}
  BY DEF Quiet, MessageIds
<1>3. \A t \in Threads : (pc'[t] = P3 <=> pc[t] = P3) /\ (pc[t] = P3 => ml'[t] = ml[t])
                      /\ (pc'[t] = D3 <=> pc[t] = D3) /\ (pc[t] = D3 => ml'[t] = ml[t])
  BY <1>1, <1>2
<1>4. \A t \in Threads : pc'[t] = P3 => ml'[t].id \in MessageIds' /\ ~server_messages'[ml'[t].id].deleted
  BY <1>2, <1>3 DEF RowsApart
<1>5. \A t, u \in Threads : pc'[t] = P3 /\ pc'[u] = P3 /\ ml'[t].id = ml'[u].id => t = u
  BY <1>3 DEF RowsApart
<1>6. \A v \in Threads : pc'[v] \in {D2, D3} =>
          /\ ml'[v].id \in MessageIds'
          /\ \A t \in Threads : pc'[t] = P3 => ml'[t].id # ml'[v].id
  BY <1>1, <1>2, <1>3 DEF RowsApart
<1>7. \A t \in Threads : pc'[t] = D3 => server_messages'[ml'[t].id].deleted
  BY <1>2, <1>3 DEF RowsApart
<1> QED BY <1>4, <1>5, <1>6, <1>7, Zenon DEF RowsApart

LEMMA QuietMemory ==
  ASSUME MessagesTyped, MemoryInv, NEW th \in Threads, NEW q, Quiet(th, q),
         q \in PostPlaces \cup ErasePlaces =>
             pc[th] \in PostPlaces \cup ErasePlaces \/ mixed' \/ \A t \in Threads : pc[t] \notin DownloadPlaces,
         q \in DownloadPlaces =>
             \/ pc[th] \in DownloadPlaces
             \/ mixed'
             \/ \A t \in Threads : pc[t] \notin PostPlaces \cup ErasePlaces \cup DownloadPlaces,
         ~mixed => ThreadDownloads(q, server_messages, ChannelMessages, ml'[th])
  PROVE  MemoryInv'
<1> SUFFICES ASSUME ~mixed' PROVE DownloadsApart' /\ PushedNew' /\ Downloads' /\ EntriesApart' /\ Marking'
  BY Zenon DEF MemoryInv
<1>0. ~mixed /\ DownloadsApart /\ PushedNew /\ Downloads /\ EntriesApart /\ Marking
  BY DEF MemoryInv, Quiet
<1>1. pc'[th] = q /\ \A t \in Threads : t # th => pc'[t] = pc[t] /\ ml'[t] = ml[t]
  BY OthersKeepPlace DEF Quiet, MessagesTyped
<1>2. server_messages' = server_messages /\ ChannelMessages' = ChannelMessages
  BY DEF Quiet
<1>3. pc[th] \notin {P3, D3} /\ q \notin {P3, D3}
  BY DEF Quiet
<1>4. \A t \in Threads : (pc'[t] = P3 <=> pc[t] = P3) /\ (pc[t] = P3 => ml'[t] = ml[t])
                      /\ (pc'[t] = D3 <=> pc[t] = D3) /\ (pc[t] = D3 => ml'[t] = ml[t])
  BY <1>1, <1>3
<1>5. DownloadsApart'
  BY <1>0, <1>1, PlacesDiffer DEF DownloadPlaces, PagePlaces, DownloadsApart
<1>6. PushedNew'
  BY <1>0, <1>2, <1>4 DEF PushedNew
<1>7. Downloads'
  BY <1>0, <1>1, <1>2 DEF Downloads
<1>8. EntriesApart'
  BY <1>0, <1>2 DEF EntriesApart
<1>9. Marking'
  BY <1>0, <1>2, <1>4 DEF Marking
<1> QED BY <1>5, <1>6, <1>7, <1>8, <1>9

LEMMA QuietPosts ==
  ASSUME MessagesTyped, PostsApart, MemoryIsRecent, NEW th \in Threads, NEW q, Quiet(th, q),
         q \in PostPlaces => pc[th] \in PostPlaces \/ crossed' \/ \A t \in Threads : pc[t] \notin PostPlaces
  PROVE  PostsApart' /\ MemoryIsRecent'
<1>1. pc'[th] = q /\ \A t \in Threads : t # th => pc'[t] = pc[t] /\ ml'[t] = ml[t]
  BY OthersKeepPlace DEF Quiet, MessagesTyped
<1>2. /\ server_messages' = server_messages /\ ChannelMessages' = ChannelMessages /\ downloaded' = downloaded
      /\ (crossed => crossed') /\ pc[th] \notin {P3, D3} /\ q \notin {P3, D3}
  BY DEF Quiet
<1>3. \A t \in Threads : (pc'[t] = P3 <=> pc[t] = P3) /\ (pc[t] = P3 => ml'[t] = ml[t])
  BY <1>1, <1>2
<1>4. PostsApart'
  BY <1>1, <1>2, <1>3 DEF PostsApart
<1>5. OnTheirWay' = OnTheirWay
  <2>1. (\A t \in Threads : pc[t] \in MessagePlaces) /\ \A t \in Threads : pc'[t] \in MessagePlaces
    BY OthersKeepPlace DEF MessagesTyped, Quiet
  <2>2. OnTheirWay' = {ml'[t].id : t \in {u \in Threads : pc'[u] = P3}}
    BY <2>1, OnTheirWayNext
  <2>3. OnTheirWay = {ml[t].id : t \in {u \in Threads : pc[u] = P3}}
    BY <2>1, MessageThreads
  <2> QED BY <1>3, <2>2, <2>3
<1>6. MemoryIsRecent'
  BY <1>2, <1>5 DEF MemoryIsRecent
<1> QED BY <1>4, <1>6

(***************************************************************************)
(* Pages.                                                                  *)
(***************************************************************************)
LEMMA NewestIs ==
  ASSUME NEW S, S \subseteq Nat, NEW s \in Newest(S)
  PROVE  /\ Len(s) \in 0..Limit /\ s \in [1..Len(s) -> S] /\ DOMAIN s = 1..Len(s)
         /\ \A i, j \in 1..Len(s) : s[i] = s[j] => i = j
         /\ s = <<>> => S = {}
         /\ \A x \in S : (\E i \in 1..Len(s) : s[i] = x) \/ Len(s) = Limit
<1>1. PICK n \in 0..Limit : s \in [1..n -> S]
  BY DEF Newest
<1>2. Len(s) = n /\ DOMAIN s = 1..Len(s) /\ n \in Nat
  BY <1>1, MessagesAssumption
<1>3. \A i, j \in 1..n : s[i] = s[j] => i = j
  <2> SUFFICES ASSUME NEW i \in 1..n, NEW j \in 1..n, s[i] = s[j] PROVE i = j
    OBVIOUS
  <2>1. (i < j => s[j] < s[i]) /\ (j < i => s[i] < s[j])
    BY <1>1, <1>2 DEF Newest
  <2>2. s[i] \in Nat /\ s[j] \in Nat
    BY <1>1
  <2>3. ~(i < j) /\ ~(j < i)
    BY <2>1, <2>2
  <2> QED BY <1>2, <2>3
<1>4. \A x \in S : (\E i \in 1..Len(s) : s[i] = x) \/ Len(s) = Limit
  BY <1>1, <1>2 DEF Newest
<1>5. s = <<>> => S = {}
  BY <1>2, <1>4, MessagesAssumption
<1> QED BY <1>1, <1>2, <1>3, <1>4, <1>5

LEMMA CachedPageIs ==
  ASSUME MessagesTyped, NEW b, NEW page \in CachedPages(b)
  PROVE  /\ page \in Seq(EntryOf(MessageIds))
         /\ page = <<>> => NoneOlder(server_messages, ChannelMessages, b)
<1> DEFINE S == OlderEntries(b)
<1>1. PICK s \in Newest(S) : page = [i \in DOMAIN s |-> ChannelMessages[s[i]]]
  BY Zenon DEF CachedPages
<1>2. ChannelMessages \in Seq(EntryOf(MessageIds)) /\ DOMAIN ChannelMessages = 1..Len(ChannelMessages)
  BY DEF MessagesTyped
<1>3. S \subseteq DOMAIN ChannelMessages /\ S \subseteq Nat
  BY <1>2 DEF OlderEntries
<1> HIDE DEF S
<1>4. Len(s) \in Nat /\ s \in [1..Len(s) -> S] /\ DOMAIN s = 1..Len(s) /\ (s = <<>> => S = {})
  BY <1>3, NewestIs, MessagesAssumption
<1>5. page \in [1..Len(s) -> EntryOf(MessageIds)]
  BY <1>1, <1>2, <1>3, <1>4
<1>6. page \in Seq(EntryOf(MessageIds))
  BY <1>4, <1>5
<1>7. page = <<>> => s = <<>>
  BY <1>1, <1>4
<1>8. S = {} => NoneOlder(server_messages, ChannelMessages, b)
  BY SamePages DEF S, OlderEntries, NoneOlder
<1> QED BY <1>4, <1>6, <1>7, <1>8

LEMMA TablePageIs ==
  ASSUME MessagesTyped, NEW b, NEW page \in TablePages(b), NoneOlder(server_messages, ChannelMessages, b)
  PROVE  /\ RowsFit(server_messages, ChannelMessages, page)
         /\ Appended(server_messages, ChannelMessages, page, b, 0)
<1> DEFINE S == {id \in 1..Len(server_messages) : OlderIn(server_messages, id, b)}
<1>0. page \in PagesIn(server_messages, b)
  BY SamePages
<1>1. PICK s \in Newest(S) : page = [i \in DOMAIN s |-> [id |-> s[i], deleted |-> server_messages[s[i]].deleted]]
  BY <1>0, Zenon DEF PagesIn
<1>2. S \subseteq Nat /\ \A id \in S : OlderIn(server_messages, id, b)
  BY DEF MessagesTyped
<1> HIDE DEF S
<1>3. /\ Len(s) \in 0..Limit /\ s \in [1..Len(s) -> S] /\ DOMAIN s = 1..Len(s)
      /\ \A i, j \in 1..Len(s) : s[i] = s[j] => i = j
  BY <1>2, NewestIs
<1>4. DOMAIN page = 1..Len(s) /\ \A i \in 1..Len(s) : page[i] = [id |-> s[i], deleted |-> server_messages[s[i]].deleted]
  BY <1>1, <1>3
<1>5. Len(page) = Len(s)
  BY <1>1, <1>3, MessagesAssumption
<1>6. \A i \in DOMAIN page : page[i].id = s[i] /\ page[i].deleted = server_messages[s[i]].deleted /\ s[i] \in S
  BY <1>3, <1>4
<1>7. ChannelMessages \in Seq(EntryOf(MessageIds)) /\ Len(ChannelMessages) \in Nat
      /\ DOMAIN ChannelMessages = 1..Len(ChannelMessages)
  BY DEF MessagesTyped
<1>8. \A i \in DOMAIN page : OlderIn(server_messages, page[i].id, b)
  BY <1>2, <1>6
<1>9. RowsFit(server_messages, ChannelMessages, page)
  BY <1>3, <1>4, <1>6, <1>8 DEF NoneOlder, RowsFit
<1>10. Appended(server_messages, ChannelMessages, page, b, 0)
  BY <1>0, <1>3, <1>5, <1>7, <1>8, MessagesAssumption DEF NoneOlder, LastIds, Appended
<1> QED BY <1>9, <1>10

LEMMA RowsTyped ==
  ASSUME MessagesTyped
  PROVE  /\ Len(server_messages) \in Nat /\ DOMAIN server_messages = MessageIds /\ MessageIds = 1..Len(server_messages)
         /\ \A id \in MessageIds : server_messages[id] \in [at : 1..clock, deleted : BOOLEAN]
         /\ \A id \in MessageIds : server_messages[id].deleted \in BOOLEAN
<1> DEFINE R == [at : 1..clock, deleted : BOOLEAN]
<1>1. server_messages \in Seq(R)
  BY DEF MessagesTyped
<1>2. \A r \in R : r.deleted \in BOOLEAN
  OBVIOUS
<1> HIDE DEF R
<1>3. \A id \in 1..Len(server_messages) : server_messages[id] \in R
  BY <1>1
<1>4. Len(server_messages) \in Nat /\ DOMAIN server_messages = 1..Len(server_messages)
  BY <1>1
<1> QED BY <1>2, <1>3, <1>4 DEF MessageIds, R

LEMMA TablePageTyped ==
  ASSUME MessagesTyped, NEW b, NEW page \in TablePages(b)
  PROVE  page \in Seq(EntryOf(MessageIds))
<1> DEFINE S == OlderRows(b)
<1>1. PICK s \in Newest(S) : page = [i \in DOMAIN s |-> [id |-> s[i], deleted |-> server_messages[s[i]].deleted]]
  BY Zenon DEF TablePages
<1>2. S \subseteq MessageIds /\ S \subseteq Nat
  BY DEF OlderRows, MessagesTyped, MessageIds
<1> HIDE DEF S
<1>3. Len(s) \in Nat /\ s \in [1..Len(s) -> S] /\ DOMAIN s = 1..Len(s)
  <2>1. Len(s) \in 0..Limit /\ s \in [1..Len(s) -> S] /\ DOMAIN s = 1..Len(s)
    BY <1>1, <1>2, NewestIs
  <2> QED BY <2>1, MessagesAssumption
<1>4. \A id \in MessageIds : server_messages[id].deleted \in BOOLEAN
  BY RowsTyped
<1>5. page \in [1..Len(s) -> EntryOf(MessageIds)]
  BY <1>1, <1>2, <1>3, <1>4 DEF EntryOf
<1> QED BY <1>3, <1>5

(***************************************************************************)
(* The steps that leave the table and the vector alone, one by one.        *)
(***************************************************************************)
LEMMA LocalsGrow ==
  ASSUME MessagesTyped, clock' \in Nat, clock <= clock', Len(server_messages') \in Nat,
         Len(server_messages) <= Len(server_messages')
  PROVE  /\ MessageLocals \subseteq MessageLocals'
         /\ MessageIds \subseteq MessageIds'
         /\ Seq(EntryOf(MessageIds)) \subseteq Seq(EntryOf(MessageIds'))
<1>1. Len(server_messages) \in Nat /\ clock \in Nat
  BY RowsTyped, MessagesAssumption DEF MessagesTyped
<1>2. MessageIds \subseteq MessageIds'
  BY <1>1 DEF MessageIds
<1>3. EntryOf(MessageIds) \subseteq EntryOf(MessageIds')
  BY <1>2 DEF EntryOf
<1>4. Seq(EntryOf(MessageIds)) \subseteq Seq(EntryOf(MessageIds'))
  BY <1>3, SeqMonotonic
<1>5. 0..Len(server_messages) \subseteq 0..Len(server_messages') /\ 0..clock \subseteq 0..clock'
  BY <1>1
<1> QED BY <1>2, <1>4, <1>5 DEF MessageLocals

\* The types after a step that rewrites one thread's locals at most.
LEMMA TypesFrom ==
  ASSUME MessagesTyped, NEW th \in Threads, NEW q \in MessagePlaces, Moved(th, q),
         clock' \in 0..MaxMessages, clock <= clock', Len(server_messages) <= Len(server_messages'),
         server_messages' \in Seq([at : 1..clock', deleted : BOOLEAN]),
         ChannelMessages' \in Seq(EntryOf(MessageIds')),
         NEW rec \in MessageLocals', ml' = [ml EXCEPT ![th] = rec] \/ ml' = ml,
         mixed' \in BOOLEAN, crossed' \in BOOLEAN, downloaded' \in BOOLEAN
  PROVE  MessagesTyped'
<1>1. Len(server_messages') \in Nat /\ clock' \in Nat
  BY MessagesAssumption
<1>2. MessageLocals \subseteq MessageLocals'
  BY <1>1, LocalsGrow
<1>3. ml \in [Threads -> MessageLocals]
  BY DEF MessagesTyped
<1>4. ml' \in [Threads -> MessageLocals']
  BY <1>2, <1>3
<1>5. pc' \in [Threads -> MessagePlaces]
  BY OthersKeepPlace DEF MessagesTyped
<1> QED BY <1>4, <1>5, Zenon DEF MessagesTyped

LEMMA QuietTypes ==
  ASSUME MessagesTyped, NEW th \in Threads, NEW q, Quiet(th, q), clock' = clock,
         NEW rec \in MessageLocals, ml' = [ml EXCEPT ![th] = rec] \/ ml' = ml,
         mixed' \in BOOLEAN, crossed' \in BOOLEAN
  PROVE  MessagesTyped'
<1>1. /\ server_messages' = server_messages /\ ChannelMessages' = ChannelMessages /\ downloaded' = downloaded
      /\ Moved(th, q) /\ q \in MessagePlaces
  BY DEF Quiet
<1>2. MessageIds' = MessageIds
  BY <1>1 DEF MessageIds
<1>3. MessageLocals' = MessageLocals
  BY <1>1, <1>2 DEF MessageLocals
<1>4. ml' \in [Threads -> MessageLocals']
  BY <1>3 DEF MessagesTyped
<1>5. pc' \in [Threads -> MessagePlaces]
  BY <1>1, OthersKeepPlace DEF MessagesTyped
<1>6. /\ server_messages' \in Seq([at : 1..clock', deleted : BOOLEAN]) /\ clock' \in 0..MaxMessages
      /\ ChannelMessages' \in Seq(EntryOf(MessageIds')) /\ downloaded' \in BOOLEAN
  BY <1>1, <1>2 DEF MessagesTyped
<1> QED BY <1>4, <1>5, <1>6, Zenon DEF MessagesTyped

LEMMA ThreadTyped ==
  ASSUME MessagesTyped, NEW th \in Threads
  PROVE  /\ ml[th] \in MessageLocals /\ pc[th] \in MessagePlaces /\ DOMAIN ml = Threads
         /\ ml[th].id \in 0..Len(server_messages) /\ ml[th].at \in 0..clock /\ ml[th].before \in 0..MaxMessages
         /\ ml[th].rows \in Seq(EntryOf(MessageIds)) /\ ml[th].answer \in Seq(EntryOf(MessageIds))
         /\ ml[th].fetched \in BOOLEAN
  BY DEF MessagesTyped, MessageLocals

LEMMA NoCallTyped ==
  ASSUME MessagesTyped
  PROVE  /\ NoMessageCall \in MessageLocals
         /\ NoMessageCall.rows = <<>> /\ NoMessageCall.fetched = FALSE
  BY RowsTyped, MessagesAssumption DEF MessagesTyped, NoMessageCall, MessageLocals

\* All that is left to show of a quiet step.
LEMMA QuietKeeps ==
  ASSUME MessagesInv, MessagesTyped', NEW th \in Threads, NEW q, Quiet(th, q),
         q = P2 => ml'[th].at >= 1, q # G3 => ml'[th].rows = <<>>, q \notin {G3, G4, G5} => ~ml'[th].fetched,
         q = D2 => ml'[th].id \in MessageIds /\ \A t \in Threads : pc[t] = P3 => ml[t].id # ml'[th].id,
         q \in PostPlaces \cup ErasePlaces =>
             pc[th] \in PostPlaces \cup ErasePlaces \/ mixed' \/ \A t \in Threads : pc[t] \notin DownloadPlaces,
         q \in DownloadPlaces =>
             \/ pc[th] \in DownloadPlaces
             \/ mixed'
             \/ \A t \in Threads : pc[t] \notin PostPlaces \cup ErasePlaces \cup DownloadPlaces,
         ~mixed => ThreadDownloads(q, server_messages, ChannelMessages, ml'[th]),
         q \in PostPlaces => pc[th] \in PostPlaces \/ crossed' \/ \A t \in Threads : pc[t] \notin PostPlaces
  PROVE  MessagesInv'
  BY MovedLocals, QuietRows, QuietMemory, QuietPosts DEF MessagesInv, Quiet

\* A place that has no claim on the download.
LEMMA NoDownload ==
  ASSUME NEW q, q \notin {G2, G3, G4}, NEW table, NEW vector, NEW local
  PROVE  ThreadDownloads(q, table, vector, local)
BY DEF ThreadDownloads

LEMMA ReplyKeepsMessages ==
  ASSUME MessagesInv, NEW th \in Threads, MessageReply(th)
  PROVE  MessagesInv'
<1>1. MessagesTyped /\ pc[th] \in MessagePlaces
  BY ThreadTyped DEF MessagesInv
<1>2. pc[th] \in {P4, D4, G5} /\ Moved(th, <<>>)
  BY <1>1, MessageMoves
<1>3. /\ ml' = [ml EXCEPT ![th] = NoMessageCall] /\ server_messages' = server_messages /\ clock' = clock
      /\ ChannelMessages' = ChannelMessages /\ mixed' = mixed /\ crossed' = crossed /\ downloaded' = downloaded
  BY DEF MessageReply
<1>4. Quiet(th, <<>>)
  BY <1>2, <1>3, PlacesDiffer DEF MessagePlaces, PostPlaces, ErasePlaces, PagePlaces, Quiet
<1>5. MessagesTyped'
  BY <1>1, <1>3, <1>4, NoCallTyped, QuietTypes DEF MessagesTyped
<1>6. ml'[th] = NoMessageCall
  BY <1>1, <1>3, ThreadTyped
<1>7. <<>> \notin PostPlaces \cup ErasePlaces \cup PagePlaces /\ <<>> \notin DownloadPlaces
  BY PlacesDiffer DEF DownloadPlaces, PagePlaces
<1>8. <<>> # P2 /\ <<>> # D2 /\ <<>> \notin {G2, G3, G4}
  BY <1>7 DEF PostPlaces, ErasePlaces, PagePlaces
<1>9. ThreadDownloads(<<>>, server_messages, ChannelMessages, ml'[th])
  BY <1>8, NoDownload
<1> QED BY <1>1, <1>4, <1>5, <1>6, <1>7, <1>8, <1>9, NoCallTyped, QuietKeeps

LEMMA PostBegins ==
  ASSUME MessagesInv, NEW th \in Threads, ServerMessage(th)
  PROVE  MessagesInv'
<1>1. MessagesTyped /\ LocalsFit
  BY DEF MessagesInv
<1>2. pc[th] = <<>> /\ Moved(th, P1)
  BY MessageEnter DEF BeginMessageCall, ServerMessage
<1>3. /\ ml' = ml /\ server_messages' = server_messages /\ clock' = clock
      /\ ChannelMessages' = ChannelMessages /\ downloaded' = downloaded
      /\ crossed' = (crossed \/ BusyIn(Posts)) /\ mixed' = (mixed \/ SomeDownload)
  BY DEF BeginMessageCall, ServerMessage
<1>4. Quiet(th, P1)
  BY <1>2, <1>3, PlacesDiffer DEF MessagePlaces, PostPlaces, ErasePlaces, PagePlaces, Quiet
<1>5. MessagesTyped'
  BY <1>1, <1>3, <1>4, NoCallTyped, QuietTypes DEF MessagesTyped
<1>6. \A t \in Threads : pc[t] \in MessagePlaces
  BY <1>1 DEF MessagesTyped
<1>7. /\ SomeDownload <=> \E t \in Threads : pc[t] \in DownloadPlaces
      /\ BusyIn(Posts) <=> \E t \in Threads : pc[t] \in PostPlaces
  BY <1>6, MessageThreads
<1>8. ml'[th].rows = <<>> /\ ~ml'[th].fetched
  BY <1>1, <1>2, <1>3, PlacesDiffer DEF PagePlaces, LocalsFit
<1>9. P1 # P2 /\ P1 # D2 /\ P1 \notin {G2, G3, G4} /\ P1 \notin DownloadPlaces
  BY PlacesDiffer DEF DownloadPlaces, PostPlaces, ErasePlaces, PagePlaces
<1>10. ThreadDownloads(P1, server_messages, ChannelMessages, ml'[th])
  BY <1>9, NoDownload
<1> QED BY <1>3, <1>4, <1>5, <1>7, <1>8, <1>9, <1>10, QuietKeeps

LEMMA EraseBegins ==
  ASSUME MessagesInv, NEW th \in Threads, HandleServerMessageDelete(th)
  PROVE  MessagesInv'
<1>1. MessagesTyped /\ LocalsFit
  BY DEF MessagesInv
<1>2. pc[th] = <<>> /\ Moved(th, D1)
  BY MessageEnter DEF BeginMessageCall, HandleServerMessageDelete
<1>3. /\ ml' = ml /\ server_messages' = server_messages /\ clock' = clock
      /\ ChannelMessages' = ChannelMessages /\ downloaded' = downloaded
      /\ mixed' = (mixed \/ SomeDownload) /\ crossed' = crossed
  BY DEF BeginMessageCall, HandleServerMessageDelete
<1>4. Quiet(th, D1)
  BY <1>2, <1>3, PlacesDiffer DEF MessagePlaces, PostPlaces, ErasePlaces, PagePlaces, Quiet
<1>5. MessagesTyped'
  BY <1>1, <1>3, <1>4, NoCallTyped, QuietTypes DEF MessagesTyped
<1>6. \A t \in Threads : pc[t] \in MessagePlaces
  BY <1>1 DEF MessagesTyped
<1>7. /\ SomeDownload <=> \E t \in Threads : pc[t] \in DownloadPlaces
      /\ BusyIn(Posts) <=> \E t \in Threads : pc[t] \in PostPlaces
  BY <1>6, MessageThreads
<1>8. ml'[th].rows = <<>> /\ ~ml'[th].fetched
  BY <1>1, <1>2, <1>3, PlacesDiffer DEF PagePlaces, LocalsFit
<1>9. D1 # P2 /\ D1 # D2 /\ D1 \notin {G2, G3, G4} /\ D1 \notin DownloadPlaces
  BY PlacesDiffer DEF DownloadPlaces, PostPlaces, ErasePlaces, PagePlaces
<1>10. ThreadDownloads(D1, server_messages, ChannelMessages, ml'[th])
  BY <1>9, NoDownload
<1>11. D1 \notin PostPlaces
  BY PlacesDiffer DEF ErasePlaces
<1> QED BY <1>3, <1>4, <1>5, <1>7, <1>8, <1>9, <1>10, <1>11, QuietKeeps

LEMMA PageBegins ==
  ASSUME MessagesInv, NEW th \in Threads, HandleGetServerMessages(th)
  PROVE  MessagesInv'
<1>1. MessagesTyped /\ LocalsFit
  BY DEF MessagesInv
<1>2. pc[th] = <<>> /\ Moved(th, G1)
  BY MessageEnter DEF BeginMessageCall, HandleGetServerMessages
<1>3. /\ ml' = ml /\ server_messages' = server_messages /\ clock' = clock
      /\ ChannelMessages' = ChannelMessages /\ downloaded' = downloaded
      /\ mixed' = mixed /\ crossed' = crossed
  BY DEF BeginMessageCall, HandleGetServerMessages
<1>4. Quiet(th, G1)
  BY <1>2, <1>3, PlacesDiffer DEF MessagePlaces, PostPlaces, ErasePlaces, PagePlaces, Quiet
<1>5. MessagesTyped'
  BY <1>1, <1>3, <1>4, NoCallTyped, QuietTypes DEF MessagesTyped
<1>6. \A t \in Threads : pc[t] \in MessagePlaces
  BY <1>1 DEF MessagesTyped
<1>7. /\ SomeDownload <=> \E t \in Threads : pc[t] \in DownloadPlaces
      /\ BusyIn(Posts) <=> \E t \in Threads : pc[t] \in PostPlaces
  BY <1>6, MessageThreads
<1>8. ml'[th].rows = <<>> /\ ~ml'[th].fetched
  BY <1>1, <1>2, <1>3, PlacesDiffer DEF PagePlaces, LocalsFit
<1>9. G1 # P2 /\ G1 # D2 /\ G1 \notin {G2, G3, G4} /\ G1 \notin DownloadPlaces
  BY PlacesDiffer DEF DownloadPlaces, PostPlaces, ErasePlaces, PagePlaces
<1>10. ThreadDownloads(G1, server_messages, ChannelMessages, ml'[th])
  BY <1>9, NoDownload
<1>11. G1 \notin PostPlaces \cup ErasePlaces
  BY PlacesDiffer DEF PagePlaces
<1> QED BY <1>3, <1>4, <1>5, <1>7, <1>8, <1>9, <1>10, <1>11, QuietKeeps

LEMMA StampKeeps ==
  ASSUME MessagesInv, NEW th \in Threads, StampMessage(th)
  PROVE  MessagesInv'
<1>1. MessagesTyped /\ LocalsFit /\ pc[th] \in MessagePlaces
  BY ThreadTyped DEF MessagesInv
<1>2. pc[th] = P1 /\ Moved(th, P2)
  BY <1>1, MessageMoves
<1>3. /\ ml' = [ml EXCEPT ![th] = [ml[th] EXCEPT !.at = clock']] /\ server_messages' = server_messages
      /\ clock' = clock + 1 /\ clock < MaxMessages
      /\ ChannelMessages' = ChannelMessages /\ downloaded' = downloaded /\ mixed' = mixed /\ crossed' = crossed
  BY DEF StampMessage, Local
<1>4. Quiet(th, P2)
  BY <1>1, <1>2, <1>3, PlacesDiffer, ThreadTyped DEF MessagePlaces, PostPlaces, ErasePlaces, Quiet
<1>5. PICK rec : rec = [ml[th] EXCEPT !.at = clock']
  OBVIOUS
<1>6. clock \in Nat /\ clock' \in 0..MaxMessages /\ clock' >= 1 /\ clock <= clock' /\ clock' \in 0..clock'
  BY <1>1, <1>3, MessagesAssumption DEF MessagesTyped
<1>7. Len(server_messages') = Len(server_messages) /\ Len(server_messages) \in Nat /\ MessageIds' = MessageIds
  BY <1>1, <1>3, RowsTyped DEF MessageIds
<1>8. MessageLocals \subseteq MessageLocals'
  BY <1>1, <1>6, <1>7, MessagesAssumption, LocalsGrow
<1>9. rec \in MessageLocals' /\ rec.at = clock' /\ rec.rows = ml[th].rows /\ rec.fetched = ml[th].fetched
  BY <1>1, <1>5, <1>6, <1>8, ThreadTyped DEF MessageLocals
<1>10. MessagesTyped'
  <2>1. server_messages' \in Seq([at : 1..clock', deleted : BOOLEAN])
    <3>1. [at : 1..clock, deleted : BOOLEAN] \subseteq [at : 1..clock', deleted : BOOLEAN]
      BY <1>3, <1>6
    <3>2. server_messages \in Seq([at : 1..clock, deleted : BOOLEAN])
      BY <1>1 DEF MessagesTyped
    <3>3. Seq([at : 1..clock, deleted : BOOLEAN]) \subseteq Seq([at : 1..clock', deleted : BOOLEAN])
      BY <3>1, SeqMonotonic
    <3> QED BY <1>3, <3>2, <3>3
  <2>2. ChannelMessages' \in Seq(EntryOf(MessageIds')) /\ downloaded' \in BOOLEAN /\ mixed' \in BOOLEAN /\ crossed' \in BOOLEAN
    BY <1>1, <1>3, <1>7 DEF MessagesTyped
  <2>3. ml' = [ml EXCEPT ![th] = rec] /\ P2 \in MessagePlaces
    BY <1>3, <1>5 DEF MessagePlaces, PostPlaces
  <2>4. clock <= clock' /\ Len(server_messages) <= Len(server_messages')
    BY <1>6, <1>7
  <2> QED BY <1>1, <1>2, <1>6, <1>9, <2>1, <2>2, <2>3, <2>4, TypesFrom
<1>11. ml'[th] = rec
  BY <1>1, <1>3, <1>5, ThreadTyped
<1>12. ml[th].rows = <<>> /\ ~ml[th].fetched
  BY <1>1, <1>2, PlacesDiffer DEF PostPlaces, PagePlaces, LocalsFit
<1>13. P2 # D2 /\ P2 \notin {G2, G3, G4} /\ P2 \notin DownloadPlaces /\ P1 \in PostPlaces
  BY PlacesDiffer DEF DownloadPlaces, PostPlaces, ErasePlaces, PagePlaces
<1>14. ThreadDownloads(P2, server_messages, ChannelMessages, ml'[th])
  BY <1>13, NoDownload
<1>15. (P2 = P2 => ml'[th].at >= 1) /\ ml'[th].rows = <<>> /\ ~ml'[th].fetched
  BY <1>6, <1>9, <1>11, <1>12
<1> QED BY <1>2, <1>4, <1>10, <1>13, <1>14, <1>15, QuietKeeps

\* A call that ends early.
LEMMA GivesUpKeeps ==
  ASSUME MessagesInv, NEW th \in Threads, NEW q,
         (pc[th] = P2 /\ q = P4) \/ (pc[th] \in {D1, D2} /\ q = D4), Moved(th, q),
         ml' = ml, server_messages' = server_messages, clock' = clock,
         ChannelMessages' = ChannelMessages, downloaded' = downloaded, mixed' = mixed, crossed' = crossed
  PROVE  MessagesInv'
  BY PlacesDiffer, NoCallTyped, QuietTypes, NoDownload, QuietKeeps DEF MessagesInv, DownloadPlaces,
     PostPlaces, ErasePlaces, PagePlaces, MessagePlaces, Quiet, MessagesTyped, LocalsFit

LEMMA OwnerKeeps ==
  ASSUME MessagesInv, NEW th \in Threads, NEW id \in MessageIds, NEW allowed \in BOOLEAN,
         GetServerMessageOwnerFromDB(th, id, allowed)
  PROVE  MessagesInv'
<1>1. MessagesTyped /\ LocalsFit /\ pc[th] \in MessagePlaces /\ D1 \in ErasePlaces
  BY ThreadTyped DEF MessagesInv, ErasePlaces
<1>2. pc[th] = D1 /\ (Advance(th) => Moved(th, D2)) /\ (Return(th) => Moved(th, D4))
  BY <1>1, MessageMoves DEF GetServerMessageOwnerFromDB
<1>3. /\ server_messages' = server_messages /\ clock' = clock
      /\ ChannelMessages' = ChannelMessages /\ mixed' = mixed /\ crossed' = crossed /\ downloaded' = downloaded
  BY DEF GetServerMessageOwnerFromDB
<1>4. CASE allowed
  <2>1. ml' = [ml EXCEPT ![th] = [ml[th] EXCEPT !.id = id]] /\ Moved(th, D2) /\ id \notin OnTheirWay
    BY <1>2, <1>4 DEF GetServerMessageOwnerFromDB, Local
  <2>2. PICK rec : rec = [ml[th] EXCEPT !.id = id]
    OBVIOUS
  <2>3. rec \in MessageLocals /\ rec.id = id /\ rec.rows = ml[th].rows /\ rec.fetched = ml[th].fetched
    <3>1. id \in 0..Len(server_messages)
      BY <1>1, RowsTyped
    <3> QED BY <1>1, <2>2, <3>1, ThreadTyped DEF MessageLocals
  <2>4. ml'[th] = rec /\ \A t \in Threads : t # th => ml'[t] = ml[t]
    BY <1>1, <2>1, <2>2, ThreadTyped
  <2>5. Quiet(th, D2)
    BY <1>2, <1>3, <2>1, <2>4, PlacesDiffer DEF MessagePlaces, PostPlaces, ErasePlaces, Quiet
  <2>6. MessagesTyped'
    BY <1>1, <1>3, <2>1, <2>2, <2>3, <2>5, QuietTypes DEF MessagesTyped
  <2>7. ml[th].rows = <<>> /\ ~ml[th].fetched
    BY <1>1, <1>2, PlacesDiffer DEF ErasePlaces, PagePlaces, LocalsFit
  <2>8. \A t \in Threads : pc[t] = P3 => ml[t].id # id
    BY <1>1, <2>1, MessageThreads DEF MessagesTyped
  <2>9. D2 # P2 /\ D2 \notin {G2, G3, G4} /\ D2 # G3 /\ D2 \notin DownloadPlaces /\ D2 \notin PostPlaces
    BY PlacesDiffer DEF DownloadPlaces, PostPlaces, ErasePlaces, PagePlaces
  <2>10. ThreadDownloads(D2, server_messages, ChannelMessages, ml'[th])
    BY <2>9, NoDownload
  <2>11. ml'[th].rows = <<>> /\ ~ml'[th].fetched /\ ml'[th].id = id
    BY <2>3, <2>4, <2>7
  <2> QED BY <1>1, <1>2, <2>5, <2>6, <2>8, <2>9, <2>10, <2>11, QuietKeeps
<1>5. CASE ~allowed
  BY <1>2, <1>3, <1>5, GivesUpKeeps DEF GetServerMessageOwnerFromDB
<1> QED BY <1>4, <1>5

LEMMA NotFoundKeeps ==
  ASSUME MessagesInv, NEW th \in Threads, MessageNotFound(th)
  PROVE  MessagesInv'
  BY ThreadTyped, MessageMoves, GivesUpKeeps DEF MessagesInv, MessageNotFound, messageVars

LEMMA ReadPageKeeps ==
  ASSUME MessagesInv, NEW th \in Threads, NEW b \in 0..MaxMessages, ReadPage(th, b)
  PROVE  MessagesInv'
<1>1. MessagesTyped /\ LocalsFit /\ pc[th] \in MessagePlaces
  BY ThreadTyped DEF MessagesInv
<1>2. pc[th] = G1 /\ (Advance(th) => Moved(th, G5)) /\ (pc' = [pc EXCEPT ![th] = Download \o Tail(@)] => Moved(th, G2))
  BY <1>1, MessageMoves DEF ReadPage
<1>3. /\ server_messages' = server_messages /\ clock' = clock
      /\ ChannelMessages' = ChannelMessages /\ crossed' = crossed /\ downloaded' = downloaded
  BY DEF ReadPage
<1>4. PICK page \in CachedPages(b) :
          /\ ml' = [ml EXCEPT ![th] = [ml[th] EXCEPT !.before = b, !.answer = page]]
          /\ IF page # <<>>
             THEN Advance(th) /\ mixed' = mixed
             ELSE /\ pc' = [pc EXCEPT ![th] = Download \o Tail(@)]
                  /\ mixed' = (mixed \/ SomeDownload \/ BusyIn({"ServerMessage", "ServerMessageDelete"}))
  BY DEF ReadPage, Local
<1>5. page \in Seq(EntryOf(MessageIds)) /\ (page = <<>> => NoneOlder(server_messages, ChannelMessages, b))
  BY <1>1, CachedPageIs
<1>6. PICK rec : rec = [ml[th] EXCEPT !.before = b, !.answer = page]
  OBVIOUS
<1>7. rec \in MessageLocals /\ rec.rows = ml[th].rows /\ rec.fetched = ml[th].fetched /\ rec.before = b
  BY <1>1, <1>5, <1>6, ThreadTyped DEF MessageLocals
<1>8. ml' = [ml EXCEPT ![th] = rec]
  BY <1>4, <1>6
<1>9. ml'[th] = rec /\ \A t \in Threads : t # th => ml'[t] = ml[t]
  BY <1>1, <1>8, ThreadTyped
<1>10. ml[th].rows = <<>> /\ ~ml[th].fetched
  BY <1>1, <1>2, PlacesDiffer DEF LocalsFit
<1>11. ml'[th].rows = <<>> /\ ~ml'[th].fetched /\ ml'[th].before = b
  BY <1>7, <1>9, <1>10
<1>12. CASE page # <<>>
  <2>1. Moved(th, G5) /\ mixed' = mixed
    BY <1>2, <1>4, <1>12
  <2>2. Quiet(th, G5)
    BY <1>2, <1>3, <1>9, <2>1, PlacesDiffer DEF MessagePlaces, PostPlaces, ErasePlaces, PagePlaces,
       Quiet
  <2>3. MessagesTyped'
    BY <1>1, <1>3, <1>7, <1>8, <2>1, <2>2, QuietTypes DEF MessagesTyped
  <2>4. G5 # P2 /\ G5 # D2 /\ G5 \notin {G2, G3, G4} /\ G5 \notin DownloadPlaces /\ G5 \notin PostPlaces \cup ErasePlaces
    BY PlacesDiffer DEF DownloadPlaces, PostPlaces, ErasePlaces, PagePlaces
  <2>5. ThreadDownloads(G5, server_messages, ChannelMessages, ml'[th])
    BY <2>4, NoDownload
  <2> QED BY <1>11, <2>2, <2>3, <2>4, <2>5, QuietKeeps
<1>13. CASE page = <<>>
  <2>1. Moved(th, G2) /\ mixed' = (mixed \/ SomeDownload \/ BusyIn({"ServerMessage", "ServerMessageDelete"}))
    BY <1>2, <1>4, <1>13
  <2>2. Quiet(th, G2)
    BY <1>2, <1>3, <1>9, <2>1, PlacesDiffer DEF MessagePlaces, PostPlaces, ErasePlaces, PagePlaces,
       Quiet
  <2>3. MessagesTyped'
    BY <1>1, <1>3, <1>7, <1>8, <2>1, <2>2, QuietTypes DEF MessagesTyped
  <2>4. G2 # P2 /\ G2 # D2 /\ G2 \notin {G3, G4, G5} /\ G2 \in DownloadPlaces /\ G2 \notin PostPlaces \cup ErasePlaces
    BY PlacesDiffer DEF DownloadPlaces, PostPlaces, ErasePlaces, PagePlaces
  <2>5. ThreadDownloads(G2, server_messages, ChannelMessages, ml'[th])
    BY <1>5, <1>11, <1>13, <2>4 DEF ThreadDownloads
  <2>6. mixed' \/ \A t \in Threads : pc[t] \notin PostPlaces \cup ErasePlaces \cup DownloadPlaces
    BY <1>1, <2>1, MessageThreads DEF MessagesTyped
  <2> QED BY <1>11, <2>2, <2>3, <2>4, <2>5, <2>6, QuietKeeps
<1> QED BY <1>12, <1>13

LEMMA DownloadKeepsMessages ==
  ASSUME MessagesInv, NEW th \in Threads, DownloadMessagesFromDB(th)
  PROVE  MessagesInv'
<1>1. MessagesTyped /\ LocalsFit /\ MemoryInv /\ pc[th] \in MessagePlaces
  BY ThreadTyped DEF MessagesInv
<1>2. pc[th] = G2 /\ Moved(th, G3)
  BY <1>1, MessageMoves
<1>3. /\ server_messages' = server_messages /\ clock' = clock /\ mixed' = mixed
      /\ ChannelMessages' = ChannelMessages /\ crossed' = crossed /\ downloaded' = downloaded
  BY DEF DownloadMessagesFromDB
<1>4. G2 \in PagePlaces /\ G2 # G3 /\ G2 \notin {G3, G4, G5} /\ G3 # G2 /\ G3 # P2 /\ G3 # D2
      /\ G2 \in DownloadPlaces /\ G3 \notin PostPlaces \cup ErasePlaces
      /\ G2 \notin {P3, D3} /\ G3 \notin {P3, D3} /\ G3 \in MessagePlaces /\ G3 \in {G3, G4, G5}
  BY PlacesDiffer DEF DownloadPlaces, PostPlaces, ErasePlaces, PagePlaces, MessagePlaces
<1>5. ml[th].rows = <<>> /\ ~ml[th].fetched /\ (~mixed => NoneOlder(server_messages, ChannelMessages, ml[th].before))
  BY <1>1, <1>2, <1>4 DEF LocalsFit, MemoryInv, Downloads, ThreadDownloads
<1>6. CASE ml' = ml
  BY <1>1, <1>2, <1>3, <1>4, <1>5, <1>6, NoCallTyped, QuietTypes, QuietKeeps DEF Quiet,
     MessagesTyped, RowsFit, ThreadDownloads
<1>7. CASE \E rows \in TablePages(ml[th].before) : Local(th, [ml[th] EXCEPT !.rows = rows, !.fetched = TRUE])
  <2>1. PICK rows \in TablePages(ml[th].before) : ml' = [ml EXCEPT ![th] = [ml[th] EXCEPT !.rows = rows, !.fetched = TRUE]]
    BY <1>7 DEF Local
  <2>2. PICK rec : rec = [ml[th] EXCEPT !.rows = rows, !.fetched = TRUE]
    OBVIOUS
  <2>3. rows \in Seq(EntryOf(MessageIds))
    BY <1>1, TablePageTyped
  <2>4. rec \in MessageLocals /\ rec.rows = rows /\ rec.before = ml[th].before /\ rec.fetched
    BY <1>1, <2>2, <2>3, ThreadTyped DEF MessageLocals
  <2>5. ml' = [ml EXCEPT ![th] = rec]
    BY <2>1, <2>2
  <2>6. ml'[th] = rec /\ \A t \in Threads : t # th => ml'[t] = ml[t]
    BY <1>1, <2>5, ThreadTyped
  <2>7. Quiet(th, G3)
    BY <1>2, <1>3, <1>4, <2>6 DEF Quiet
  <2>8. MessagesTyped'
    BY <1>1, <1>3, <2>4, <2>5, <2>7, QuietTypes DEF MessagesTyped
  <2>9. ~mixed => ThreadDownloads(G3, server_messages, ChannelMessages, ml'[th])
    BY <1>1, <1>4, <1>5, <2>4, <2>6, TablePageIs, MessagesAssumption DEF ThreadDownloads
  <2> QED BY <1>2, <1>4, <2>7, <2>8, <2>9, QuietKeeps
<1> QED BY <1>6, <1>7 DEF DownloadMessagesFromDB

LEMMA PageAgainKeeps ==
  ASSUME MessagesInv, NEW th \in Threads, ReadPageAgain(th)
  PROVE  MessagesInv'
<1>1. MessagesTyped /\ LocalsFit /\ pc[th] \in MessagePlaces
  BY ThreadTyped DEF MessagesInv
<1>2. pc[th] = G4 /\ Moved(th, G5)
  BY <1>1, MessageMoves
<1>3. /\ server_messages' = server_messages /\ clock' = clock /\ mixed' = mixed
      /\ ChannelMessages' = ChannelMessages /\ crossed' = crossed /\ downloaded' = downloaded
  BY DEF ReadPageAgain
<1>4. PICK page \in CachedPages(ml[th].before) : ml' = [ml EXCEPT ![th] = [ml[th] EXCEPT !.answer = page]]
  BY DEF ReadPageAgain, Local
<1>5. PICK rec : rec = [ml[th] EXCEPT !.answer = page]
  OBVIOUS
<1>6. page \in Seq(EntryOf(MessageIds))
  BY <1>1, CachedPageIs
<1>7. rec \in MessageLocals /\ rec.rows = ml[th].rows /\ rec.before = ml[th].before /\ rec.fetched = ml[th].fetched
  BY <1>1, <1>5, <1>6, ThreadTyped DEF MessageLocals
<1>8. ml' = [ml EXCEPT ![th] = rec]
  BY <1>4, <1>5
<1>9. ml'[th] = rec /\ \A t \in Threads : t # th => ml'[t] = ml[t]
  BY <1>1, <1>8, ThreadTyped
<1>10. /\ G4 # G3 /\ G5 \in {G3, G4, G5} /\ G5 # P2 /\ G5 # D2 /\ G5 # G3 /\ G5 \notin DownloadPlaces /\ G5 \notin {G2, G3, G4}
       /\ G5 \notin PostPlaces \cup ErasePlaces /\ G4 \notin {P3, D3} /\ G5 \notin {P3, D3} /\ G5 \in MessagePlaces
  BY PlacesDiffer DEF DownloadPlaces, PostPlaces, ErasePlaces, PagePlaces, MessagePlaces
<1>11. Quiet(th, G5)
  BY <1>2, <1>3, <1>9, <1>10 DEF Quiet
<1>12. MessagesTyped'
  BY <1>1, <1>3, <1>7, <1>8, <1>11, QuietTypes DEF MessagesTyped
<1>13. ml'[th].rows = <<>>
  BY <1>1, <1>2, <1>7, <1>9, <1>10 DEF LocalsFit
<1>14. ThreadDownloads(G5, server_messages, ChannelMessages, ml'[th])
  BY <1>10, NoDownload
<1> QED BY <1>10, <1>11, <1>12, <1>13, <1>14, QuietKeeps

\* The last of the rows is in the vector.
LEMMA AppendEndKeeps ==
  ASSUME MessagesInv, NEW th \in Threads, AppendRow(th), ml[th].rows = <<>>
  PROVE  MessagesInv'
<1>1. MessagesTyped /\ LocalsFit /\ MemoryInv /\ pc[th] \in MessagePlaces
  BY ThreadTyped DEF MessagesInv
<1>2. pc[th] = G3 /\ Moved(th, G4)
  BY <1>1, MessageMoves DEF AppendRow
<1>3. /\ server_messages' = server_messages /\ clock' = clock /\ mixed' = mixed /\ ml' = ml
      /\ ChannelMessages' = ChannelMessages /\ crossed' = crossed /\ downloaded' = downloaded
  BY DEF AppendRow
<1>4. /\ G3 \in DownloadPlaces /\ G4 \in {G3, G4, G5} /\ G4 # P2 /\ G4 # D2 /\ G4 # G2 /\ G4 # G3
      /\ G4 \notin PostPlaces \cup ErasePlaces /\ G4 \notin {P3, D3} /\ G3 \notin {P3, D3} /\ G4 \in MessagePlaces
      /\ G3 \in {G3, G4}
  BY PlacesDiffer DEF DownloadPlaces, PostPlaces, ErasePlaces, PagePlaces, MessagePlaces
<1>5. Quiet(th, G4)
  BY <1>2, <1>3, <1>4 DEF Quiet
<1>6. MessagesTyped'
  BY <1>1, <1>3, <1>5, NoCallTyped, QuietTypes DEF MessagesTyped
<1>7. ~mixed => ThreadDownloads(G4, server_messages, ChannelMessages, ml'[th])
  BY <1>1, <1>2, <1>3, <1>4 DEF MemoryInv, Downloads, ThreadDownloads
<1> QED BY <1>2, <1>3, <1>4, <1>5, <1>6, <1>7, QuietKeeps

(***************************************************************************)
(* Posting: the row and the entry.                                         *)
(***************************************************************************)
LEMMA OnTheirWayIs ==
  ASSUME MessagesTyped
  PROVE  /\ OnTheirWay = {ml[t].id : t \in {u \in Threads : pc[u] = P3}}
         /\ IsFiniteSet(OnTheirWay) /\ Cardinality(OnTheirWay) \in Nat
<1>1. OnTheirWay = {ml[t].id : t \in {u \in Threads : pc[u] = P3}}
  BY MessageThreads DEF MessagesTyped
<1>2. OnTheirWay \subseteq 0..Len(server_messages)
  BY <1>1, ThreadTyped
<1>3. IsFiniteSet(0..Len(server_messages))
  BY RowsTyped, FS_Interval
<1> QED BY <1>1, <1>2, <1>3, FS_Subset, FS_CardinalityType

\* Nobody downloads while a post or a deletion goes on.
LEMMA NoDownloadsNow ==
  ASSUME DownloadsApart, NEW th \in Threads, pc[th] \in PostPlaces \cup ErasePlaces
  PROVE  \A t \in Threads : pc[t] \notin DownloadPlaces
BY DEF DownloadsApart

LEMMA StillNoDownloads ==
  ASSUME pc \in [Threads -> MessagePlaces], \A t \in Threads : pc[t] \notin DownloadPlaces,
         NEW th \in Threads, NEW q, Moved(th, q), q \notin DownloadPlaces
  PROVE  DownloadsApart' /\ Downloads'
  BY OthersKeepPlace, NoDownload DEF DownloadsApart, DownloadPlaces, Downloads

LEMMA UploadedKeeps ==
  ASSUME MessagesInv, NEW th \in Threads, AtStep(th, "upload"),
         server_messages' = Append(server_messages, [at |-> ml[th].at, deleted |-> FALSE]),
         ml' = [ml EXCEPT ![th] = [ml[th] EXCEPT !.id = Len(server_messages')]], Advance(th),
         clock' = clock, ChannelMessages' = ChannelMessages, mixed' = mixed, crossed' = crossed, downloaded' = downloaded
  PROVE  MessagesInv'
<1>0. MessagesTyped /\ LocalsFit /\ RowsApart /\ MemoryInv /\ PostsApart /\ MemoryIsRecent
  BY DEF MessagesInv
<1>1. pc[th] = P2 /\ Moved(th, P3)
  BY <1>0, ThreadTyped, MessageMoves
<1>2. pc \in [Threads -> MessagePlaces] /\ pc'[th] = P3 /\ \A t \in Threads : t # th => pc'[t] = pc[t]
  BY <1>0, <1>1, OthersKeepPlace DEF MessagesTyped
<1>3. PICK N : N = Len(server_messages)
  OBVIOUS
<1>4. PICK row : row = [at |-> ml[th].at, deleted |-> FALSE]
  OBVIOUS
<1>5. row \in [at : 1..clock, deleted : BOOLEAN] /\ row.deleted = FALSE
  BY <1>0, <1>1, <1>4, ThreadTyped, MessagesAssumption DEF LocalsFit, MessagesTyped
<1>6. /\ N \in Nat /\ server_messages' \in Seq([at : 1..clock, deleted : BOOLEAN]) /\ Len(server_messages') = N + 1
      /\ server_messages'[N + 1] = row /\ \A id \in 1..N : server_messages'[id] = server_messages[id]
  BY <1>0, <1>3, <1>4, <1>5 DEF MessagesTyped
<1>7. PICK rec : rec = [ml[th] EXCEPT !.id = N + 1]
  OBVIOUS
<1>8. ml' = [ml EXCEPT ![th] = rec]
  BY <1>6, <1>7
<1>9. MessageIds = 1..N /\ MessageIds' = 1..N + 1 /\ N + 1 \in MessageIds' /\ N + 1 \notin MessageIds
  BY <1>3, <1>6 DEF MessageIds
<1>10. MessageLocals \subseteq MessageLocals' /\ Seq(EntryOf(MessageIds)) \subseteq Seq(EntryOf(MessageIds'))
  <2>1. clock' \in Nat /\ clock <= clock' /\ Len(server_messages') \in Nat /\ Len(server_messages) <= Len(server_messages')
    BY <1>0, <1>3, <1>6, MessagesAssumption DEF MessagesTyped
  <2> QED BY <1>0, <2>1, LocalsGrow
<1>11. rec \in MessageLocals' /\ rec.id = N + 1 /\ rec.rows = ml[th].rows /\ rec.fetched = ml[th].fetched
  <2>1. ml[th] \in MessageLocals'
    BY <1>0, <1>10, ThreadTyped
  <2>2. N + 1 \in 0..Len(server_messages')
    BY <1>6
  <2> QED BY <1>7, <2>1, <2>2 DEF MessageLocals
<1>12. ml'[th] = rec /\ \A t \in Threads : t # th => ml'[t] = ml[t]
  BY <1>0, <1>8, ThreadTyped
<1>13. /\ P2 \in PostPlaces /\ P3 \in PostPlaces /\ P3 # P2 /\ P3 # G3 /\ P3 \notin {G3, G4, G5} /\ P3 \notin DownloadPlaces
       /\ P2 # G3 /\ P2 \notin {G3, G4, G5} /\ P2 # P3 /\ P2 # D3 /\ P3 # D3 /\ P3 # D2 /\ P3 \in MessagePlaces
  BY PlacesDiffer DEF DownloadPlaces, PostPlaces, ErasePlaces, PagePlaces, MessagePlaces
<1>14. MessagesTyped'
  <2>1. ChannelMessages' \in Seq(EntryOf(MessageIds'))
    BY <1>0, <1>10 DEF MessagesTyped
  <2>2. clock' \in 0..MaxMessages /\ clock <= clock' /\ mixed' \in BOOLEAN /\ crossed' \in BOOLEAN /\ downloaded' \in BOOLEAN
    BY <1>0, MessagesAssumption DEF MessagesTyped
  <2>3. Len(server_messages) <= Len(server_messages') /\ server_messages' \in Seq([at : 1..clock', deleted : BOOLEAN])
    BY <1>3, <1>6
  <2> QED BY <1>0, <1>1, <1>8, <1>11, <1>13, <2>1, <2>2, <2>3, TypesFrom
<1>15. LocalsFit'
  BY <1>0, <1>1, <1>11, <1>12, <1>13, MovedLocals DEF LocalsFit
<1>16. /\ \A t \in Threads : t # th => (pc'[t] = P3 <=> pc[t] = P3) /\ ml'[t] = ml[t]
       /\ \A t \in Threads : ml[t].id \in 0..N /\ ml[t].id # N + 1
  BY <1>0, <1>2, <1>3, <1>6, <1>12, ThreadTyped
<1>17. RowsApart'
  <2>1. \A t \in Threads : pc'[t] = P3 => ml'[t].id \in MessageIds' /\ ~server_messages'[ml'[t].id].deleted
    BY <1>0, <1>5, <1>6, <1>9, <1>11, <1>12, <1>16 DEF RowsApart
  <2>2. \A t, u \in Threads : pc'[t] = P3 /\ pc'[u] = P3 /\ ml'[t].id = ml'[u].id => t = u
    <3> SUFFICES ASSUME NEW t \in Threads, NEW u \in Threads, pc'[t] = P3, pc'[u] = P3, ml'[t].id = ml'[u].id PROVE t = u
      OBVIOUS
    <3>1. CASE t # th /\ u # th
      BY <1>0, <1>16, <3>1 DEF RowsApart
    <3>2. CASE t = th /\ u # th
      BY <1>11, <1>12, <1>16, <3>2
    <3>3. CASE t # th /\ u = th
      BY <1>11, <1>12, <1>16, <3>3
    <3> QED BY <3>1, <3>2, <3>3
  <2>3. \A v \in Threads : pc'[v] \in {D2, D3} =>
            /\ ml'[v].id \in MessageIds'
            /\ \A t \in Threads : pc'[t] = P3 => ml'[t].id # ml'[v].id
    BY <1>0, <1>2, <1>6, <1>9, <1>11, <1>12, <1>13, <1>16 DEF RowsApart
  <2>4. \A t \in Threads : pc'[t] = D3 => server_messages'[ml'[t].id].deleted
    BY <1>0, <1>2, <1>6, <1>9, <1>12, <1>13 DEF RowsApart
  <2> QED BY <2>1, <2>2, <2>3, <2>4, Zenon DEF RowsApart
<1>18. ChannelMessages \in Seq(EntryOf(1..N)) /\ \A i \in DOMAIN ChannelMessages : ChannelMessages[i].id \in 1..N
  <2>1. ChannelMessages \in Seq(EntryOf(1..N))
    BY <1>0, <1>9 DEF MessagesTyped
  <2>2. \A i \in DOMAIN ChannelMessages : ChannelMessages[i] \in EntryOf(1..N)
    BY <2>1
  <2> QED BY <2>1, <2>2 DEF EntryOf
<1>19. MemoryInv'
  <2> SUFFICES ASSUME ~mixed' PROVE DownloadsApart' /\ PushedNew' /\ Downloads' /\ EntriesApart' /\ Marking'
    BY Zenon DEF MemoryInv
  <2>0. DownloadsApart /\ PushedNew /\ Downloads /\ EntriesApart /\ Marking
    BY <1>0 DEF MemoryInv
  <2>1. \A t \in Threads : pc[t] \notin DownloadPlaces
    BY <1>1, <1>13, <2>0, NoDownloadsNow
  <2>2. DownloadsApart' /\ Downloads'
    BY <1>1, <1>2, <1>13, <2>1, StillNoDownloads
  <2>3. PushedNew'
    BY <1>6, <1>11, <1>12, <1>16, <1>18, <2>0 DEF PushedNew
  <2>4. EntriesApart'
    BY <2>0 DEF EntriesApart
  <2>5. Marking'
    <3> SUFFICES ASSUME NEW i \in DOMAIN ChannelMessages', server_messages'[ChannelMessages'[i].id].deleted, ~ChannelMessages'[i].deleted
                 PROVE  \E t \in Threads : pc'[t] = D3 /\ ml'[t].id = ChannelMessages'[i].id
      BY Zenon DEF Marking
    <3>1. server_messages[ChannelMessages[i].id].deleted
      BY <1>6, <1>18
    <3>2. PICK t \in Threads : pc[t] = D3 /\ ml[t].id = ChannelMessages[i].id
      BY <2>0, <3>1 DEF Marking
    <3>3. t # th
      BY <1>1, <1>13, <3>2
    <3> QED BY <1>2, <1>12, <3>2, <3>3
  <2> QED BY <2>2, <2>3, <2>4, <2>5
<1>20. PostsApart'
  <2> SUFFICES ASSUME ~crossed'
               PROVE  /\ \A t, u \in Threads : pc'[t] \in PostPlaces /\ pc'[u] \in PostPlaces => t = u
                      /\ \A t \in Threads : pc'[t] = P3 => ml'[t].id = Len(server_messages')
    BY Zenon DEF PostsApart
  <2>1. \A t, u \in Threads : pc[t] \in PostPlaces /\ pc[u] \in PostPlaces => t = u
    BY <1>0 DEF PostsApart
  <2>2. \A t \in Threads : pc'[t] \in PostPlaces => t = th
    BY <1>1, <1>2, <1>13, <2>1
  <2> QED BY <1>6, <1>11, <1>12, <1>13, <2>2
<1>21. MemoryIsRecent'
  <2>1. OnTheirWay' = OnTheirWay \cup {N + 1}
    <3>1. OnTheirWay' = {ml'[t].id : t \in {u \in Threads : pc'[u] = P3}}
      BY <1>14, OnTheirWayNext DEF MessagesTyped
    <3>2. OnTheirWay = {ml[t].id : t \in {u \in Threads : pc[u] = P3}}
      BY <1>0, OnTheirWayIs
    <3>3. \A x : x \in OnTheirWay' => x \in OnTheirWay \cup {N + 1}
      <4> SUFFICES ASSUME NEW t \in Threads, pc'[t] = P3 PROVE ml'[t].id \in OnTheirWay \cup {N + 1}
        BY <3>1
      <4>1. CASE t = th
        BY <1>11, <1>12, <4>1
      <4>2. CASE t # th
        BY <1>16, <3>2, <4>2
      <4> QED BY <4>1, <4>2
    <3>4. \A x : x \in OnTheirWay => x \in OnTheirWay'
      BY <1>1, <1>13, <1>16, <3>1, <3>2
    <3>5. N + 1 \in OnTheirWay'
      BY <1>2, <1>11, <1>12, <3>1
    <3> QED BY <3>3, <3>4, <3>5
  <2>2. N + 1 \notin OnTheirWay
    BY <1>0, <1>16, OnTheirWayIs
  <2>3. Cardinality(OnTheirWay') = Cardinality(OnTheirWay) + 1
    BY <1>0, <2>1, <2>2, OnTheirWayIs, FS_AddElement
  <2> SUFFICES ASSUME ~downloaded, ~crossed, NEW i \in DOMAIN ChannelMessages
               PROVE  ChannelMessages[i].id + Len(ChannelMessages) - i + Cardinality(OnTheirWay') = Len(server_messages')
    BY DEF MemoryIsRecent
  <2>4. ChannelMessages[i].id + Len(ChannelMessages) - i + Cardinality(OnTheirWay) = N
    BY <1>0, <1>3 DEF MemoryIsRecent
  <2>5. ChannelMessages[i].id \in Nat /\ Len(ChannelMessages) \in Nat /\ i \in Nat /\ Cardinality(OnTheirWay) \in Nat
    BY <1>0, <1>18, OnTheirWayIs
  <2> QED BY <1>6, <2>3, <2>4, <2>5
<1> QED BY <1>14, <1>15, <1>17, <1>19, <1>20, <1>21 DEF MessagesInv

LEMMA EntriesTyped ==
  ASSUME MessagesTyped
  PROVE  /\ Len(ChannelMessages) \in Nat /\ DOMAIN ChannelMessages = 1..Len(ChannelMessages)
         /\ \A i \in DOMAIN ChannelMessages : ChannelMessages[i] \in EntryOf(MessageIds)
         /\ \A i \in DOMAIN ChannelMessages : ChannelMessages[i].id \in MessageIds
<1>1. ChannelMessages \in Seq(EntryOf(MessageIds))
  BY DEF MessagesTyped
<1>2. \A e \in EntryOf(MessageIds) : e.id \in MessageIds
  BY DEF EntryOf
<1> QED BY <1>1, <1>2

LEMMA PushKeeps ==
  ASSUME MessagesInv, NEW th \in Threads, PushMessage(th)
  PROVE  MessagesInv'
<1>0. MessagesTyped /\ LocalsFit /\ RowsApart /\ MemoryInv /\ PostsApart /\ MemoryIsRecent
  BY DEF MessagesInv
<1>1. pc[th] = P3 /\ Moved(th, P4)
  BY <1>0, ThreadTyped, MessageMoves
<1>2. pc \in [Threads -> MessagePlaces] /\ pc'[th] = P4 /\ \A t \in Threads : t # th => pc'[t] = pc[t]
  BY <1>0, <1>1, OthersKeepPlace DEF MessagesTyped
<1>3. /\ server_messages' = server_messages /\ clock' = clock /\ ml' = ml /\ mixed' = mixed /\ crossed' = crossed
      /\ downloaded' = downloaded
  BY DEF PushMessage
<1>4. PICK e : e = [id |-> ml[th].id, deleted |-> FALSE]
  OBVIOUS
<1>5. ChannelMessages' = Append(ChannelMessages, e)
  BY <1>4 DEF PushMessage
<1>6. PICK L : L = Len(ChannelMessages)
  OBVIOUS
<1>7. MessageIds' = MessageIds /\ ml[th].id \in MessageIds /\ ~server_messages[ml[th].id].deleted
  BY <1>0, <1>1, <1>3 DEF MessageIds, RowsApart
<1>8. e \in EntryOf(MessageIds) /\ e.id = ml[th].id /\ e.deleted = FALSE
  BY <1>4, <1>7 DEF EntryOf
<1>9. /\ L \in Nat /\ ChannelMessages' \in Seq(EntryOf(MessageIds)) /\ Len(ChannelMessages') = L + 1
      /\ DOMAIN ChannelMessages' = 1..L + 1 /\ DOMAIN ChannelMessages = 1..L
      /\ ChannelMessages'[L + 1] = e /\ \A i \in 1..L : ChannelMessages'[i] = ChannelMessages[i]
  BY <1>0, <1>5, <1>6, <1>8 DEF MessagesTyped
<1>10. /\ P3 \in PostPlaces /\ P4 \in PostPlaces /\ P4 # P2 /\ P4 # P3 /\ P4 # G3 /\ P4 \notin {G3, G4, G5}
       /\ P4 \notin DownloadPlaces /\ P3 # G3 /\ P3 \notin {G3, G4, G5} /\ P3 # D3 /\ P4 # D3 /\ P4 # D2 /\ P4 \in MessagePlaces
       /\ P3 \notin {D2, D3}
  BY PlacesDiffer DEF DownloadPlaces, PostPlaces, ErasePlaces, PagePlaces, MessagePlaces
<1>11. MessagesTyped'
  BY <1>0, <1>1, <1>3, <1>7, <1>9, <1>10, OthersKeepPlace DEF MessageLocals, MessagesTyped
<1>12. LocalsFit'
  BY <1>0, <1>1, <1>3, <1>10, MovedLocals DEF LocalsFit
<1>13. \A t \in Threads : pc'[t] = P3 <=> pc[t] = P3 /\ t # th
  BY <1>2, <1>10
<1>14. \A t \in Threads : (pc'[t] = D3 <=> pc[t] = D3) /\ (pc'[t] \in {D2, D3} <=> pc[t] \in {D2, D3})
  BY <1>1, <1>2, <1>10
<1>15. RowsApart'
  BY <1>0, <1>3, <1>7, <1>13, <1>14 DEF RowsApart
<1>16. MemoryInv'
  BY <1>0, <1>1, <1>2, <1>3, <1>7, <1>8, <1>9, <1>10, <1>13, <1>14, NoDownloadsNow, StillNoDownloads
     DEF MemoryInv, PushedNew, RowsApart, EntriesApart, Marking
<1>17. PostsApart'
  BY <1>0, <1>1, <1>2, <1>3, <1>10, <1>13 DEF PostsApart
<1>18. MemoryIsRecent'
  <2> SUFFICES ASSUME ~downloaded', ~crossed', NEW i \in DOMAIN ChannelMessages'
               PROVE  ChannelMessages'[i].id + Len(ChannelMessages') - i + Cardinality(OnTheirWay') = Len(server_messages')
    BY Zenon DEF MemoryIsRecent
  <2>1. /\ \A t, u \in Threads : pc[t] \in PostPlaces /\ pc[u] \in PostPlaces => t = u
        /\ \A t \in Threads : pc[t] = P3 => ml[t].id = Len(server_messages)
    BY <1>0, <1>3 DEF PostsApart
  <2>2. \A t \in Threads : pc[t] = P3 => t = th
    BY <1>1, <1>10, <2>1
  <2>3. OnTheirWay = {ml[th].id} /\ Cardinality(OnTheirWay) = 1
    BY <1>0, <1>1, <2>2, OnTheirWayIs, FS_Singleton
  <2>4. OnTheirWay' = {} /\ Cardinality(OnTheirWay') = 0
    BY <1>11, <1>13, <2>2, OnTheirWayNext, FS_EmptySet DEF MessagesTyped
  <2>5. Len(server_messages') = Len(server_messages) /\ Len(server_messages) \in Nat /\ ml[th].id = Len(server_messages)
    BY <1>0, <1>1, <1>3, <2>1, RowsTyped
  <2>6. CASE i = L + 1
    BY <1>8, <1>9, <2>4, <2>5, <2>6
  <2>7. CASE i \in 1..L
    <3>1. ChannelMessages[i].id + L - i + 1 = Len(server_messages)
      BY <1>0, <1>3, <1>6, <1>9, <2>3, <2>7 DEF MemoryIsRecent
    <3>2. ChannelMessages[i].id \in Nat
      BY <1>0, <1>9, <2>7, EntriesTyped DEF MessageIds
    <3>3. ChannelMessages'[i].id = ChannelMessages[i].id
      BY <1>9, <2>7
    <3>4. \A a, l, n, j \in Nat : a + l - j + 1 = n => a + (l + 1) - j + 0 = n
      OBVIOUS
    <3>5. i \in Nat
      BY <1>9, <2>7
    <3>6. ChannelMessages[i].id + (L + 1) - i + 0 = Len(server_messages)
      BY <1>9, <2>5, <3>1, <3>2, <3>4, <3>5
    <3> QED BY <1>9, <2>4, <2>5, <3>3, <3>6
  <2> QED BY <1>9, <2>6, <2>7
<1> QED BY <1>11, <1>12, <1>15, <1>16, <1>17, <1>18 DEF MessagesInv

(***************************************************************************)
(* Deleting: the tombstone and the mark.                                   *)
(***************************************************************************)
LEMMA TombstoneKeeps ==
  ASSUME MessagesInv, NEW th \in Threads, AtStep(th, "tombstone"), Advance(th),
         server_messages' = [server_messages EXCEPT ![ml[th].id].deleted = TRUE],
         clock' = clock, ChannelMessages' = ChannelMessages, ml' = ml,
         mixed' = mixed, crossed' = crossed, downloaded' = downloaded
  PROVE  MessagesInv'
<1>0. MessagesTyped /\ LocalsFit /\ RowsApart /\ MemoryInv /\ PostsApart /\ MemoryIsRecent
  BY DEF MessagesInv
<1>1. pc[th] = D2 /\ Moved(th, D3)
  BY <1>0, ThreadTyped, MessageMoves
<1>2. pc \in [Threads -> MessagePlaces] /\ pc'[th] = D3 /\ \A t \in Threads : t # th => pc'[t] = pc[t]
  BY <1>0, <1>1, OthersKeepPlace DEF MessagesTyped
<1>3. PICK id : id = ml[th].id
  OBVIOUS
<1>4. id \in MessageIds /\ \A t \in Threads : pc[t] = P3 => ml[t].id # id
  BY <1>0, <1>1, <1>3 DEF RowsApart
<1>5. PICK row : row = [server_messages[id] EXCEPT !.deleted = TRUE]
  OBVIOUS
<1>6. row \in [at : 1..clock, deleted : BOOLEAN] /\ row.deleted
  BY <1>0, <1>4, <1>5, RowsTyped
<1>7. server_messages' = [server_messages EXCEPT ![id] = row]
  BY <1>3, <1>5
<1>8. /\ server_messages' \in Seq([at : 1..clock, deleted : BOOLEAN]) /\ Len(server_messages') = Len(server_messages)
      /\ server_messages'[id] = row /\ \A j \in MessageIds : j # id => server_messages'[j] = server_messages[j]
  <2>1. PICK R : R = [at : 1..clock, deleted : BOOLEAN]
    OBVIOUS
  <2>2. server_messages \in Seq(R) /\ row \in R /\ id \in 1..Len(server_messages)
    BY <1>0, <1>4, <1>6, <2>1 DEF MessagesTyped, MessageIds
  <2>3. PICK table : table = server_messages
    OBVIOUS
  <2>4. /\ [table EXCEPT ![id] = row] \in Seq(R) /\ Len([table EXCEPT ![id] = row]) = Len(table)
        /\ [table EXCEPT ![id] = row][id] = row
        /\ \A j \in 1..Len(table) : j # id => [table EXCEPT ![id] = row][j] = table[j]
    BY <2>2, <2>3, ExceptSeq
  <2> QED BY <1>7, <2>1, <2>3, <2>4 DEF MessageIds
<1>9. MessageIds' = MessageIds
  BY <1>8 DEF MessageIds
<1>10. \A j \in MessageIds : server_messages[j].deleted => server_messages'[j].deleted
  BY <1>6, <1>8
<1>11. /\ D2 \in ErasePlaces /\ D3 # G3 /\ D3 \notin {G3, G4, G5} /\ D3 # P2 /\ D3 # P3 /\ D3 \notin PostPlaces
       /\ D3 \notin DownloadPlaces /\ D2 # G3 /\ D2 \notin {G3, G4, G5} /\ D2 # P3 /\ D2 # D3 /\ D3 \in MessagePlaces
       /\ D2 \notin PostPlaces
  BY PlacesDiffer DEF DownloadPlaces, PostPlaces, ErasePlaces, PagePlaces, MessagePlaces
<1>12. MessagesTyped'
  BY <1>0, <1>1, <1>8, <1>9, <1>11, OthersKeepPlace DEF MessageLocals, MessagesTyped
<1>13. LocalsFit'
  BY <1>0, <1>1, <1>11, MovedLocals DEF LocalsFit
<1>14. \A t \in Threads : /\ pc'[t] = P3 <=> pc[t] = P3
                          /\ pc'[t] = D3 <=> pc[t] = D3 \/ t = th
                          /\ pc'[t] \in {D2, D3} <=> pc[t] \in {D2, D3}
                          /\ pc'[t] \in PostPlaces <=> pc[t] \in PostPlaces
  BY <1>1, <1>2, <1>11
<1>15. RowsApart'
  <2>1. \A t \in Threads : pc'[t] = P3 => ml'[t].id \in MessageIds' /\ ~server_messages'[ml'[t].id].deleted
    <3> SUFFICES ASSUME NEW t \in Threads, pc[t] = P3
                 PROVE  ml[t].id \in MessageIds /\ ~server_messages'[ml[t].id].deleted
      BY <1>9, <1>14
    <3>1. ml[t].id \in MessageIds /\ ~server_messages[ml[t].id].deleted /\ ml[t].id # id
      BY <1>0, <1>4 DEF RowsApart
    <3> QED BY <1>8, <3>1
  <2>2. \A t, u \in Threads : pc'[t] = P3 /\ pc'[u] = P3 /\ ml'[t].id = ml'[u].id => t = u
    BY <1>0, <1>14 DEF RowsApart
  <2>3. \A v \in Threads : pc'[v] \in {D2, D3} =>
            /\ ml'[v].id \in MessageIds'
            /\ \A t \in Threads : pc'[t] = P3 => ml'[t].id # ml'[v].id
    BY <1>0, <1>9, <1>14 DEF RowsApart
  <2>4. \A t \in Threads : pc'[t] = D3 => server_messages'[ml'[t].id].deleted
    BY <1>0, <1>3, <1>6, <1>8, <1>10, <1>14 DEF RowsApart
  <2> QED BY <2>1, <2>2, <2>3, <2>4, Zenon DEF RowsApart
<1>16. MemoryInv'
  BY <1>0, <1>1, <1>2, <1>3, <1>8, <1>11, <1>14, NoDownloadsNow, StillNoDownloads, EntriesTyped DEF
     MemoryInv, PushedNew, EntriesApart, Marking
<1>17. PostsApart'
  BY <1>0, <1>8, <1>14 DEF PostsApart
<1>18. MemoryIsRecent'
  <2>1. OnTheirWay' = OnTheirWay
    BY <1>0, <1>12, <1>14, OnTheirWayNext, OnTheirWayIs DEF MessagesTyped
  <2> QED BY <1>0, <1>8, <2>1 DEF MemoryIsRecent
<1> QED BY <1>12, <1>13, <1>15, <1>16, <1>17, <1>18 DEF MessagesInv

\* What the mark does to the vector, whichever entry it takes.
LEMMA MarkIs ==
  ASSUME MessagesTyped, NEW th \in Threads, MarkMessageDeleted(th)
  PROVE  /\ ChannelMessages' \in Seq(EntryOf(MessageIds)) /\ Len(ChannelMessages') = Len(ChannelMessages)
         /\ \A i \in DOMAIN ChannelMessages : /\ ChannelMessages'[i].id = ChannelMessages[i].id
                                              /\ ChannelMessages[i].deleted => ChannelMessages'[i].deleted
         /\ EntriesApart => \A i \in DOMAIN ChannelMessages : ChannelMessages[i].id = ml[th].id => ChannelMessages'[i].deleted
<1>1. PICK E : E = EntryOf(MessageIds)
  OBVIOUS
<1>2. /\ ChannelMessages \in Seq(E) /\ Len(ChannelMessages) \in Nat /\ DOMAIN ChannelMessages = 1..Len(ChannelMessages)
      /\ \A i \in DOMAIN ChannelMessages : ChannelMessages[i] \in E
  BY <1>1, EntriesTyped DEF MessagesTyped
<1>3. PICK I : I = {i \in 1..Len(ChannelMessages) : ChannelMessages[i].id = ml[th].id}
  OBVIOUS
<1>4. PICK k : k = IF I # {} THEN Min(I) ELSE 0
  OBVIOUS
<1>5. ChannelMessages' = IF k = 0 THEN ChannelMessages ELSE [ChannelMessages EXCEPT ![k].deleted = TRUE]
  BY <1>3, <1>4 DEF SelectInSeq, MarkMessageDeleted
<1>6. EntriesApart /\ I # {} => I = {k}
  BY <1>2, <1>3, <1>4 DEF EntriesApart, Min
<1>7. PICK e : e = [ChannelMessages[k] EXCEPT !.deleted = TRUE]
  OBVIOUS
<1>8. k \in DOMAIN ChannelMessages => e \in E /\ e.id = ChannelMessages[k].id /\ e.deleted
  BY <1>1, <1>2, <1>7 DEF EntryOf
<1>9. k # 0 => ChannelMessages' = [ChannelMessages EXCEPT ![k] = e]
  BY <1>5, <1>7
<1>10. /\ ChannelMessages' \in Seq(E) /\ Len(ChannelMessages') = Len(ChannelMessages)
       /\ \A i \in DOMAIN ChannelMessages : ChannelMessages'[i] = IF i = k /\ k # 0 THEN e ELSE ChannelMessages[i]
  <2>1. CASE k = 0
    BY <1>2, <1>5, <2>1
  <2>2. CASE k # 0 /\ k \in DOMAIN ChannelMessages
    BY <1>2, <1>8, <1>9, <2>2
  <2>3. CASE k # 0 /\ k \notin DOMAIN ChannelMessages
    BY <1>2, <1>9, <2>3
  <2> QED BY <2>1, <2>2, <2>3
<1>11. \A i \in DOMAIN ChannelMessages : /\ ChannelMessages'[i].id = ChannelMessages[i].id
                                         /\ ChannelMessages[i].deleted => ChannelMessages'[i].deleted
  BY <1>8, <1>10
<1>12. EntriesApart => \A i \in DOMAIN ChannelMessages : ChannelMessages[i].id = ml[th].id => ChannelMessages'[i].deleted
  BY <1>2, <1>3, <1>6, <1>8, <1>10
<1> QED BY <1>1, <1>10, <1>11, <1>12

LEMMA MarkKeeps ==
  ASSUME MessagesInv, NEW th \in Threads, MarkMessageDeleted(th)
  PROVE  MessagesInv'
<1>0. MessagesTyped /\ LocalsFit /\ RowsApart /\ MemoryInv /\ PostsApart /\ MemoryIsRecent
  BY DEF MessagesInv
<1>1. pc[th] = D3 /\ Moved(th, D4)
  BY <1>0, ThreadTyped, MessageMoves
<1>2. pc \in [Threads -> MessagePlaces] /\ pc'[th] = D4 /\ \A t \in Threads : t # th => pc'[t] = pc[t]
  BY <1>0, <1>1, OthersKeepPlace DEF MessagesTyped
<1>3. /\ server_messages' = server_messages /\ clock' = clock /\ ml' = ml /\ mixed' = mixed /\ crossed' = crossed
      /\ downloaded' = downloaded
  BY DEF MarkMessageDeleted
<1>4. /\ ChannelMessages' \in Seq(EntryOf(MessageIds)) /\ Len(ChannelMessages') = Len(ChannelMessages)
      /\ DOMAIN ChannelMessages' = DOMAIN ChannelMessages
      /\ \A i \in DOMAIN ChannelMessages : /\ ChannelMessages'[i].id = ChannelMessages[i].id
                                           /\ ChannelMessages[i].deleted => ChannelMessages'[i].deleted
      /\ EntriesApart => \A i \in DOMAIN ChannelMessages : ChannelMessages[i].id = ml[th].id => ChannelMessages'[i].deleted
  BY <1>0, MarkIs, EntriesTyped
<1>5. MessageIds' = MessageIds
  BY <1>3 DEF MessageIds
<1>6. /\ D3 \in ErasePlaces /\ D4 # G3 /\ D4 \notin {G3, G4, G5} /\ D4 # P2 /\ D4 # P3 /\ D4 \notin PostPlaces
      /\ D4 \notin DownloadPlaces /\ D3 # G3 /\ D3 \notin {G3, G4, G5} /\ D3 # P3 /\ D4 # D3 /\ D4 # D2 /\ D4 \in MessagePlaces
      /\ D3 \notin PostPlaces
  BY PlacesDiffer DEF DownloadPlaces, PostPlaces, ErasePlaces, PagePlaces, MessagePlaces
<1>7. MessagesTyped'
  BY <1>0, <1>1, <1>3, <1>4, <1>5, <1>6, OthersKeepPlace DEF MessageLocals, MessagesTyped
<1>8. LocalsFit'
  BY <1>0, <1>1, <1>3, <1>6, MovedLocals DEF LocalsFit
<1>9. \A t \in Threads : /\ pc'[t] = P3 <=> pc[t] = P3
                         /\ pc'[t] = D3 <=> pc[t] = D3 /\ t # th
                         /\ pc'[t] \in {D2, D3} => pc[t] \in {D2, D3}
                         /\ pc'[t] \in PostPlaces <=> pc[t] \in PostPlaces
  BY <1>1, <1>2, <1>6
<1>10. RowsApart'
  BY <1>0, <1>3, <1>5, <1>9 DEF RowsApart
<1>11. MemoryInv'
  BY <1>0, <1>1, <1>2, <1>3, <1>4, <1>6, <1>9, NoDownloadsNow, StillNoDownloads DEF MemoryInv,
     PushedNew, EntriesApart, Marking
<1>12. PostsApart'
  BY <1>0, <1>3, <1>9 DEF PostsApart
<1>13. MemoryIsRecent'
  BY <1>0, <1>3, <1>4, <1>7, <1>9, OnTheirWayNext, OnTheirWayIs DEF MessagesTyped, MemoryIsRecent
<1> QED BY <1>7, <1>8, <1>10, <1>11, <1>12, <1>13 DEF MessagesInv

(***************************************************************************)
(* A downloaded row.                                                       *)
(***************************************************************************)
LEMMA HeadAndTail ==
  ASSUME NEW S, NEW rows \in Seq(S), rows # <<>>
  PROVE  /\ Head(rows) \in S /\ Tail(rows) \in Seq(S) /\ Len(rows) \in Nat /\ Len(rows) >= 1
         /\ Len(Tail(rows)) = Len(rows) - 1
         /\ DOMAIN rows = 1..Len(rows) /\ DOMAIN Tail(rows) = 1..Len(rows) - 1
         /\ Head(rows) = rows[1] /\ \A i \in 1..Len(rows) - 1 : Tail(rows)[i] = rows[i + 1]
OBVIOUS

\* A row moves from those to come to the end of the vector.
LEMMA RowMoves ==
  ASSUME NEW S, NEW table, NEW vector \in Seq(EntryOf(S)), NEW rows \in Seq(EntryOf(S)), rows # <<>>,
         NEW e, NEW rest, e = Head(rows), rest = Tail(rows),
         NEW b, RowsFit(table, vector, rows)
  PROVE  /\ RowsFit(table, Append(vector, e), rest)
         /\ \A k \in 0..Limit : Appended(table, vector, rows, b, k) =>
                k + 1 \in 0..Limit /\ Appended(table, Append(vector, e), rest, b, k + 1)
<1> DEFINE V == Append(vector, e)
           n == Len(vector)
           m == Len(rows)
<1>1. /\ e \in EntryOf(S) /\ rest \in Seq(EntryOf(S)) /\ m \in Nat /\ m >= 1 /\ Len(rest) = m - 1
      /\ DOMAIN rows = 1..m /\ DOMAIN rest = 1..m - 1 /\ e = rows[1] /\ \A i \in 1..m - 1 : rest[i] = rows[i + 1]
  BY HeadAndTail
<1>2. /\ n \in Nat /\ V \in Seq(EntryOf(S)) /\ Len(V) = n + 1 /\ DOMAIN V = 1..n + 1 /\ DOMAIN vector = 1..n
      /\ V[n + 1] = e /\ \A i \in 1..n : V[i] = vector[i]
  BY <1>1
<1> HIDE DEF V, n, m
<1>3. /\ \A i \in 1..m : rows[i].deleted = table[rows[i].id].deleted
      /\ \A i, j \in 1..m : rows[i].id = rows[j].id => i = j
      /\ \A i \in 1..m, j \in 1..n : vector[j].id # rows[i].id
  BY <1>1, <1>2 DEF RowsFit
<1>4. \A i \in 1..m - 1 : i + 1 \in 1..m /\ i + 1 # 1 /\ rest[i] = rows[i + 1]
  BY <1>1
<1>5. 1 \in 1..m
  BY <1>1
<1>6. RowsFit(table, V, rest)
  <2>1. \A i \in DOMAIN rest : rest[i].deleted = table[rest[i].id].deleted
    BY <1>1, <1>3, <1>4
  <2>2. \A i, j \in DOMAIN rest : rest[i].id = rest[j].id => i = j
    BY <1>1, <1>3, <1>4
  <2>3. \A i \in DOMAIN rest, j \in DOMAIN V : V[j].id # rest[i].id
    <3> SUFFICES ASSUME NEW i \in 1..m - 1, NEW j \in 1..n + 1 PROVE V[j].id # rest[i].id
      BY <1>1, <1>2
    <3>0. i + 1 \in 1..m /\ i + 1 # 1 /\ rest[i].id = rows[i + 1].id
      BY <1>4
    <3>1. CASE j \in 1..n
      <4>1. V[j] = vector[j] /\ vector[j].id # rows[i + 1].id
        BY <1>2, <1>3, <3>0, <3>1
      <4> QED BY <3>0, <4>1
    <3>2. CASE j = n + 1
      BY <1>1, <1>2, <1>3, <1>5, <3>0, <3>2
    <3>3. j \in 1..n \/ j = n + 1
      BY <1>2
    <3> QED BY <3>1, <3>2, <3>3
  <2> QED BY <2>1, <2>2, <2>3 DEF RowsFit
<1>7. ASSUME NEW k \in 0..Limit, Appended(table, vector, rows, b, k)
      PROVE  k + 1 \in 0..Limit /\ Appended(table, V, rest, b, k + 1)
  <2>1. /\ k + m <= Limit /\ k <= n
        /\ \A i \in 1..n : OlderIn(table, vector[i].id, b) <=> i > n - k
        /\ \A i \in 1..m : OlderIn(table, rows[i].id, b)
    BY <1>1, <1>2, <1>7 DEF Appended, n, m
  <2>2. PICK page \in PagesIn(table, b) : IdsOf(page) = IdsOf(rows) \cup LastIds(vector, k)
    BY <1>7 DEF Appended
  <2>3. k \in Nat /\ Limit \in Nat
    BY MessagesAssumption
  <2>4. k + 1 \in 0..Limit /\ k + 1 + Len(rest) <= Limit /\ k + 1 <= Len(V)
    BY <1>1, <1>2, <2>1, <2>3
  <2>5. \A i \in DOMAIN V : OlderIn(table, V[i].id, b) <=> i > Len(V) - (k + 1)
    BY <1>1, <1>2, <1>5, <2>1, <2>3
  <2>6. \A i \in DOMAIN rest : OlderIn(table, rest[i].id, b)
    BY <1>1, <1>4, <2>1
  <2>7. IdsOf(rows) = IdsOf(rest) \cup {e.id}
    <3>1. IdsOf(rows) = {rows[i].id : i \in 1..m} /\ IdsOf(rest) = {rest[i].id : i \in 1..m - 1}
      BY <1>1 DEF IdsOf
    <3>2. \A i \in 1..m : i = 1 \/ (i - 1 \in 1..m - 1 /\ rest[i - 1] = rows[i])
      BY <1>1, <1>4
    <3>3. \A x \in IdsOf(rows) : x \in IdsOf(rest) \cup {e.id}
      <4> SUFFICES ASSUME NEW i \in 1..m PROVE rows[i].id \in IdsOf(rest) \cup {e.id}
        BY <3>1
      <4>1. CASE i = 1
        BY <1>1, <4>1
      <4>2. CASE i # 1
        BY <3>1, <3>2, <4>2
      <4> QED BY <4>1, <4>2
    <3>4. \A x \in IdsOf(rest) \cup {e.id} : x \in IdsOf(rows)
      BY <1>1, <1>4, <1>5, <3>1
    <3> QED BY <3>3, <3>4
  <2>8. LastIds(V, k + 1) = LastIds(vector, k) \cup {e.id}
    <3>1. LastIds(vector, k) = {vector[i].id : i \in n - k + 1..n}
      BY DEF LastIds, n
    <3>2. LastIds(V, k + 1) = {V[i].id : i \in n - k + 1..n + 1}
      BY <1>2, <2>3 DEF LastIds
    <3>3. \A i \in n - k + 1..n : i \in 1..n /\ V[i] = vector[i]
      BY <1>2, <2>1, <2>3
    <3>4. \A i \in n - k + 1..n + 1 : i \in n - k + 1..n \/ i = n + 1
      BY <1>2, <2>3
    <3>5. n + 1 \in n - k + 1..n + 1 /\ \A i \in n - k + 1..n : i \in n - k + 1..n + 1
      BY <1>2, <2>3
    <3>6. \A x \in LastIds(V, k + 1) : x \in LastIds(vector, k) \cup {e.id}
      BY <1>2, <3>1, <3>2, <3>3, <3>4
    <3>7. \A x \in LastIds(vector, k) \cup {e.id} : x \in LastIds(V, k + 1)
      BY <1>2, <3>1, <3>2, <3>3, <3>5
    <3> QED BY <3>6, <3>7
  <2>9. IdsOf(page) = IdsOf(rest) \cup LastIds(V, k + 1)
    BY <2>2, <2>7, <2>8
  <2> QED BY <2>2, <2>4, <2>5, <2>6, <2>9 DEF Appended
<1> QED BY <1>6, <1>7 DEF V

LEMMA AppendRowKeeps ==
  ASSUME MessagesInv, NEW th \in Threads, AppendRow(th), ml[th].rows # <<>>
  PROVE  MessagesInv'
<1>0. MessagesTyped /\ LocalsFit /\ RowsApart /\ MemoryInv /\ PostsApart /\ MemoryIsRecent
  BY DEF MessagesInv
<1>1. pc[th] = G3
  BY <1>0, ThreadTyped, MessageMoves DEF AppendRow
<1>2. PICK rows, e, rest : rows = ml[th].rows /\ e = Head(rows) /\ rest = Tail(rows)
  OBVIOUS
<1>3. /\ server_messages' = server_messages /\ clock' = clock /\ pc' = pc /\ mixed' = mixed /\ crossed' = crossed
      /\ downloaded' = TRUE /\ ChannelMessages' = Append(ChannelMessages, e)
  BY <1>2 DEF AppendRow
<1>4. PICK rec : rec = [ml[th] EXCEPT !.rows = rest]
  OBVIOUS
<1>5. ml' = [ml EXCEPT ![th] = rec]
  BY <1>2, <1>4 DEF AppendRow, Local
<1>6. rows \in Seq(EntryOf(MessageIds)) /\ rows # <<>> /\ e \in EntryOf(MessageIds) /\ rest \in Seq(EntryOf(MessageIds))
  BY <1>0, <1>2, ThreadTyped, HeadAndTail
<1>7. /\ rec \in MessageLocals /\ rec.rows = rest /\ rec.id = ml[th].id /\ rec.at = ml[th].at /\ rec.before = ml[th].before
      /\ rec.fetched = ml[th].fetched
  BY <1>0, <1>4, <1>6, ThreadTyped DEF MessageLocals
<1>8. ml'[th] = rec /\ \A t \in Threads : t # th => ml'[t] = ml[t]
  BY <1>0, <1>5, ThreadTyped
<1>9. MessageIds' = MessageIds /\ MessageLocals' = MessageLocals
  BY <1>3 DEF MessageIds, MessageLocals
<1>10. PICK L : L = Len(ChannelMessages)
  OBVIOUS
<1>11. /\ L \in Nat /\ ChannelMessages \in Seq(EntryOf(MessageIds)) /\ ChannelMessages' \in Seq(EntryOf(MessageIds))
       /\ DOMAIN ChannelMessages' = 1..L + 1 /\ DOMAIN ChannelMessages = 1..L
       /\ ChannelMessages'[L + 1] = e /\ \A i \in 1..L : ChannelMessages'[i] = ChannelMessages[i]
  BY <1>0, <1>3, <1>6, <1>10 DEF MessagesTyped
<1>12. /\ G3 # P2 /\ G3 # P3 /\ G3 \notin {D2, D3} /\ G3 # D3 /\ G3 \in {G3, G4, G5} /\ G3 \in DownloadPlaces /\ G3 # G2
       /\ P3 \in PostPlaces /\ D3 \in ErasePlaces /\ G3 \notin PostPlaces \cup ErasePlaces /\ G3 \in {G3, G4}
       /\ G3 \in MessagePlaces
  BY PlacesDiffer DEF DownloadPlaces, PostPlaces, ErasePlaces, PagePlaces, MessagePlaces
<1>13. MessagesTyped'
  BY <1>0, <1>3, <1>5, <1>7, <1>9, <1>11 DEF MessagesTyped
<1>14. \A t \in Threads : /\ ml'[t].id = ml[t].id /\ ml'[t].at = ml[t].at /\ ml'[t].fetched = ml[t].fetched
                          /\ pc[t] # G3 => ml'[t].rows = ml[t].rows
  BY <1>1, <1>7, <1>8
<1>15. LocalsFit'
  BY <1>0, <1>3, <1>14 DEF LocalsFit
<1>16. RowsApart'
  BY <1>0, <1>3, <1>9, <1>14 DEF RowsApart
<1>17. MemoryInv'
  <2> SUFFICES ASSUME ~mixed' PROVE DownloadsApart' /\ PushedNew' /\ Downloads' /\ EntriesApart' /\ Marking'
    BY Zenon DEF MemoryInv
  <2>0. DownloadsApart /\ PushedNew /\ Downloads /\ EntriesApart /\ Marking
    BY <1>0, <1>3 DEF MemoryInv
  <2>1. \A t \in Threads : pc[t] \notin PostPlaces \cup ErasePlaces /\ (pc[t] \in DownloadPlaces => t = th)
    BY <1>1, <1>12, <2>0 DEF DownloadsApart
  <2>2. DownloadsApart'
    BY <1>3, <2>0 DEF DownloadsApart
  <2>3. PushedNew'
    BY <1>3, <1>12, <2>1 DEF PushedNew
  <2>4. ThreadDownloads(G3, server_messages, ChannelMessages, ml[th])
    BY <1>1, <2>0 DEF Downloads
  <2>5. RowsFit(server_messages, ChannelMessages, rows)
    BY <1>2, <2>4 DEF ThreadDownloads
  <2>6. PICK b : b = ml[th].before
    OBVIOUS
  <2>7. /\ RowsFit(server_messages, Append(ChannelMessages, e), rest)
        /\ \A k \in 0..Limit : Appended(server_messages, ChannelMessages, rows, b, k) =>
               k + 1 \in 0..Limit /\ Appended(server_messages, Append(ChannelMessages, e), rest, b, k + 1)
    BY <1>2, <1>6, <1>11, <2>5, RowMoves
  <2>8. ThreadDownloads(G3, server_messages, ChannelMessages', rec)
    BY <1>2, <1>3, <1>7, <1>12, <2>4, <2>6, <2>7 DEF ThreadDownloads
  <2>9. Downloads'
    BY <1>1, <1>3, <1>8, <2>1, <2>8, NoDownload DEF Downloads, DownloadPlaces
  <2>10. /\ \A i \in DOMAIN ChannelMessages : ChannelMessages[i].id # e.id
         /\ e.deleted = server_messages[e.id].deleted
    BY <1>2, <1>6, <2>5 DEF RowsFit
  <2>11. EntriesApart'
    BY <1>11, <2>0, <2>10 DEF EntriesApart
  <2>12. Marking'
    BY <1>3, <1>11, <1>14, <2>0, <2>10 DEF Marking
  <2> QED BY <2>2, <2>3, <2>9, <2>11, <2>12
<1>18. PostsApart'
  BY <1>0, <1>3, <1>14 DEF PostsApart
<1>19. MemoryIsRecent'
  BY <1>3 DEF MemoryIsRecent
<1> QED BY <1>13, <1>15, <1>16, <1>17, <1>18, <1>19 DEF MessagesInv

(***************************************************************************)
(* The trim, a restart, and every step.                                    *)
(***************************************************************************)
LEMMA SameThreads ==
  ASSUME pc' = pc, ml' = ml, MessagesTyped, MessagesTyped'
  PROVE  OnTheirWay' = OnTheirWay
  BY OnTheirWayNext, OnTheirWayIs DEF MessagesTyped

\* The newest entries of a list.
LEMMA LastOf ==
  ASSUME NEW S, NEW s \in Seq(S), NEW n \in Nat, Len(s) > n
  PROVE  LET rest == SubSeq(s, Len(s) - n + 1, Len(s)) IN
         /\ rest \in Seq(S) /\ Len(rest) = n
         /\ \A i \in 1..n : i + (Len(s) - n) \in 1..Len(s) /\ rest[i] = s[i + (Len(s) - n)]
<1> DEFINE L == Len(s)
           rest == SubSeq(s, L - n + 1, L)
<1>1. L \in Nat /\ L > n /\ L - n + 1 \in 1..L + 1
  OBVIOUS
<1>2. rest \in Seq(S) /\ Len(rest) = L - (L - n + 1) + 1
  BY <1>1
<1>3. Len(rest) = n
  BY <1>1, <1>2
<1>4. \A i \in 1..n : i + (L - n) \in 1..L /\ rest[i] = s[i + (L - n)]
  <2> SUFFICES ASSUME NEW i \in 1..n PROVE i + (L - n) \in 1..L /\ rest[i] = s[i + (L - n)]
    OBVIOUS
  <2>1. i + (L - n) \in 1..L /\ (L - n + 1) + i - 1 = i + (L - n)
    BY <1>1
  <2>2. rest[i] = s[(L - n + 1) + i - 1]
    BY <1>1, <1>2, <1>3
  <2> QED BY <2>1, <2>2
<1> QED BY <1>2, <1>3, <1>4

LEMMA TrimKeeps ==
  ASSUME MessagesInv, TrimChannelMessagesToCount
  PROVE  MessagesInv'
<1>0. MessagesTyped /\ LocalsFit /\ RowsApart /\ MemoryInv /\ PostsApart /\ MemoryIsRecent
  BY DEF MessagesInv
<1>1. /\ pc' = pc /\ server_messages' = server_messages /\ clock' = clock /\ ml' = ml /\ crossed' = crossed
      /\ downloaded' = downloaded /\ mixed' = (mixed \/ SomeDownload)
  BY DEF TrimChannelMessagesToCount
<1>2. PICK L : L = Len(ChannelMessages)
  OBVIOUS
<1>3. PICK n : n = RetainCount
  OBVIOUS
<1>4. PICK d : d = L - n
  OBVIOUS
<1>5. /\ L \in Nat /\ n \in Nat /\ L > n /\ d = L - n /\ DOMAIN ChannelMessages = 1..L
      /\ ChannelMessages' \in Seq(EntryOf(MessageIds)) /\ Len(ChannelMessages') = n /\ DOMAIN ChannelMessages' = 1..n
      /\ \A i \in 1..n : i + d \in 1..L /\ ChannelMessages'[i] = ChannelMessages[i + d]
  <2>1. PICK E : E = EntryOf(MessageIds)
    OBVIOUS
  <2>2. ChannelMessages \in Seq(E) /\ L > n /\ ChannelMessages' = SubSeq(ChannelMessages, L - n + 1, L)
    BY <1>0, <1>2, <1>3, <2>1 DEF MessagesTyped, TrimChannelMessagesToCount
  <2>3. n \in Nat
    BY <1>3, MessagesAssumption
  <2>4. /\ ChannelMessages' \in Seq(E) /\ Len(ChannelMessages') = n
        /\ \A i \in 1..n : i + (L - n) \in 1..L /\ ChannelMessages'[i] = ChannelMessages[i + (L - n)]
    BY <1>2, <2>2, <2>3, LastOf
  <2>5. L \in Nat /\ DOMAIN ChannelMessages = 1..L
    BY <1>0, <1>2, EntriesTyped
  <2>6. DOMAIN ChannelMessages' = 1..n
    BY <2>4
  <2> QED BY <1>4, <2>1, <2>2, <2>3, <2>4, <2>5, <2>6
<1>6. MessageIds' = MessageIds /\ MessageLocals' = MessageLocals
  BY <1>1 DEF MessageIds, MessageLocals
<1>7. MessagesTyped'
  BY <1>0, <1>1, <1>5, <1>6 DEF MessagesTyped
<1>8. LocalsFit' /\ RowsApart' /\ PostsApart'
  BY <1>0, <1>1, <1>6 DEF LocalsFit, RowsApart, PostsApart
<1>9. MemoryInv'
  <2> SUFFICES ASSUME ~mixed' PROVE DownloadsApart' /\ PushedNew' /\ Downloads' /\ EntriesApart' /\ Marking'
    BY Zenon DEF MemoryInv
  <2>0. DownloadsApart /\ PushedNew /\ Downloads /\ EntriesApart /\ Marking
    BY <1>0, <1>1 DEF MemoryInv
  <2>1. \A t \in Threads : pc[t] \notin DownloadPlaces
    BY <1>0, <1>1, MessageThreads DEF MessagesTyped
  <2>2. DownloadsApart'
    BY <1>1, <2>0 DEF DownloadsApart
  <2>3. Downloads'
    BY <1>1, <2>1, NoDownload DEF Downloads, DownloadPlaces
  <2>4. \A i \in DOMAIN ChannelMessages' : i + d \in DOMAIN ChannelMessages /\ ChannelMessages'[i] = ChannelMessages[i + d]
    BY <1>5
  <2>5. PushedNew'
    BY <1>1, <2>0, <2>4 DEF PushedNew
  <2>6. EntriesApart'
    <3> SUFFICES ASSUME NEW i \in DOMAIN ChannelMessages', NEW j \in DOMAIN ChannelMessages',
                        ChannelMessages'[i].id = ChannelMessages'[j].id
                 PROVE  i = j
      BY Zenon DEF EntriesApart
    <3>1. i + d = j + d
      BY <2>0, <2>4 DEF EntriesApart
    <3> QED BY <1>5, <3>1
  <2>7. Marking'
    BY <1>1, <2>0, <2>4 DEF Marking
  <2> QED BY <2>2, <2>3, <2>5, <2>6, <2>7
<1>10. MemoryIsRecent'
  <2> SUFFICES ASSUME ~downloaded', ~crossed', NEW i \in DOMAIN ChannelMessages'
               PROVE  ChannelMessages'[i].id + Len(ChannelMessages') - i + Cardinality(OnTheirWay') = Len(server_messages')
    BY Zenon DEF MemoryIsRecent
  <2>1. PICK c : c = Cardinality(OnTheirWay)
    OBVIOUS
  <2>2. Cardinality(OnTheirWay') = c /\ c \in Nat
    BY <1>0, <1>1, <1>7, <2>1, SameThreads, OnTheirWayIs
  <2>3. i \in 1..n /\ i + d \in 1..L /\ ChannelMessages'[i] = ChannelMessages[i + d]
    BY <1>5
  <2>4. ChannelMessages[i + d].id + L - (i + d) + c = Len(server_messages)
    BY <1>0, <1>1, <1>2, <1>5, <2>1, <2>3 DEF MemoryIsRecent
  <2>5. ChannelMessages[i + d].id \in Nat
    BY <1>0, <1>5, <2>3, EntriesTyped DEF MessageIds
  <2>6. \A a, j, x : a \in Nat /\ j \in 1..n /\ a + L - (j + d) + c = x => a + n - j + c = x
    BY <1>5, <2>2
  <2> QED BY <1>1, <1>5, <2>2, <2>3, <2>4, <2>5, <2>6
<1> QED BY <1>7, <1>8, <1>9, <1>10 DEF MessagesInv

LEMMA RestartKeepsMessages ==
  ASSUME MessagesInv, MessagesRestart
  PROVE  MessagesInv'
<1>0. MessagesTyped
  BY DEF MessagesInv
<1>1. /\ server_messages' = server_messages /\ clock' = clock /\ ChannelMessages' = <<>> /\ mixed' = FALSE
      /\ downloaded' = FALSE /\ crossed' = crossed /\ \A t \in Threads : pc'[t] = <<>> /\ ml'[t] = NoMessageCall
      /\ pc' = [t \in Threads |-> <<>>] /\ ml' = [t \in Threads |-> NoMessageCall]
  BY DEF MessagesRestart, Idle
<1>2. MessageIds' = MessageIds /\ MessageLocals' = MessageLocals
  BY <1>1 DEF MessageIds, MessageLocals
<1>3. /\ <<>> # P2 /\ <<>> # P3 /\ <<>> \notin {D2, D3} /\ <<>> # D3 /\ <<>> \notin DownloadPlaces /\ <<>> \notin {G2, G3, G4}
      /\ <<>> \notin PostPlaces /\ <<>> \in MessagePlaces
  BY PlacesDiffer DEF DownloadPlaces, PostPlaces, ErasePlaces, PagePlaces, MessagePlaces
<1>4. MessagesTyped'
  <2>1. ml' \in [Threads -> MessageLocals'] /\ pc' \in [Threads -> MessagePlaces]
    BY <1>0, <1>1, <1>2, <1>3, NoCallTyped
  <2>2. /\ server_messages' \in Seq([at : 1..clock', deleted : BOOLEAN]) /\ clock' \in 0..MaxMessages
        /\ mixed' \in BOOLEAN /\ crossed' \in BOOLEAN /\ downloaded' \in BOOLEAN
    BY <1>0, <1>1 DEF MessagesTyped
  <2>3. ChannelMessages' \in Seq(EntryOf(MessageIds'))
    BY <1>1
  <2> QED BY <2>1, <2>2, <2>3, Zenon DEF MessagesTyped
<1>5. LocalsFit' /\ RowsApart'
  BY <1>0, <1>1, <1>3, NoCallTyped DEF LocalsFit, RowsApart
<1>6. DOMAIN ChannelMessages' = {}
  BY <1>1
<1>7. DownloadsApart' /\ Downloads'
  BY <1>1, <1>3, NoDownload DEF DownloadsApart, Downloads
<1>8. PushedNew' /\ EntriesApart' /\ Marking'
  BY <1>6 DEF PushedNew, EntriesApart, Marking
<1>9. PostsApart'
  BY <1>1, <1>3 DEF PostsApart
<1>10. MemoryIsRecent'
  BY <1>6 DEF MemoryIsRecent
<1> QED BY <1>4, <1>5, <1>7, <1>8, <1>9, <1>10 DEF MessagesInv, MemoryInv

LEMMA MessagesBegin == MessagesInit /\ pc = Idle => MessagesInv
<1> SUFFICES ASSUME MessagesInit, pc = Idle PROVE MessagesInv
  OBVIOUS
<1>1. /\ server_messages = <<>> /\ clock = 0 /\ ChannelMessages = <<>> /\ mixed = FALSE /\ crossed = FALSE /\ downloaded = FALSE
      /\ \A t \in Threads : pc[t] = <<>> /\ ml[t] = NoMessageCall
      /\ pc = [t \in Threads |-> <<>>] /\ ml = [t \in Threads |-> NoMessageCall]
  BY DEF MessagesInit, Idle
<1>2. /\ <<>> # P2 /\ <<>> # P3 /\ <<>> \notin {D2, D3} /\ <<>> # D3 /\ <<>> \notin DownloadPlaces /\ <<>> \notin {G2, G3, G4}
      /\ <<>> \notin PostPlaces /\ <<>> \in MessagePlaces
  BY PlacesDiffer DEF DownloadPlaces, PostPlaces, ErasePlaces, PagePlaces, MessagePlaces
<1>3. NoMessageCall \in MessageLocals /\ NoMessageCall.rows = <<>> /\ NoMessageCall.fetched = FALSE
  BY <1>1, MessagesAssumption DEF NoMessageCall, MessageLocals
<1>4. MessagesTyped
  <2>1. ml \in [Threads -> MessageLocals] /\ pc \in [Threads -> MessagePlaces]
    BY <1>1, <1>2, <1>3
  <2>2. clock \in 0..MaxMessages /\ mixed \in BOOLEAN /\ crossed \in BOOLEAN /\ downloaded \in BOOLEAN
    <3>1. mixed \in BOOLEAN /\ crossed \in BOOLEAN /\ downloaded \in BOOLEAN
      BY <1>1
    <3>2. clock = 0 /\ MaxMessages \in Nat
      BY <1>1, MessagesAssumption
    <3> QED BY <3>1, <3>2
  <2>3. server_messages \in Seq([at : 1..clock, deleted : BOOLEAN]) /\ ChannelMessages \in Seq(EntryOf(MessageIds))
    BY <1>1
  <2> QED BY <2>1, <2>2, <2>3, Zenon DEF MessagesTyped
<1>5. LocalsFit /\ RowsApart
  BY <1>1, <1>2, <1>3 DEF LocalsFit, RowsApart
<1>6. DOMAIN ChannelMessages = {}
  BY <1>1
<1>7. DownloadsApart /\ Downloads
  BY <1>1, <1>2, NoDownload DEF DownloadsApart, Downloads
<1>8. PushedNew /\ EntriesApart /\ Marking
  BY <1>6 DEF PushedNew, EntriesApart, Marking
<1>9. PostsApart
  BY <1>1, <1>2 DEF PostsApart
<1>10. MemoryIsRecent
  BY <1>6 DEF MemoryIsRecent
<1> QED BY <1>4, <1>5, <1>7, <1>8, <1>9, <1>10 DEF MessagesInv, MemoryInv

LEMMA MessageStepKeeps ==
  ASSUME MessagesInv, NEW th \in Threads, MessageStep(th)
  PROVE  MessagesInv'
<1>1. pc[th] \in MessagePlaces
  BY ThreadTyped DEF MessagesInv
<1>2. CASE UploadMessageToDB(th)
  BY <1>1, <1>2, UploadedKeeps, MessageMoves, GivesUpKeeps DEF UploadMessageToDB, Local
<1>3. CASE MarkMessageDeletedInDB(th)
  BY <1>1, <1>3, TombstoneKeeps, MessageMoves, GivesUpKeeps DEF MarkMessageDeletedInDB
<1>4. CASE AppendRow(th)
  BY <1>4, AppendEndKeeps, AppendRowKeeps
<1>5. CASE \E id \in MessageIds, allowed \in BOOLEAN : GetServerMessageOwnerFromDB(th, id, allowed)
  BY <1>5, OwnerKeeps
<1>6. CASE \E before \in 0..MaxMessages : ReadPage(th, before)
  BY <1>6, ReadPageKeeps
<1>7. CASE \/ StampMessage(th) \/ PushMessage(th) \/ MessageNotFound(th) \/ MarkMessageDeleted(th)
           \/ DownloadMessagesFromDB(th) \/ ReadPageAgain(th) \/ MessageReply(th)
  BY <1>7, StampKeeps, PushKeeps, NotFoundKeeps, MarkKeeps, DownloadKeepsMessages, PageAgainKeeps, ReplyKeepsMessages
<1> QED BY <1>2, <1>3, <1>4, <1>5, <1>6, <1>7 DEF MessageStep

LEMMA MessagesStay == MessagesInv /\ [MessagesNext]_<<pc, messageVars>> => MessagesInv'
<1> SUFFICES ASSUME MessagesInv, [MessagesNext]_<<pc, messageVars>> PROVE MessagesInv'
  OBVIOUS
<1>1. ASSUME NEW th \in Threads, MessageStep(th) PROVE MessagesInv'
  BY <1>1, MessageStepKeeps
<1>2. ASSUME NEW th \in Threads, MessageCall(th) PROVE MessagesInv'
  BY <1>2, PostBegins, EraseBegins, PageBegins DEF MessageCall
<1>3. CASE TrimChannelMessagesToCount
  BY <1>3, TrimKeeps
<1>4. CASE MessagesRestart
  BY <1>4, RestartKeepsMessages
<1>5. CASE UNCHANGED <<pc, messageVars>>
  <2>1. /\ pc' = pc /\ server_messages' = server_messages /\ clock' = clock /\ ChannelMessages' = ChannelMessages
        /\ ml' = ml /\ mixed' = mixed /\ crossed' = crossed /\ downloaded' = downloaded
    BY <1>5 DEF messageVars
  <2>2. MessageIds' = MessageIds
    BY <2>1 DEF MessageIds
  <2>3. MessagesTyped'
    BY <2>1, <2>2 DEF MessageLocals, MessagesInv, MessagesTyped
  <2>4. LocalsFit' /\ RowsApart' /\ PostsApart'
    BY <2>1, <2>2 DEF MessagesInv, LocalsFit, RowsApart, PostsApart
  <2>5. DownloadsApart' <=> DownloadsApart
    BY <2>1 DEF DownloadsApart
  <2>6. (PushedNew' <=> PushedNew) /\ (Downloads' <=> Downloads) /\ (EntriesApart' <=> EntriesApart)
    BY <2>1 DEF PushedNew, Downloads, EntriesApart
  <2>7. Marking' <=> Marking
    BY <2>1 DEF Marking
  <2>8. MemoryInv'
    BY <2>1, <2>5, <2>6, <2>7 DEF MessagesInv, MemoryInv
  <2>9. MemoryIsRecent'
    BY <2>1, <2>3, SameThreads DEF MessagesInv, MemoryIsRecent
  <2> QED BY <2>3, <2>4, <2>8, <2>9 DEF MessagesInv
<1> QED BY <1>1, <1>2, <1>3, <1>4, <1>5 DEF MessagesNext

(***************************************************************************)
(* What it gives.                                                          *)
(***************************************************************************)
LEMMA MessagesInvSays == MessagesInv => MessagesConsistent
  BY ThreadTyped, MessageThreads DEF MessagesInv, MessagesTyped, MessagesTypeOK, MemoryInv,
     EntriesApart, NoDuplicates, DeletedHidden, ErasePlaces, Marking, MessagesConsistent

\* What memory holds of a channel agrees with the table, for any number of threads, messages,
\* pages and trims: a deleted message shows no content (DeletedHidden), none is there twice
\* (NoDuplicates), and memory holds the newest messages (MemoryIsRecent).
THEOREM MessagesStayConsistent == MessagesSpec => []MessagesConsistent
<1>1. MessagesInit /\ pc = Idle => MessagesInv
  BY MessagesBegin
<1>2. MessagesInv /\ [MessagesNext]_<<pc, messageVars>> => MessagesInv'
  BY MessagesStay
<1>3. MessagesInv => MessagesConsistent
  BY MessagesInvSays
<1> QED BY <1>1, <1>2, <1>3, PTL DEF MessagesSpec

\* A list that may hold Limit numbers and has at most that many to choose from takes them all.
LEMMA NewestTakesAll ==
  ASSUME NEW S, S \subseteq Nat, IsFiniteSet(S), Cardinality(S) <= Limit, NEW s \in Newest(S), NEW x \in S
  PROVE  \E i \in 1..Len(s) : s[i] = x
<1>1. /\ Len(s) \in 0..Limit /\ s \in [1..Len(s) -> S] /\ \A i, j \in 1..Len(s) : s[i] = s[j] => i = j
      /\ (\E i \in 1..Len(s) : s[i] = x) \/ Len(s) = Limit
  BY NewestIs
<1> SUFFICES ASSUME ~\E i \in 1..Len(s) : s[i] = x PROVE FALSE
  OBVIOUS
<1>2. Len(s) = Limit /\ Limit \in Nat /\ Limit # 0
  BY <1>1, MessagesAssumption
<1>3. s \in [1..Limit -> S \ {x}]
  BY <1>1, <1>2
<1>4. IsFiniteSet(S \ {x}) /\ Cardinality(S \ {x}) = Cardinality(S) - 1 /\ Cardinality(S) \in Nat
  BY FS_RemoveElement, FS_CardinalityType
<1>5. IsFiniteSet(1..Limit) /\ Cardinality(1..Limit) = Limit
  BY <1>2, FS_Interval
<1>6. Cardinality(S \ {x}) < Cardinality(1..Limit)
  BY <1>2, <1>4, <1>5
<1>7. \E i, j \in 1..Limit : i # j /\ s[i] = s[j]
  <2>1. PICK D, T : D = 1..Limit /\ T = S \ {x}
    OBVIOUS
  <2>2. IsFiniteSet(D) /\ IsFiniteSet(T) /\ Cardinality(T) < Cardinality(D) /\ s \in [D -> T]
    BY <1>3, <1>4, <1>5, <1>6, <2>1
  <2>3. \E i, j \in D : i # j /\ s[i] = s[j]
    BY <2>2, FS_PigeonHole
  <2> QED BY <2>1, <2>3
<1> QED BY <1>1, <1>2, <1>7

LEMMA PageAfterDownload ==
  ASSUME MessagesTyped, NEW b, NEW k \in 0..Limit, Appended(server_messages, ChannelMessages, <<>>, b, k),
         NEW page \in CachedPages(b)
  PROVE  \E rows \in TablePages(b) : IdsOf(page) = IdsOf(rows)
<1>1. PICK L : L = Len(ChannelMessages)
  OBVIOUS
<1>2. L \in Nat /\ DOMAIN ChannelMessages = 1..L /\ k \in Nat /\ Limit \in Nat
  BY <1>1, EntriesTyped, MessagesAssumption
<1>3. /\ k <= L /\ k <= Limit
      /\ \A i \in 1..L : OlderIn(server_messages, ChannelMessages[i].id, b) <=> i > L - k
  BY <1>1, <1>2 DEF Appended
<1>4. PICK rows \in TablePages(b) : IdsOf(rows) = LastIds(ChannelMessages, k)
  BY SamePages DEF Appended, IdsOf
<1>5. PICK S : S = OlderEntries(b)
  OBVIOUS
<1>6. S = L - k + 1..L /\ S \subseteq 1..L
  BY <1>2, <1>3, <1>5, SamePages DEF OlderEntries
<1>7. S \subseteq Nat /\ IsFiniteSet(S) /\ Cardinality(S) <= Limit
  <2>1. L - k + 1 \in Int /\ L \in Int
    BY <1>2
  <2>2. IsFiniteSet(S) /\ Cardinality(S) = IF L - k + 1 > L THEN 0 ELSE L - (L - k + 1) + 1
    BY <1>6, <2>1, FS_Interval
  <2> QED BY <1>2, <1>3, <1>6, <2>2
<1>8. PICK s \in Newest(S) : page = [i \in DOMAIN s |-> ChannelMessages[s[i]]]
  BY <1>5, Zenon DEF CachedPages
<1>9. Len(s) \in Nat /\ s \in [1..Len(s) -> S] /\ DOMAIN s = 1..Len(s) /\ \A x \in S : \E i \in 1..Len(s) : s[i] = x
  <2>1. Len(s) \in 0..Limit /\ s \in [1..Len(s) -> S] /\ DOMAIN s = 1..Len(s)
    BY <1>7, <1>8, NewestIs
  <2>2. \A x \in S : \E i \in 1..Len(s) : s[i] = x
    BY <1>7, <1>8, NewestTakesAll
  <2> QED BY <1>2, <2>1, <2>2
<1>10. DOMAIN page = 1..Len(s) /\ \A i \in 1..Len(s) : page[i] = ChannelMessages[s[i]]
  BY <1>8, <1>9
<1>11. IdsOf(page) = {page[i].id : i \in 1..Len(s)} /\ LastIds(ChannelMessages, k) = {ChannelMessages[i].id : i \in S}
  BY <1>1, <1>6, <1>10 DEF IdsOf, LastIds
<1>12. \A x \in IdsOf(page) : x \in LastIds(ChannelMessages, k)
  BY <1>9, <1>10, <1>11
<1>13. \A x \in LastIds(ChannelMessages, k) : x \in IdsOf(page)
  BY <1>9, <1>10, <1>11
<1>14. IdsOf(page) = LastIds(ChannelMessages, k)
  BY <1>12, <1>13
<1> QED BY <1>4, <1>14

\* Only the second reading of a page leads from G4 to G5.
LEMMA OnlyPageAgain ==
  ASSUME MessagesInv, [MessagesNext]_<<pc, messageVars>>, NEW th \in Threads, pc[th] = G4, pc'[th] = G5
  PROVE  ReadPageAgain(th)
<1>0. pc \in [Threads -> MessagePlaces] /\ \A t \in Threads : pc[t] \in MessagePlaces
  BY ThreadTyped DEF MessagesInv, MessagesTyped
<1>1. /\ G4 # <<>> /\ G5 # <<>> /\ G4 # G5 /\ G4 \notin {P1, P2, P3, D1, D2, D3, G1, G2, G3, P4, D4, G5}
      /\ G5 \notin {P2, P3, P4, D2, D3, D4, G2, G4}
  BY PlacesDiffer DEF PostPlaces, ErasePlaces, PagePlaces
<1>2. ~UNCHANGED <<pc, messageVars>> /\ ~TrimChannelMessagesToCount /\ ~MessagesRestart
  BY <1>1 DEF TrimChannelMessagesToCount, MessagesRestart, Idle
<1>3. ASSUME NEW t \in Threads, NEW p, NEW q, Moved(t, q), pc[t] = p, p # G4 PROVE FALSE
  BY <1>0, <1>1, <1>3, OthersKeepPlace
<1>4. ASSUME NEW t \in Threads, MessageCall(t) PROVE FALSE
  BY <1>1, <1>3, <1>4, MessageEnter DEF MessageCall, ServerMessage, HandleServerMessageDelete,
     HandleGetServerMessages, BeginMessageCall
<1>5. ASSUME NEW t \in Threads, MessageStep(t), ~ReadPageAgain(t) PROVE FALSE
  BY <1>0, <1>1, <1>3, <1>5, MessageMoves DEF UploadMessageToDB, MarkMessageDeletedInDB,
     MessageNotFound, GetServerMessageOwnerFromDB, ReadPage, AppendRow, MessageStep
<1>6. PICK t \in Threads : ReadPageAgain(t)
  BY <1>2, <1>4, <1>5 DEF MessagesNext
<1>7. pc[t] = G4 /\ Moved(t, G5)
  BY <1>0, <1>6, MessageMoves
<1>8. t = th
  BY <1>0, <1>1, <1>7, OthersKeepPlace
<1> QED BY <1>6, <1>8

\* A page that had to be downloaded holds what the table's page holds.
THEOREM DownloadedPagesComplete == MessagesSpec => DownloadedPageComplete
<1> DEFINE Complete(th) ==
             AtStep(th, "pageAgain") /\ pc'[th] = Tail(pc[th]) /\ ml[th].fetched /\ ~mixed =>
                 \E rows \in TablePages(ml[th].before) : IdsOf(ml'[th].answer) = IdsOf(rows)
<1>1. MessagesInit /\ pc = Idle => MessagesInv
  BY MessagesBegin
<1>2. MessagesInv /\ [MessagesNext]_<<pc, messageVars>> => MessagesInv'
  BY MessagesStay
<1>3. MessagesInv /\ [MessagesNext]_<<pc, messageVars>> => [\A th \in Threads : Complete(th)]_<<pc, ml>>
  <2> SUFFICES ASSUME MessagesInv, [MessagesNext]_<<pc, messageVars>>, NEW th \in Threads,
                      AtStep(th, "pageAgain"), pc'[th] = Tail(pc[th]), ml[th].fetched, ~mixed
               PROVE  \E rows \in TablePages(ml[th].before) : IdsOf(ml'[th].answer) = IdsOf(rows)
    BY Zenon
  <2>1. MessagesTyped /\ LocalsFit /\ MemoryInv /\ pc[th] \in MessagePlaces
    BY ThreadTyped DEF MessagesInv
  <2>2. pc[th] = G4 /\ pc'[th] = G5
    <3>1. pc[th] = G4
      BY <2>1, MessageThread
    <3>2. PlaceRest(G4) = G5
      BY MessagePlacesAre
    <3> QED BY <3>1, <3>2 DEF PlaceRest
  <2>3. ReadPageAgain(th)
    BY <2>2, OnlyPageAgain
  <2>4. PICK page \in CachedPages(ml[th].before) : ml' = [ml EXCEPT ![th] = [ml[th] EXCEPT !.answer = page]]
    BY <2>3 DEF ReadPageAgain, Local
  <2>5. ml'[th].answer = page
    BY <2>1, <2>4, ThreadTyped DEF MessageLocals
  <2>6. PICK k \in 0..Limit : Appended(server_messages, ChannelMessages, ml[th].rows, ml[th].before, k)
    BY <2>1, <2>2 DEF MemoryInv, Downloads, ThreadDownloads
  <2>7. ml[th].rows = <<>>
    BY <2>1, <2>2, PlacesDiffer DEF LocalsFit
  <2> QED BY <2>1, <2>4, <2>5, <2>6, <2>7, PageAfterDownload
<1>4. MessagesSpec => [][\A th \in Threads : Complete(th)]_<<pc, ml>>
  BY <1>1, <1>2, <1>3, PTL DEF MessagesSpec
<1> QED BY <1>4 DEF DownloadedPageComplete
=============================================================================
