---------------------------- MODULE EngineProofs ----------------------------
(***************************************************************************)
(* Proofs about DataBasePool for every size of the pool and every set of   *)
(* threads, and about Presence for every number of socket loops, every set *)
(* of users and every number of connections and failing SELECTs.  The pool *)
(* comes first; the two share nothing but the calls of the threads.        *)
(***************************************************************************)
EXTENDS Presence, DataBasePool, SequenceTheorems, FiniteSetTheorems, TLAPS

(***************************************************************************)
(* THE DATABASE POOL.                                                      *)
(***************************************************************************)
(***************************************************************************)
(* The places of a call: what a thread has still to do, and how many       *)
(* connections it holds there.                                             *)
(***************************************************************************)
Q1 == <<"lease", "validate", "use", "drop", "query">>
Q2 == <<"validate", "use", "drop", "query">>
Q3 == <<"use", "drop", "query">>
Q4 == <<"drop", "query">>
Q5 == <<"query">>

L1 == <<"lease", "validate", "use", "lease", "validate", "use", "drop",
        "lease", "validate", "use", "drop", "drop", "load">>
L2 == <<"validate", "use", "lease", "validate", "use", "drop",
        "lease", "validate", "use", "drop", "drop", "load">>
L3 == <<"use", "lease", "validate", "use", "drop", "lease", "validate", "use", "drop", "drop", "load">>
L4 == <<"lease", "validate", "use", "drop", "lease", "validate", "use", "drop", "drop", "load">>
L5 == <<"validate", "use", "drop", "lease", "validate", "use", "drop", "drop", "load">>
L6 == <<"use", "drop", "lease", "validate", "use", "drop", "drop", "load">>
L7 == <<"drop", "lease", "validate", "use", "drop", "drop", "load">>
L8 == <<"lease", "validate", "use", "drop", "drop", "load">>
L9 == <<"validate", "use", "drop", "drop", "load">>
L10 == <<"use", "drop", "drop", "load">>
L11 == <<"drop", "drop", "load">>
L12 == <<"drop", "load">>
L13 == <<"load">>

U1 == <<"lease", "validate", "use", "lease", "validate", "use", "drop", "drop", "update">>
U2 == <<"validate", "use", "lease", "validate", "use", "drop", "drop", "update">>
U3 == <<"use", "lease", "validate", "use", "drop", "drop", "update">>
U4 == <<"lease", "validate", "use", "drop", "drop", "update">>
U5 == <<"validate", "use", "drop", "drop", "update">>
U6 == <<"use", "drop", "drop", "update">>
U7 == <<"drop", "drop", "update">>
U8 == <<"drop", "update">>
U9 == <<"update">>

IdleNow(p, n) == p = <<>> /\ n = 0
AtLease(p, n) ==
    (p = Q1 /\ n = 0) \/ (p = L1 /\ n = 0) \/ (p = L4 /\ n = 1) \/ (p = L8 /\ n = 1) \/ (p = U1 /\ n = 0) \/ (p = U4 /\ n = 1)
AtValidate(p, n) ==
    (p = Q2 /\ n = 1) \/ (p = L2 /\ n = 1) \/ (p = L5 /\ n = 2) \/ (p = L9 /\ n = 2) \/ (p = U2 /\ n = 1) \/ (p = U5 /\ n = 2)
AtUse(p, n) ==
    (p = Q3 /\ n = 1) \/ (p = L3 /\ n = 1) \/ (p = L6 /\ n = 2) \/ (p = L10 /\ n = 2) \/ (p = U3 /\ n = 1) \/ (p = U6 /\ n = 2)
AtDrop(p, n) ==
    (p = Q4 /\ n = 1) \/ (p = L7 /\ n = 2) \/ (p = L11 /\ n = 2) \/ (p = L12 /\ n = 1) \/ (p = U7 /\ n = 2) \/ (p = U8 /\ n = 1)
AtEnd(p, n) == (p = Q5 \/ p = L13 \/ p = U9) /\ n = 0

Placed(p, n) ==
    IdleNow(p, n) \/ AtLease(p, n) \/ AtValidate(p, n) \/ AtUse(p, n) \/ AtDrop(p, n) \/ AtEnd(p, n)

LEMMA QueryPlaces ==
  /\ Q1 # <<>> /\ Head(Q1) = "lease" /\ Tail(Q1) = Q2
  /\ Q2 # <<>> /\ Head(Q2) = "validate" /\ Tail(Q2) = Q3
  /\ Q3 # <<>> /\ Head(Q3) = "use" /\ Tail(Q3) = Q4
  /\ Q4 # <<>> /\ Head(Q4) = "drop" /\ Tail(Q4) = Q5
  /\ Q5 # <<>> /\ Head(Q5) = "query" /\ Tail(Q5) = <<>>
  BY DEF Q1, Q2, Q3, Q4, Q5

LEMMA LoadPlaces ==
  /\ L1 # <<>> /\ Head(L1) = "lease" /\ Tail(L1) = L2
  /\ L2 # <<>> /\ Head(L2) = "validate" /\ Tail(L2) = L3
  /\ L3 # <<>> /\ Head(L3) = "use" /\ Tail(L3) = L4
  /\ L4 # <<>> /\ Head(L4) = "lease" /\ Tail(L4) = L5
  /\ L5 # <<>> /\ Head(L5) = "validate" /\ Tail(L5) = L6
  /\ L6 # <<>> /\ Head(L6) = "use" /\ Tail(L6) = L7
  /\ L7 # <<>> /\ Head(L7) = "drop" /\ Tail(L7) = L8
  /\ L8 # <<>> /\ Head(L8) = "lease" /\ Tail(L8) = L9
  /\ L9 # <<>> /\ Head(L9) = "validate" /\ Tail(L9) = L10
  /\ L10 # <<>> /\ Head(L10) = "use" /\ Tail(L10) = L11
  /\ L11 # <<>> /\ Head(L11) = "drop" /\ Tail(L11) = L12
  /\ L12 # <<>> /\ Head(L12) = "drop" /\ Tail(L12) = L13
  /\ L13 # <<>> /\ Head(L13) = "load" /\ Tail(L13) = <<>>
  <1>1. /\ L1 # <<>> /\ Head(L1) = "lease" /\ Tail(L1) = L2
        /\ L2 # <<>> /\ Head(L2) = "validate" /\ Tail(L2) = L3
    BY DEF L1, L2, L3
  <1>2. /\ L3 # <<>> /\ Head(L3) = "use" /\ Tail(L3) = L4
        /\ L4 # <<>> /\ Head(L4) = "lease" /\ Tail(L4) = L5
    BY DEF L3, L4, L5
  <1>3. /\ L5 # <<>> /\ Head(L5) = "validate" /\ Tail(L5) = L6
        /\ L6 # <<>> /\ Head(L6) = "use" /\ Tail(L6) = L7
        /\ L7 # <<>> /\ Head(L7) = "drop" /\ Tail(L7) = L8
    BY DEF L5, L6, L7, L8
  <1>4. /\ L8 # <<>> /\ Head(L8) = "lease" /\ Tail(L8) = L9
        /\ L9 # <<>> /\ Head(L9) = "validate" /\ Tail(L9) = L10
        /\ L10 # <<>> /\ Head(L10) = "use" /\ Tail(L10) = L11
    BY DEF L8, L9, L10, L11
  <1>5. /\ L11 # <<>> /\ Head(L11) = "drop" /\ Tail(L11) = L12
        /\ L12 # <<>> /\ Head(L12) = "drop" /\ Tail(L12) = L13
        /\ L13 # <<>> /\ Head(L13) = "load" /\ Tail(L13) = <<>>
    BY DEF L11, L12, L13
  <1> QED BY <1>1, <1>2, <1>3, <1>4, <1>5

LEMMA UpdatePlaces ==
  /\ U1 # <<>> /\ Head(U1) = "lease" /\ Tail(U1) = U2
  /\ U2 # <<>> /\ Head(U2) = "validate" /\ Tail(U2) = U3
  /\ U3 # <<>> /\ Head(U3) = "use" /\ Tail(U3) = U4
  /\ U4 # <<>> /\ Head(U4) = "lease" /\ Tail(U4) = U5
  /\ U5 # <<>> /\ Head(U5) = "validate" /\ Tail(U5) = U6
  /\ U6 # <<>> /\ Head(U6) = "use" /\ Tail(U6) = U7
  /\ U7 # <<>> /\ Head(U7) = "drop" /\ Tail(U7) = U8
  /\ U8 # <<>> /\ Head(U8) = "drop" /\ Tail(U8) = U9
  /\ U9 # <<>> /\ Head(U9) = "update" /\ Tail(U9) = <<>>
  <1>1. /\ U1 # <<>> /\ Head(U1) = "lease" /\ Tail(U1) = U2
        /\ U2 # <<>> /\ Head(U2) = "validate" /\ Tail(U2) = U3
        /\ U3 # <<>> /\ Head(U3) = "use" /\ Tail(U3) = U4
    BY DEF U1, U2, U3, U4
  <1>2. /\ U4 # <<>> /\ Head(U4) = "lease" /\ Tail(U4) = U5
        /\ U5 # <<>> /\ Head(U5) = "validate" /\ Tail(U5) = U6
        /\ U6 # <<>> /\ Head(U6) = "use" /\ Tail(U6) = U7
    BY DEF U4, U5, U6, U7
  <1>3. /\ U7 # <<>> /\ Head(U7) = "drop" /\ Tail(U7) = U8
        /\ U8 # <<>> /\ Head(U8) = "drop" /\ Tail(U8) = U9
        /\ U9 # <<>> /\ Head(U9) = "update" /\ Tail(U9) = <<>>
    BY DEF U7, U8, U9
  <1> QED BY <1>1, <1>2, <1>3

\* The last of what is left is the call's name.
LEMMA LastIsName ==
  /\ \A p \in {Q1, Q2, Q3} : p[Len(p)] = "query"
  /\ \A p \in {L1, L2, L3} : p[Len(p)] = "load"
  /\ \A p \in {U1, U2, U3} : p[Len(p)] = "update"
  BY DEF Q1, Q2, Q3, L1, L2, L3, U1, U2, U3

(***************************************************************************)
(* Calls begin at Q1, L1 or U1.                                            *)
(***************************************************************************)
LEMMA AppendIs ==
  ASSUME NEW s, NEW e, NEW u, NEW S, s \in Seq(S), e \in S, u \in Seq(S),
         Len(u) = Len(s) + 1, \A i \in 1..Len(s) : u[i] = s[i], u[Len(u)] = e
  PROVE  Append(s, e) = u
  BY SeqEqual

StepNames == {"lease", "validate", "use", "drop", "query", "load", "update"}

LEMMA QueryBegins == Append(Connect, "query") = Q1
  <1>1. Connect \in Seq(StepNames) /\ Q1 \in Seq(StepNames) /\ "query" \in StepNames
    BY DEF Connect, Q1, StepNames
  <1>2. Len(Q1) = Len(Connect) + 1 /\ (\A i \in 1..Len(Connect) : Q1[i] = Connect[i]) /\ Q1[Len(Q1)] = "query"
    BY DEF Connect, Q1
  <1> QED BY <1>1, <1>2, AppendIs

LEMMA LoadBegins == Append(DownloadServerFromDB, "load") = L1
  <1> DEFINE d == DownloadServerFromDB
  <1>1. d \in Seq(StepNames) /\ L1 \in Seq(StepNames) /\ "load" \in StepNames
    BY DEF DownloadServerFromDB, L1, StepNames
  <1>2. Len(d) = 12 /\ Len(L1) = 13 /\ L1[13] = "load"
    BY DEF DownloadServerFromDB, L1
  <1>3. \A i \in 1..12 : L1[i] = d[i]
    BY DEF DownloadServerFromDB, L1
  <1> HIDE DEF d
  <1>4. Len(L1) = Len(d) + 1 /\ (\A i \in 1..Len(d) : L1[i] = d[i]) /\ L1[Len(L1)] = "load"
    BY <1>2, <1>3
  <1>5. Append(d, "load") = L1
    BY <1>1, <1>4, AppendIs
  <1> QED BY <1>5 DEF d

LEMMA UpdateBegins == Append(UpdateUser, "update") = U1
  <1>1. UpdateUser \in Seq(StepNames) /\ U1 \in Seq(StepNames) /\ "update" \in StepNames
    BY DEF UpdateUser, U1, StepNames
  <1>2. Len(U1) = Len(UpdateUser) + 1 /\ (\A i \in 1..Len(UpdateUser) : U1[i] = UpdateUser[i]) /\ U1[Len(U1)] = "update"
    BY DEF UpdateUser, U1
  <1> QED BY <1>1, <1>2, AppendIs

(***************************************************************************)
(* A call without an inner connection goes on behind the next "drop".       *)
(***************************************************************************)
After(p, end) ==
    LET ends == {i \in DOMAIN p : p[i] = end}
        first == CHOOSE i \in ends : \A j \in ends : i <= j
    IN IF ends = {} THEN <<p[Len(p)]>> ELSE SubSeq(p, first + 1, Len(p))

LEMMA AfterIs ==
  ASSUME NEW p \in Seq(StepNames), NEW u \in Seq(StepNames), NEW k \in 1..Len(p),
         p[k] = "drop" /\ (\A j \in 1..(k - 1) : p[j] # "drop"),
         Len(u) = Len(p) - k /\ (\A i \in 1..Len(u) : u[i] = p[k + i])
  PROVE  After(p, "drop") = u
  <1> DEFINE S == StepNames
             end == "drop"
  <1> DEFINE ends == {i \in DOMAIN p : p[i] = end}
  <1>1. k \in ends /\ \A j \in ends : k <= j
    OBVIOUS
  <1>2. \A i \in ends : (\A j \in ends : i <= j) => i = k
    BY <1>1
  <1>3. (CHOOSE i \in ends : \A j \in ends : i <= j) = k
    BY <1>1, <1>2
  <1>4. SubSeq(p, k + 1, Len(p)) = u
    <2> DEFINE m == k + 1
               n == Len(p)
    <2>1. m \in Int /\ n \in Int /\ n - m + 1 = Len(u) /\ (m <= n \/ Len(u) = 0)
      OBVIOUS
    <2>2. \A i \in m..n : p[i] \in S
      OBVIOUS
    <2>3. \A i \in 1..Len(u) : p[m + i - 1] = u[i]
      OBVIOUS
    <2> HIDE DEF m, n
    <2>4. /\ SubSeq(p, m, n) \in Seq(S)
          /\ Len(SubSeq(p, m, n)) = IF m <= n THEN n - m + 1 ELSE 0
          /\ \A i \in 1..(n - m + 1) : SubSeq(p, m, n)[i] = p[m + i - 1]
      BY <2>1, <2>2, SubSeqProperties
    <2>5. Len(SubSeq(p, m, n)) = Len(u)
      BY <2>1, <2>4
    <2>6. \A i \in 1..Len(u) : SubSeq(p, m, n)[i] = u[i]
      BY <2>1, <2>3, <2>4
    <2>7. SubSeq(p, m, n) = u
      BY <2>4, <2>5, <2>6, SeqEqual
    <2> QED BY <2>7 DEF m, n
  <1> QED BY <1>1, <1>3, <1>4 DEF After

LEMMA LoadGoesOn ==
  /\ After(L4, "drop") = L8
  /\ After(L5, "drop") = L8
  /\ After(L8, "drop") = L12
  /\ After(L9, "drop") = L12
  <1>1. /\ L4 \in Seq(StepNames) /\ L5 \in Seq(StepNames) /\ L8 \in Seq(StepNames)
        /\ L9 \in Seq(StepNames) /\ L12 \in Seq(StepNames)
    BY DEF L4, L5, L8, L9, L12, StepNames
  <1>2. After(L4, "drop") = L8
    <2>1. 4 \in 1..Len(L4)
      BY DEF L4
    <2>2. L4[4] = "drop" /\ (\A j \in 1..(4 - 1) : L4[j] # "drop")
      BY DEF L4
    <2>3. Len(L8) = Len(L4) - 4 /\ (\A i \in 1..Len(L8) : L8[i] = L4[4 + i])
      BY DEF L4, L8
    <2> QED BY <1>1, <2>1, <2>2, <2>3, AfterIs
  <1>3. After(L5, "drop") = L8
    <2>1. 3 \in 1..Len(L5)
      BY DEF L5
    <2>2. L5[3] = "drop" /\ (\A j \in 1..(3 - 1) : L5[j] # "drop")
      BY DEF L5
    <2>3. Len(L8) = Len(L5) - 3 /\ (\A i \in 1..Len(L8) : L8[i] = L5[3 + i])
      BY DEF L5, L8
    <2> QED BY <1>1, <2>1, <2>2, <2>3, AfterIs
  <1>4. After(L8, "drop") = L12
    <2>1. 4 \in 1..Len(L8)
      BY DEF L8
    <2>2. L8[4] = "drop" /\ (\A j \in 1..(4 - 1) : L8[j] # "drop")
      BY DEF L8
    <2>3. Len(L12) = Len(L8) - 4 /\ (\A i \in 1..Len(L12) : L12[i] = L8[4 + i])
      BY DEF L8, L12
    <2> QED BY <1>1, <2>1, <2>2, <2>3, AfterIs
  <1>5. After(L9, "drop") = L12
    <2>1. 3 \in 1..Len(L9)
      BY DEF L9
    <2>2. L9[3] = "drop" /\ (\A j \in 1..(3 - 1) : L9[j] # "drop")
      BY DEF L9
    <2>3. Len(L12) = Len(L9) - 3 /\ (\A i \in 1..Len(L12) : L12[i] = L9[3 + i])
      BY DEF L9, L12
    <2> QED BY <1>1, <2>1, <2>2, <2>3, AfterIs
  <1> QED BY <1>2, <1>3, <1>4, <1>5

LEMMA UpdateGoesOn == After(U4, "drop") = U8 /\ After(U5, "drop") = U8
  <1>1. U4 \in Seq(StepNames) /\ U5 \in Seq(StepNames) /\ U8 \in Seq(StepNames)
    BY DEF U4, U5, U8, StepNames
  <1>2. After(U4, "drop") = U8
    <2>1. 4 \in 1..Len(U4)
      BY DEF U4
    <2>2. U4[4] = "drop" /\ (\A j \in 1..(4 - 1) : U4[j] # "drop")
      BY DEF U4
    <2>3. Len(U8) = Len(U4) - 4 /\ (\A i \in 1..Len(U8) : U8[i] = U4[4 + i])
      BY DEF U4, U8
    <2> QED BY <1>1, <2>1, <2>2, <2>3, AfterIs
  <1>3. After(U5, "drop") = U8
    <2>1. 3 \in 1..Len(U5)
      BY DEF U5
    <2>2. U5[3] = "drop" /\ (\A j \in 1..(3 - 1) : U5[j] # "drop")
      BY DEF U5
    <2>3. Len(U8) = Len(U5) - 3 /\ (\A i \in 1..Len(U8) : U8[i] = U5[3 + i])
      BY DEF U5, U8
    <2> QED BY <1>1, <2>1, <2>2, <2>3, AfterIs
  <1> QED BY <1>2, <1>3

(***************************************************************************)
(* Where the steps lead.                                                   *)
(***************************************************************************)
LEMMA Heads ==
  ASSUME NEW p, NEW n \in Nat
  PROVE  /\ AtLease(p, n) => p # <<>> /\ Head(p) = "lease"
         /\ AtValidate(p, n) => p # <<>> /\ Head(p) = "validate"
         /\ AtUse(p, n) => p # <<>> /\ Head(p) = "use"
         /\ AtDrop(p, n) => p # <<>> /\ Head(p) = "drop"
         /\ AtEnd(p, n) => p # <<>> /\ Head(p) \in {"query", "load", "update"}
  <1>1. AtLease(p, n) => p # <<>> /\ Head(p) = "lease"
    BY DEF AtLease, Q1, L1, L4, L8, U1, U4
  <1>2. AtValidate(p, n) => p # <<>> /\ Head(p) = "validate"
    BY DEF AtValidate, Q2, L2, L5, L9, U2, U5
  <1>3. AtUse(p, n) => p # <<>> /\ Head(p) = "use"
    <2>1. CASE p \in {Q3, L3, L6}
      BY <2>1 DEF Q3, L3, L6
    <2>2. CASE p \in {L10, U3, U6}
      BY <2>2 DEF L10, U3, U6
    <2> QED BY <2>1, <2>2 DEF AtUse
  <1>4. AtDrop(p, n) => p # <<>> /\ Head(p) = "drop"
    BY DEF AtDrop, Q4, L7, L11, L12, U7, U8
  <1>5. AtEnd(p, n) => p # <<>> /\ Head(p) \in {"query", "load", "update"}
    BY DEF AtEnd, Q5, L13, U9
  <1> QED BY <1>1, <1>2, <1>3, <1>4, <1>5

LEMMA PlaceOfStep ==
  ASSUME NEW p, NEW n \in Nat, Placed(p, n), p # <<>>
  PROVE  /\ Head(p) = "lease" => AtLease(p, n)
         /\ Head(p) = "validate" => AtValidate(p, n)
         /\ Head(p) = "use" => AtUse(p, n)
         /\ Head(p) = "drop" => AtDrop(p, n)
         /\ Head(p) \in {"query", "load", "update"} => AtEnd(p, n)
  BY Heads DEF Placed, IdleNow

LEMMA NextPlace ==
  ASSUME NEW p, NEW n \in Nat
  PROVE  /\ AtLease(p, n) => n \in {0, 1} /\ AtValidate(Tail(p), n + 1)
         /\ AtValidate(p, n) => n \in {1, 2} /\ AtUse(Tail(p), n)
         /\ AtUse(p, n) => n \in {1, 2} /\ (AtLease(Tail(p), n) \/ AtDrop(Tail(p), n))
         /\ AtDrop(p, n) => /\ n \in {1, 2}
                            /\ AtLease(Tail(p), n - 1) \/ AtDrop(Tail(p), n - 1) \/ AtEnd(Tail(p), n - 1)
         /\ AtEnd(p, n) => n = 0
  <1>1. AtLease(p, n) => n \in {0, 1} /\ AtValidate(Tail(p), n + 1)
    <2>1. CASE p = Q1 /\ n = 0
      BY <2>1, QueryPlaces DEF AtValidate
    <2>2. CASE p = L1 /\ n = 0
      BY <2>2, LoadPlaces DEF AtValidate
    <2>3. CASE p = L4 /\ n = 1
      BY <2>3, LoadPlaces DEF AtValidate
    <2>4. CASE p = L8 /\ n = 1
      BY <2>4, LoadPlaces DEF AtValidate
    <2>5. CASE p = U1 /\ n = 0
      BY <2>5, UpdatePlaces DEF AtValidate
    <2>6. CASE p = U4 /\ n = 1
      BY <2>6, UpdatePlaces DEF AtValidate
    <2> QED BY <2>1, <2>2, <2>3, <2>4, <2>5, <2>6 DEF AtLease
  <1>2. AtValidate(p, n) => n \in {1, 2} /\ AtUse(Tail(p), n)
    BY QueryPlaces, LoadPlaces, UpdatePlaces DEF AtValidate, AtUse
  <1>3. AtUse(p, n) => n \in {1, 2} /\ (AtLease(Tail(p), n) \/ AtDrop(Tail(p), n))
    <2>1. CASE (p = Q3 /\ n = 1) \/ (p = L3 /\ n = 1) \/ (p = L6 /\ n = 2)
      BY <2>1, QueryPlaces, LoadPlaces DEF AtLease, AtDrop
    <2>2. CASE (p = L10 /\ n = 2) \/ (p = U3 /\ n = 1) \/ (p = U6 /\ n = 2)
      BY <2>2, LoadPlaces, UpdatePlaces DEF AtLease, AtDrop
    <2> QED BY <2>1, <2>2 DEF AtUse
  <1>4. AtDrop(p, n) => /\ n \in {1, 2}
                        /\ AtLease(Tail(p), n - 1) \/ AtDrop(Tail(p), n - 1) \/ AtEnd(Tail(p), n - 1)
    <2>1. CASE p = Q4 /\ n = 1
      BY <2>1, QueryPlaces DEF AtEnd
    <2>2. CASE p = L7 /\ n = 2
      BY <2>2, LoadPlaces DEF AtLease
    <2>3. CASE p = L11 /\ n = 2
      BY <2>3, LoadPlaces DEF AtDrop
    <2>4. CASE p = L12 /\ n = 1
      BY <2>4, LoadPlaces DEF AtEnd
    <2>5. CASE p = U7 /\ n = 2
      BY <2>5, UpdatePlaces DEF AtDrop
    <2>6. CASE p = U8 /\ n = 1
      BY <2>6, UpdatePlaces DEF AtEnd
    <2> QED BY <2>1, <2>2, <2>3, <2>4, <2>5, <2>6 DEF AtDrop
  <1> QED BY <1>1, <1>2, <1>3, <1>4 DEF AtEnd

\* A call, or a call within it, that has no connection.
LEMMA PlaceWithoutConnection ==
  ASSUME NEW p, NEW n \in Nat
  PROVE  /\ AtLease(p, n) /\ n = 0 => AtEnd(<<p[Len(p)]>>, 0)
         /\ AtLease(p, n) /\ n # 0 => AtLease(After(p, "drop"), n) \/ AtDrop(After(p, "drop"), n)
         /\ AtValidate(p, n) /\ n = 1 => AtEnd(<<p[Len(p)]>>, 0)
         /\ AtValidate(p, n) /\ n # 1 =>
                AtLease(After(p, "drop"), n - 1) \/ AtDrop(After(p, "drop"), n - 1)
  BY LastIsName, LoadGoesOn, UpdateGoesOn DEF AtLease, AtValidate, AtDrop, AtEnd, Q5, L13, U9

\* A statement that throws.
LEMMA PlaceAfterThrow ==
  ASSUME NEW p, AtUse(p, 1)
  PROVE  AtDrop(<<"drop", p[Len(p)]>>, 1)
  <1>1. CASE p = Q3
    BY <1>1 DEF Q3, AtDrop, Q4
  <1>2. CASE p = L3
    BY <1>2 DEF L3, AtDrop, L12
  <1>3. CASE p = U3
    BY <1>3 DEF U3, AtDrop, U8
  <1> QED BY <1>1, <1>2, <1>3 DEF AtUse

(***************************************************************************)
(* The inductive invariant.                                                *)
(***************************************************************************)
Lists == {<<>>, Q1, Q2, Q3, Q4, Q5, L1, L2, L3, L4, L5, L6, L7, L8, L9, L10, L11, L12, L13,
          U1, U2, U3, U4, U5, U6, U7, U8, U9}

LEMMA PlacedListed == ASSUME NEW p, NEW n, Placed(p, n) PROVE p \in Lists
  BY DEF Placed, IdleNow, AtLease, AtValidate, AtUse, AtDrop, AtEnd, Lists

\* Of a connection a thread says is connected.
Works(th) ==
    \A i \in DOMAIN leases[th] : leases[th][i] \in alive \cup {Standalone} \/ (i = 1 /\ AtStep(th, "validate"))

\* A thread is at a place of its call, and its connections are slots that are lent to it, each
\* its own, or standalone ones, which it has only when there is no pool.
ThreadOK(th) ==
    /\ Placed(pc[th], Len(leases[th]))
    /\ Pool # "none" => Leased(th) \subseteq Slots
    /\ AtStep(th, "validate") => Pool # "none"
    /\ Leased(th) \ {Standalone} = Held(th)
    /\ \A i, j \in DOMAIN leases[th] : leases[th][i] = leases[th][j] => i = j \/ leases[th][i] = Standalone
    /\ th \notin shaken => Works(th)

MainOK ==
    /\ keep.phase = "idle" => Held(Main) = {}
    /\ Main \notin shaken /\ keep.phase = "check" => Held(Main) \ keep.left \subseteq alive

ShutdownOK ==
    /\ engine # "running" => keep.phase = "idle"
    /\ engine = "joined" => SocketsIdle
    /\ engine \in {"sockets", "joined"} /\ ~timedOut => RestIdle
    /\ Pool = "released" => engine = "joined"

PoolInv ==
    /\ PoolTypeOK
    /\ pc \in [Threads -> Lists]
    /\ \A th \in Threads : ThreadOK(th)
    /\ MainOK
    /\ ShutdownOK

LEMMA InitInv == InitPool /\ pc = Idle => PoolInv
  <1> SUFFICES ASSUME InitPool, pc = Idle PROVE PoolInv
    OBVIOUS
  <1>1. PoolTypeOK
    BY PoolAssumption DEF InitPool, PoolTypeOK, NoMaintenance
  <1>2. pc \in [Threads -> Lists] /\ ShutdownOK
    BY DEF Idle, Lists, ShutdownOK, InitPool
  <1>3. MainOK
    BY PoolAssumption DEF InitPool, MainOK, NoMaintenance, Held
  <1>4. ASSUME NEW th \in Threads PROVE ThreadOK(th)
    BY PoolAssumption DEF Idle, InitPool, Held, Leased, ThreadOK, Placed, IdleNow, AtStep, Busy,
       Works
  <1> QED BY <1>1, <1>2, <1>3, <1>4 DEF PoolInv

LEMMA InvShows == PoolInv => PoolConsistent /\ ReleasedWhenDone
  <1> SUFFICES ASSUME PoolInv PROVE PoolConsistent /\ ReleasedWhenDone
    OBVIOUS
  <1>1. ASSUME NEW th \in Threads, ~Busy(th) PROVE leases[th] = <<>>
    <2>1. Placed(<<>>, Len(leases[th])) /\ leases[th] \in Seq(Slots \cup {Standalone})
      BY <1>1 DEF PoolInv, ThreadOK, Busy, PoolTypeOK
    <2>2. Len(leases[th]) = 0
      BY <2>1, Heads DEF Placed, IdleNow
    <2> QED BY <2>1, <2>2
  <1>2. LeasesAccounted
    BY <1>1 DEF PoolInv, ThreadOK, MainOK, LeasesAccounted
  <1>3. ConnectedAlive
    BY DEF PoolInv, ThreadOK, MainOK, ConnectedAlive, Works
  <1>4. ReleasedWhenDone
    <2> SUFFICES ASSUME Pool = "released" PROVE SocketsIdle /\ (timedOut \/ (RestIdle /\ Free = Slots))
      BY DEF ReleasedWhenDone
    <2>1. engine = "joined" /\ SocketsIdle /\ keep.phase = "idle" /\ (timedOut \/ RestIdle) /\ Held(Main) = {}
      BY DEF PoolInv, ShutdownOK, MainOK
    <2>2. ASSUME RestIdle PROVE Free = Slots
      <3>1. \A th \in Threads : Held(th) = {}
        <4> TAKE th \in Threads
        <4>1. ~Busy(th)
          BY <2>1, <2>2 DEF SocketsIdle, RestIdle, SocketThreads
        <4>2. leases[th] = <<>>
          BY <1>1, <4>1
        <4> QED BY <4>2 DEF PoolInv, ThreadOK, Leased
      <3>2. \A s \in Slots : lent[s] \in Threads \cup {Main, Nobody}
        BY DEF PoolInv, PoolTypeOK
      <3> QED BY <2>1, <3>1, <3>2 DEF Free, Held
    <2> QED BY <2>1, <2>2
  <1> QED BY <1>2, <1>3, <1>4 DEF PoolInv, PoolConsistent

(***************************************************************************)
(* Lending slots, and a thread's list of connections.                      *)
(***************************************************************************)
LEMMA Lending ==
  ASSUME lent \in [Slots -> Threads \cup {Main, Nobody}], NEW s \in Slots, NEW by, by # Nobody,
         lent[s] = Nobody, lent' = [lent EXCEPT ![s] = by]
  PROVE  /\ Held(by)' = Held(by) \cup {s}
         /\ \A o : o \notin {by, Nobody} => Held(o)' = Held(o)
  BY DEF Held

LEMMA GivingBack ==
  ASSUME lent \in [Slots -> Threads \cup {Main, Nobody}], NEW s \in Slots, NEW by, by # Nobody,
         lent[s] = by, lent' = [lent EXCEPT ![s] = Nobody]
  PROVE  /\ Held(by)' = Held(by) \ {s}
         /\ \A o : o \notin {by, Nobody} => Held(o)' = Held(o)
  BY DEF Held

LEMMA NotLending == ASSUME UNCHANGED lent PROVE \A o : Held(o)' = Held(o)
  BY DEF Held

LEMMA Pushing ==
  ASSUME NEW S, NEW q \in Seq(S), NEW c \in S
  PROVE  /\ <<c>> \o q \in Seq(S)
         /\ Len(<<c>> \o q) = Len(q) + 1
         /\ (<<c>> \o q)[1] = c
         /\ \A i \in 2..(Len(q) + 1) : (<<c>> \o q)[i] = q[i - 1]
  OBVIOUS

LEMMA OtherThread ==
  ASSUME NEW o \in Threads, ThreadOK(o), pc'[o] = pc[o], leases'[o] = leases[o], Held(o)' = Held(o),
         alive \subseteq alive', o \in shaken => o \in shaken', Pool' = Pool
  PROVE  ThreadOK(o)'
  BY DEF ThreadOK, Works, Leased, AtStep, Busy

\* A thread that gets a connection.
LEMMA PushOK ==
  ASSUME NEW th \in Threads, ThreadOK(th), leases[th] \in Seq(Slots \cup {Standalone}),
         NEW c \in Slots \cup {Standalone}, leases'[th] = <<c>> \o leases[th],
         c \in Slots => lent[c] = Nobody /\ Held(th)' = Held(th) \cup {c},
         c = Standalone => Held(th)' = Held(th),
         UNCHANGED <<Pool, alive, shaken>>,
         AtStep(th, "lease"),
         \/ AtValidate(pc'[th], Len(leases[th]) + 1) /\ Pool # "none" /\ c \in Slots
         \/ AtUse(pc'[th], Len(leases[th]) + 1) /\ Pool = "none" /\ c = Standalone
  PROVE  ThreadOK(th)'
  <1> DEFINE q == leases[th]
             r == leases'[th]
  <1>0. Standalone \notin Slots /\ th # Nobody /\ Nobody \notin Threads
    BY PoolAssumption DEF Standalone, Slots
  <1>1. /\ r \in Seq(Slots \cup {Standalone}) /\ Len(r) = Len(q) + 1 /\ r[1] = c
        /\ \A i \in 2..(Len(q) + 1) : r[i] = q[i - 1]
    BY Pushing
  <1>2. DOMAIN q = 1..Len(q) /\ DOMAIN r = 1..(Len(q) + 1) /\ Len(q) \in Nat
    BY <1>1
  <1>3. Leased(th)' = Leased(th) \cup {c}
    <2>1. \A x : x \in Leased(th)' <=> \E i \in 1..(Len(q) + 1) : r[i] = x
      BY <1>2 DEF Leased
    <2>2. \A x : x \in Leased(th) <=> \E i \in 1..Len(q) : q[i] = x
      BY <1>2 DEF Leased
    <2>3. ASSUME NEW x \in Leased(th) PROVE x \in Leased(th)'
      BY <1>1, <1>2, <2>1, <2>2, <2>3
    <2>4. ASSUME NEW x \in Leased(th)', x # c PROVE x \in Leased(th)
      BY <1>1, <1>2, <2>1, <2>2, <2>4
    <2>5. c \in Leased(th)'
      BY <2>1, <1>1, <1>2
    <2> QED BY <2>3, <2>4, <2>5
  <1>4. Placed(pc'[th], Len(r))
    BY <1>1 DEF Placed
  <1>5. Pool # "none" => Leased(th)' \subseteq Slots
    BY <1>3 DEF ThreadOK
  <1>6. AtStep(th, "validate")' => Pool # "none"
    BY <1>2, Heads DEF AtStep
  <1>7. Leased(th)' \ {Standalone} = Held(th)'
    BY <1>0, <1>3 DEF ThreadOK
  <1>8. ASSUME NEW i \in DOMAIN r, NEW j \in DOMAIN r, r[i] = r[j]
        PROVE  i = j \/ r[i] = Standalone
    <2>1. ASSUME NEW k \in 2..(Len(q) + 1) PROVE r[k] \in Leased(th) /\ (r[k] = c => c = Standalone)
      BY <1>0, <1>1, <1>2 DEF Leased, Held, ThreadOK
    <2>2. CASE i = 1 \/ j = 1
      BY <1>1, <1>2, <1>8, <2>1, <2>2
    <2>3. CASE i # 1 /\ j # 1
      <3>1. i - 1 \in DOMAIN q /\ j - 1 \in DOMAIN q /\ r[i] = q[i - 1] /\ r[j] = q[j - 1]
        BY <2>3, <1>1, <1>2
      <3>2. i - 1 = j - 1 \/ q[i - 1] = Standalone
        BY <3>1, <1>8 DEF ThreadOK
      <3> QED BY <3>1, <3>2, <1>2
    <2> QED BY <2>2, <2>3
  <1>9. th \notin shaken' => Works(th)'
    <2> SUFFICES ASSUME th \notin shaken, NEW i \in DOMAIN r
                 PROVE  r[i] \in alive \cup {Standalone} \/ (i = 1 /\ AtStep(th, "validate")')
      BY DEF Works
    <2>1. CASE i = 1
      BY <1>1, <1>2, <2>1, Heads DEF AtStep, Busy
    <2>2. CASE i # 1
      BY <1>1, <1>2, <2>2 DEF AtStep, ThreadOK, Works
    <2> QED BY <2>1, <2>2
  <1> QED BY <1>4, <1>5, <1>6, <1>7, <1>8, <1>9 DEF ThreadOK

\* A thread that gives one back, or never got it.
LEMMA PopOK ==
  ASSUME NEW th \in Threads, ThreadOK(th), leases[th] \in Seq(Slots \cup {Standalone}),
         leases[th] # <<>>, leases'[th] = Tail(leases[th]),
         Head(leases[th]) \in Slots => Held(th)' = Held(th) \ {Head(leases[th])},
         Head(leases[th]) = Standalone => Held(th)' = Held(th),
         alive \subseteq alive', Pool' = Pool,
         th \in shaken => th \in shaken' \/ Len(leases[th]) = 1,
         ~AtStep(th, "validate")',
         Placed(pc'[th], Len(leases[th]) - 1)
  PROVE  ThreadOK(th)'
  <1> DEFINE q == leases[th]
             r == leases'[th]
             c == Head(q)
  <1>0. Standalone \notin Slots
    BY DEF Standalone, Slots
  <1>1. /\ r \in Seq(Slots \cup {Standalone}) /\ Len(r) = Len(q) - 1 /\ c = q[1]
        /\ c \in Slots \cup {Standalone}
        /\ \A i \in 1..Len(r) : r[i] = q[i + 1]
    BY HeadTailProperties
  <1>2. DOMAIN q = 1..Len(q) /\ DOMAIN r = 1..(Len(q) - 1) /\ Len(q) \in Nat /\ Len(q) > 0
    BY <1>1
  <1>3. \A i \in DOMAIN r : i + 1 \in DOMAIN q /\ i + 1 # 1 /\ r[i] = q[i + 1]
    BY <1>1, <1>2
  <1>4. \A x : x \in Leased(th)' <=> \E i \in DOMAIN r : r[i] = x
    BY DEF Leased
  <1>5. \A x : x \in Leased(th) <=> \E i \in DOMAIN q : q[i] = x
    BY DEF Leased
  <1>6. Leased(th)' \subseteq Leased(th)
    BY <1>3, <1>4, <1>5
  <1>7. \A x \in Leased(th) : x # c => x \in Leased(th)'
    <2> SUFFICES ASSUME NEW x \in Leased(th), x # c PROVE x \in Leased(th)'
      OBVIOUS
    <2>1. PICK i \in DOMAIN q : q[i] = x
      BY <1>5
    <2>2. i # 1 /\ i - 1 \in DOMAIN r /\ (i - 1) + 1 = i
      BY <2>1, <1>1, <1>2
    <2>3. r[i - 1] = x
      BY <2>1, <2>2, <1>3
    <2> QED BY <2>2, <2>3, <1>4
  <1>8. c \in Slots => c \notin Leased(th)'
    BY <1>0, <1>1, <1>2, <1>3, <1>4 DEF ThreadOK
  <1>9. Leased(th)' \ {Standalone} = Held(th)'
    BY <1>0, <1>1, <1>6, <1>7, <1>8 DEF ThreadOK
  <1>10. \A i, j \in DOMAIN r : r[i] = r[j] => i = j \/ r[i] = Standalone
    BY <1>2, <1>3 DEF ThreadOK
  <1>11. th \notin shaken' => Works(th)'
    <2> SUFFICES ASSUME th \notin shaken', NEW i \in DOMAIN r PROVE r[i] \in alive' \cup {Standalone}
      BY DEF Works
    <2>0. Len(q) # 1
      <3>1. DOMAIN r = 1..(Len(q) - 1) /\ Len(q) \in Nat
        BY <1>2
      <3>2. Len(q) = 1 => DOMAIN r = {}
        BY <3>1
      <3> QED BY <3>2
    <2>1. th \notin shaken
      BY <2>0
    <2>2. q[i + 1] \in alive \cup {Standalone}
      BY <1>3, <2>1 DEF ThreadOK, Works
    <2> QED BY <2>2, <1>3
  <1>12. Placed(pc'[th], Len(r))
    BY <1>1
  <1>13. Pool' # "none" => Leased(th)' \subseteq Slots
    BY <1>6 DEF ThreadOK
  <1> QED BY <1>9, <1>10, <1>11, <1>12, <1>13 DEF ThreadOK

\* A thread that keeps what it has.
LEMMA KeepOK ==
  ASSUME NEW th \in Threads, ThreadOK(th), leases'[th] = leases[th], Held(th)' = Held(th),
         Pool' = Pool, ~AtStep(th, "validate")', Placed(pc'[th], Len(leases[th])),
         th \notin shaken' => \A i \in DOMAIN leases[th] : leases[th][i] \in alive' \cup {Standalone}
  PROVE  ThreadOK(th)'
  BY DEF Leased, ThreadOK, Works

\* What a call's step leaves of the rest.
LEMMA ShutdownUntouched ==
  ASSUME ShutdownOK, NEW th \in Threads, Busy(th), \A o \in Threads : o # th => pc'[o] = pc[o],
         UNCHANGED <<Pool, keep, engine, timedOut>>
  PROVE  ShutdownOK'
  BY PoolAssumption DEF SocketsIdle, SocketThreads, Busy, RestIdle, ShutdownOK

LEMMA MainUntouched ==
  ASSUME MainOK, Held(Main)' = Held(Main), alive \subseteq alive', Main \in shaken => Main \in shaken',
         UNCHANGED keep
  PROVE  MainOK'
  BY DEF MainOK

(***************************************************************************)
(* The steps.  Each thread's step changes its own place, its connections   *)
(* and its slots.                                                          *)
(***************************************************************************)
LEMMA Constants ==
  /\ Standalone \notin Slots /\ Nobody \notin Threads /\ Main \notin Threads /\ Main # Nobody
  /\ RestThreads \subseteq Threads
  BY PoolAssumption DEF Standalone, Slots

LEMMA PlaceNow ==
  ASSUME PoolInv, NEW th \in Threads
  PROVE  /\ Len(leases[th]) \in Nat /\ leases[th] \in Seq(Slots \cup {Standalone})
         /\ ThreadOK(th) /\ Placed(pc[th], Len(leases[th]))
         /\ AtStep(th, "lease") => AtLease(pc[th], Len(leases[th]))
         /\ AtStep(th, "validate") => AtValidate(pc[th], Len(leases[th]))
         /\ AtStep(th, "use") => AtUse(pc[th], Len(leases[th]))
         /\ AtStep(th, "drop") => AtDrop(pc[th], Len(leases[th]))
         /\ AtStep(th, "query") \/ AtStep(th, "load") \/ AtStep(th, "update") => AtEnd(pc[th], Len(leases[th]))
  BY PlaceOfStep DEF PoolInv, PoolTypeOK, ThreadOK, AtStep, Busy

\* What a call's step must show.
LEMMA CallStepInv ==
  ASSUME PoolInv, NEW th \in Threads, Busy(th), PoolTypeOK', ThreadOK(th)',
         NEW x, pc' = [pc EXCEPT ![th] = x],
         \A o \in Threads : o # th => leases'[o] = leases[o] /\ (o \in shaken => o \in shaken'),
         \A o \in (Threads \ {th}) \cup {Main} : Held(o)' = Held(o),
         Main \in shaken => Main \in shaken', alive \subseteq alive',
         UNCHANGED <<Pool, keep, engine, timedOut>>
  PROVE  PoolInv'
  BY OtherThread, PlacedListed, MainUntouched, Constants, ShutdownUntouched DEF PoolInv, ThreadOK

LEMMA LeaseInv ==
  ASSUME PoolInv, NEW th \in Threads, Lease(th)
  PROVE  PoolInv'
  <1>1. PICK s \in Slots : /\ IsFirstFree(s)
                           /\ lent' = [lent EXCEPT ![s] = th]
                           /\ leases' = [leases EXCEPT ![th] = <<s>> \o @]
    BY DEF Lease
  <1>2. lent[s] = Nobody /\ Held(th)' = Held(th) \cup {s} /\ \A o : o \notin {th, Nobody} => Held(o)' = Held(o)
    BY <1>1, Lending, Constants DEF IsFirstFree, Free, PoolInv, PoolTypeOK
  <1>3. leases'[th] = <<s>> \o leases[th] /\ \A o \in Threads : o # th => leases'[o] = leases[o]
    BY <1>1 DEF PoolInv, PoolTypeOK
  <1>4. AtStep(th, "lease") /\ AtLease(pc[th], Len(leases[th])) /\ Len(leases[th]) \in {0, 1}
    BY PlaceNow, NextPlace DEF Lease
  <1>5. pc'[th] = Tail(pc[th]) /\ AtValidate(pc'[th], Len(leases[th]) + 1)
    BY <1>4, PlaceNow, NextPlace DEF Lease, Advance, PoolInv
  <1>6. ThreadOK(th)'
    BY <1>2, <1>3, <1>4, <1>5, PlaceNow, PushOK, Constants DEF Lease
  <1>7. PoolTypeOK'
    <2>1. <<s>> \o leases[th] \in Seq(Slots \cup {Standalone}) /\ Len(<<s>> \o leases[th]) <= 2
      BY <1>4, PlaceNow, Pushing
    <2>2. leases' \in [Threads -> Seq(Slots \cup {Standalone})] /\ \A o \in Threads : Len(leases'[o]) <= 2
      BY <1>1, <1>3, <2>1 DEF PoolInv, PoolTypeOK
    <2>3. lent' \in [Slots -> Threads \cup {Main, Nobody}]
      BY <1>1 DEF PoolInv, PoolTypeOK
    <2> QED BY <2>2, <2>3 DEF PoolInv, PoolTypeOK, Lease
  <1> QED BY <1>2, <1>3, <1>4, <1>6, <1>7, CallStepInv, Constants DEF Lease, Advance, AtStep

LEMMA LeaveIsAfter ==
  ASSUME NEW th \in Threads, PoolInv, Leave(th, "drop")
  PROVE  pc' = [pc EXCEPT ![th] = After(pc[th], "drop")]
  BY DEF Leave, After, Op, PoolInv

\* A thread that gets no connection: rest is what it has left.
LEMMA NotConnectedPlace ==
  ASSUME PoolInv, NEW th \in Threads, NEW rest, NEW n \in Nat, NotConnected(th, rest),
         \/ AtStep(th, "lease") /\ rest = leases[th] /\ n = Len(leases[th])
         \/ AtStep(th, "validate") /\ rest = Tail(leases[th]) /\ n = Len(leases[th]) - 1
  PROVE  /\ \E x : pc' = [pc EXCEPT ![th] = x]
         /\ Placed(pc'[th], n)
         /\ ~AtStep(th, "validate")'
  <1> DEFINE p == pc[th]
             m == Len(leases[th])
  <1>1. rest = <<>> <=> n = 0
    <2>1. CASE AtStep(th, "lease") /\ rest = leases[th] /\ n = Len(leases[th])
      BY <2>1, PlaceNow
    <2>2. CASE AtStep(th, "validate") /\ rest = Tail(leases[th]) /\ n = Len(leases[th]) - 1
      <3>1. leases[th] # <<>> /\ leases[th] \in Seq(Slots \cup {Standalone})
        BY <2>2, PlaceNow, NextPlace
      <3>2. rest \in Seq(Slots \cup {Standalone}) /\ Len(rest) = n
        BY <2>2, <3>1, HeadTailProperties
      <3> QED BY <3>2
    <2> QED BY <2>1, <2>2
  <1>2. CASE n = 0
    <2>1. pc' = [pc EXCEPT ![th] = <<p[Len(p)]>>]
      BY <1>1, <1>2 DEF NotConnected, Return, Op
    <2>2. pc'[th] = <<p[Len(p)]>>
      BY <2>1 DEF PoolInv
    <2>3. AtEnd(<<p[Len(p)]>>, 0)
      BY <1>2, PlaceNow, PlaceWithoutConnection, NextPlace
    <2>4. AtEnd(pc'[th], 0) /\ Head(pc'[th]) # "validate"
      BY <2>2, <2>3, Heads
    <2> QED BY <1>2, <2>1, <2>4 DEF Placed, AtStep
  <1>3. CASE n # 0
    <2>1. pc' = [pc EXCEPT ![th] = After(p, "drop")]
      BY <1>1, <1>3, LeaveIsAfter DEF NotConnected
    <2>2. pc'[th] = After(p, "drop")
      BY <2>1 DEF PoolInv
    <2>3. AtLease(After(p, "drop"), n) \/ AtDrop(After(p, "drop"), n)
      <3>1. CASE AtStep(th, "lease") /\ n = m
        BY <1>3, <3>1, PlaceNow, PlaceWithoutConnection
      <3>2. CASE AtStep(th, "validate") /\ n = m - 1
        <4>1. AtValidate(p, m) /\ m \in Nat /\ m # 1
          BY <1>3, <3>2, PlaceNow
        <4> QED BY <3>2, <4>1, PlaceWithoutConnection
      <3> QED BY <3>1, <3>2
    <2>4. (AtLease(pc'[th], n) \/ AtDrop(pc'[th], n)) /\ Head(pc'[th]) # "validate"
      BY <2>2, <2>3, Heads
    <2> QED BY <2>1, <2>4 DEF Placed, AtStep
  <1> QED BY <1>2, <1>3

LEMMA ConnectAloneInv ==
  ASSUME PoolInv, NEW th \in Threads, ConnectAlone(th)
  PROVE  PoolInv'
  <1>1. AtStep(th, "lease") /\ Busy(th) /\ AtLease(pc[th], Len(leases[th])) /\ Len(leases[th]) \in {0, 1}
    BY PlaceNow, NextPlace DEF ConnectAlone, AtStep
  <1>2. \A o : Held(o)' = Held(o)
    BY NotLending DEF ConnectAlone
  <1>3. CASE up
    <2>1. leases' = [leases EXCEPT ![th] = <<Standalone>> \o @] /\ pc' = [pc EXCEPT ![th] = Tail(Tail(@))]
      BY <1>3 DEF ConnectAlone
    <2>2. leases'[th] = <<Standalone>> \o leases[th] /\ \A o \in Threads : o # th => leases'[o] = leases[o]
      BY <2>1 DEF PoolInv, PoolTypeOK
    <2>3. AtUse(pc'[th], Len(leases[th]) + 1)
      <3>1. AtValidate(Tail(pc[th]), Len(leases[th]) + 1)
        BY <1>1, PlaceNow, NextPlace
      <3>2. Len(leases[th]) + 1 \in Nat
        BY PlaceNow
      <3>3. AtUse(Tail(Tail(pc[th])), Len(leases[th]) + 1)
        BY <3>1, <3>2, NextPlace
      <3> QED BY <2>1, <3>3 DEF PoolInv
    <2>4. ThreadOK(th)'
      BY <1>1, <1>2, <2>2, <2>3, PlaceNow, PushOK, Constants DEF ConnectAlone
    <2>5. PoolTypeOK'
      <3>1. /\ <<Standalone>> \o leases[th] \in Seq(Slots \cup {Standalone})
            /\ Len(<<Standalone>> \o leases[th]) <= 2
        BY <1>1, PlaceNow, Pushing
      <3>2. leases' \in [Threads -> Seq(Slots \cup {Standalone})] /\ \A o \in Threads : Len(leases'[o]) <= 2
        BY <2>1, <2>2, <3>1 DEF PoolInv, PoolTypeOK
      <3> QED BY <3>2 DEF PoolInv, PoolTypeOK, ConnectAlone
    <2> QED BY <1>1, <1>2, <2>1, <2>2, <2>4, <2>5, CallStepInv DEF ConnectAlone
  <1>4. CASE ~up
    <2>1. NotConnected(th, leases[th]) /\ UNCHANGED leases
      BY <1>4 DEF ConnectAlone
    <2>2. (\E x : pc' = [pc EXCEPT ![th] = x]) /\ Placed(pc'[th], Len(leases[th])) /\ ~AtStep(th, "validate")'
      BY <1>1, <2>1, PlaceNow, NotConnectedPlace
    <2>3. ~AtStep(th, "validate")
      BY <1>1 DEF AtStep
    <2>4. ThreadOK(th)'
      BY <1>2, <2>1, <2>2, <2>3, PlaceNow, KeepOK DEF ConnectAlone, ThreadOK, Works
    <2>5. PoolTypeOK'
      BY <2>1 DEF PoolInv, PoolTypeOK, ConnectAlone
    <2> QED BY <1>1, <1>2, <2>1, <2>2, <2>4, <2>5, CallStepInv DEF ConnectAlone
  <1> QED BY <1>3, <1>4

\* A connection that is given back.
LEMMA GiveBackOne ==
  ASSUME PoolInv, NEW th \in Threads, leases[th] # <<>>,
         lent' = IF Head(leases[th]) = Standalone THEN lent
                                                  ELSE [lent EXCEPT ![Head(leases[th])] = Nobody]
  PROVE  /\ Head(leases[th]) \in Slots \cup {Standalone}
         /\ Head(leases[th]) \in Slots => Held(th)' = Held(th) \ {Head(leases[th])}
         /\ Head(leases[th]) = Standalone => Held(th)' = Held(th)
         /\ \A o \in (Threads \ {th}) \cup {Main} : Held(o)' = Held(o)
         /\ lent' \in [Slots -> Threads \cup {Main, Nobody}]
  <1> DEFINE c == Head(leases[th])
  <1>1. leases[th] \in Seq(Slots \cup {Standalone}) /\ lent \in [Slots -> Threads \cup {Main, Nobody}]
    BY DEF PoolInv, PoolTypeOK
  <1>2. c \in Slots \cup {Standalone} /\ 1 \in DOMAIN leases[th] /\ c = leases[th][1]
    BY <1>1, HeadTailProperties
  <1>3. c \in Leased(th)
    BY <1>2 DEF Leased
  <1>4. CASE c \in Slots
    BY <1>1, <1>3, <1>4, Constants, GivingBack DEF PoolInv, ThreadOK, Held
  <1>5. CASE c = Standalone
    BY <1>1, <1>5, NotLending, Constants
  <1> QED BY <1>2, <1>4, <1>5

LEMMA TailLeases ==
  ASSUME PoolInv, NEW th \in Threads, leases[th] # <<>>, leases' = [leases EXCEPT ![th] = Tail(@)]
  PROVE  /\ leases'[th] = Tail(leases[th]) /\ \A o \in Threads : o # th => leases'[o] = leases[o]
         /\ leases' \in [Threads -> Seq(Slots \cup {Standalone})]
         /\ \A o \in Threads : Len(leases'[o]) <= 2
  BY HeadTailProperties DEF PoolInv, PoolTypeOK

LEMMA ValidateInv ==
  ASSUME PoolInv, NEW th \in Threads, ValidateConnection(th)
  PROVE  PoolInv'
  <1> DEFINE q == leases[th]
             s == Head(q)
             n == Len(q)
  <1>1. AtStep(th, "validate") /\ Busy(th) /\ AtValidate(pc[th], n) /\ n \in {1, 2}
    BY PlaceNow, NextPlace DEF ValidateConnection, AtStep
  <1>0. n \in {1, 2}
    BY <1>1
  <1>2. q \in Seq(Slots \cup {Standalone}) /\ q # <<>> /\ 1 \in DOMAIN q /\ s = q[1] /\ n \in Nat
    <2>1. q \in Seq(Slots \cup {Standalone})
      BY PlaceNow
    <2> QED BY <1>0, <2>1
  <1>3. s \in Slots
    BY <1>1, <1>2, PlaceNow DEF ThreadOK, Leased
  <1>4. /\ alive' = IF up THEN alive \cup {s} ELSE alive
        /\ shaken' = IF n = 1 THEN shaken \ {th} ELSE shaken
        /\ UNCHANGED <<Pool, up, keep, engine, timedOut, crashes, calls>>
    BY DEF ValidateConnection
  <1>5. /\ \A o \in Threads : o # th => (o \in shaken => o \in shaken')
        /\ Main \in shaken => Main \in shaken'
        /\ alive \subseteq alive' /\ alive' \subseteq Slots /\ shaken' \subseteq Threads \cup {Main}
    BY <1>3, <1>4, Constants DEF PoolInv, PoolTypeOK
  <1>6. th \in shaken => th \in shaken' \/ n = 1
    BY <1>4
  <1>7. CASE s \in alive \/ up
    <2>1. pc' = [pc EXCEPT ![th] = Tail(pc[th])] /\ UNCHANGED <<lent, leases>>
      BY <1>7 DEF ValidateConnection, Advance
    <2>2. pc'[th] = Tail(pc[th]) /\ AtUse(pc'[th], n)
      BY <2>1, <1>1, <1>2, NextPlace DEF PoolInv
    <2>3. ~AtStep(th, "validate")' /\ Placed(pc'[th], n)
      BY <2>2, <1>2, Heads DEF AtStep, Placed
    <2>4. \A o : Held(o)' = Held(o)
      BY <2>1, NotLending
    <2>5. th \notin shaken' => \A i \in DOMAIN q : q[i] \in alive' \cup {Standalone}
      BY <1>2, <1>4, <1>5, <1>6, <1>7, PlaceNow DEF ThreadOK, Works
    <2>6. ThreadOK(th)'
      BY <2>1, <2>3, <2>4, <2>5, <1>4, PlaceNow, KeepOK
    <2>7. PoolTypeOK'
      BY <2>1, <1>4, <1>5 DEF PoolInv, PoolTypeOK
    <2> QED BY <1>1, <1>4, <1>5, <2>1, <2>4, <2>6, <2>7, CallStepInv
  <1>8. CASE ~(s \in alive \/ up)
    <2>1. /\ lent' = [lent EXCEPT ![s] = Nobody]
          /\ leases' = [leases EXCEPT ![th] = Tail(@)]
          /\ NotConnected(th, Tail(q))
      BY <1>8 DEF ValidateConnection
    <2>2. n - 1 \in Nat
      BY <1>1
    <2>3. (\E x : pc' = [pc EXCEPT ![th] = x]) /\ Placed(pc'[th], n - 1) /\ ~AtStep(th, "validate")'
      BY <1>1, <2>1, <2>2, NotConnectedPlace
    <2>4. /\ leases'[th] = Tail(q) /\ (\A o \in Threads : o # th => leases'[o] = leases[o])
          /\ leases' \in [Threads -> Seq(Slots \cup {Standalone})]
          /\ \A o \in Threads : Len(leases'[o]) <= 2
      BY <1>2, <2>1, TailLeases
    <2>5. /\ s \in Slots => Held(th)' = Held(th) \ {s}
          /\ \A o \in (Threads \ {th}) \cup {Main} : Held(o)' = Held(o)
          /\ lent' \in [Slots -> Threads \cup {Main, Nobody}]
      BY <1>2, <1>3, <2>1, GiveBackOne, Constants
    <2>6. ThreadOK(th)'
      BY <1>2, <1>3, <1>4, <1>5, <1>6, <2>3, <2>4, <2>5, PlaceNow, PopOK, Constants
    <2>7. PoolTypeOK'
      BY <2>4, <2>5, <1>4, <1>5 DEF PoolInv, PoolTypeOK
    <2> QED BY <1>1, <1>4, <1>5, <2>3, <2>4, <2>5, <2>6, <2>7, CallStepInv
  <1> QED BY <1>7, <1>8

LEMMA UseInv ==
  ASSUME PoolInv, NEW th \in Threads, Use(th)
  PROVE  PoolInv'
  <1> DEFINE n == Len(leases[th])
  <1>1. AtStep(th, "use") /\ Busy(th) /\ AtUse(pc[th], n) /\ ~AtStep(th, "validate") /\ n \in Nat
    BY PlaceNow DEF Use, AtStep
  <1>2. UNCHANGED poolVars /\ \A o : Held(o)' = Held(o)
    BY NotLending DEF Use, poolVars
  <1>3. (\E x : pc' = [pc EXCEPT ![th] = x]) /\ (AtLease(pc'[th], n) \/ AtDrop(pc'[th], n))
    <2>1. CASE Advance(th)
      BY <1>1, <2>1, NextPlace DEF Advance, PoolInv
    <2>2. CASE Len(leases[th]) = 1 /\ pc' = [pc EXCEPT ![th] = <<"drop", Op(th)>>]
      BY <1>1, <2>2, PlaceAfterThrow DEF PoolInv, Op
    <2> QED BY <2>1, <2>2 DEF Use
  <1>4. Placed(pc'[th], n) /\ ~AtStep(th, "validate")'
    BY <1>1, <1>3, Heads DEF Placed, AtStep
  <1>5. ThreadOK(th)'
    BY <1>1, <1>2, <1>4, PlaceNow, KeepOK DEF poolVars, ThreadOK, Works
  <1>6. PoolTypeOK'
    BY <1>2 DEF PoolInv, PoolTypeOK, poolVars
  <1> QED BY <1>1, <1>2, <1>3, <1>5, <1>6, CallStepInv DEF poolVars

\* A sequence of one or two elements is not the empty one.
LEMMA HoldsSome ==
  ASSUME NEW S, NEW q \in Seq(S), Len(q) \in {1, 2}
  PROVE  q # <<>>
  OBVIOUS

LEMMA DropInv ==
  ASSUME PoolInv, NEW th \in Threads, Drop(th)
  PROVE  PoolInv'
  <1> DEFINE q == leases[th]
             n == Len(q)
  <1>1. AtStep(th, "drop") /\ Busy(th) /\ AtDrop(pc[th], n) /\ n \in {1, 2} /\ n \in Nat
    BY PlaceNow, NextPlace DEF Drop, AtStep
  <1>0. n \in {1, 2}
    BY <1>1
  <1>2. q \in Seq(Slots \cup {Standalone}) /\ q # <<>>
    BY <1>0, PlaceNow, HoldsSome
  <1>3. UNCHANGED <<Pool, alive, up, keep, engine, timedOut, shaken, crashes, calls>>
    BY DEF Drop
  <1>4. pc' = [pc EXCEPT ![th] = Tail(pc[th])] /\ pc'[th] = Tail(pc[th])
    BY DEF Drop, Advance, PoolInv
  <1>5. n - 1 \in Nat
    BY <1>0
  <1>6. AtLease(pc'[th], n - 1) \/ AtDrop(pc'[th], n - 1) \/ AtEnd(pc'[th], n - 1)
    BY <1>1, <1>4, NextPlace
  <1>7. Placed(pc'[th], n - 1) /\ ~AtStep(th, "validate")'
    BY <1>5, <1>6, Heads DEF Placed, AtStep
  <1>8. /\ leases'[th] = Tail(q) /\ (\A o \in Threads : o # th => leases'[o] = leases[o])
        /\ leases' \in [Threads -> Seq(Slots \cup {Standalone})]
        /\ \A o \in Threads : Len(leases'[o]) <= 2
    BY <1>2, TailLeases DEF Drop
  <1>9. /\ Head(q) \in Slots \cup {Standalone}
        /\ Head(q) \in Slots => Held(th)' = Held(th) \ {Head(q)}
        /\ Head(q) = Standalone => Held(th)' = Held(th)
        /\ \A o \in (Threads \ {th}) \cup {Main} : Held(o)' = Held(o)
        /\ lent' \in [Slots -> Threads \cup {Main, Nobody}]
    BY <1>2, GiveBackOne DEF Drop
  <1>10. ThreadOK(th)'
    BY <1>2, <1>3, <1>7, <1>8, <1>9, PlaceNow, PopOK
  <1>11. PoolTypeOK'
    BY <1>3, <1>8, <1>9 DEF PoolInv, PoolTypeOK
  <1> QED BY <1>1, <1>3, <1>4, <1>8, <1>9, <1>10, <1>11, CallStepInv

LEMMA BeginCallInv ==
  ASSUME PoolInv, NEW th \in Threads,
         SomeCall(th)
  PROVE  PoolInv'
  <1> DEFINE n == Len(leases[th])
  <1>1. /\ MayCall(th) /\ pc[th] = <<>> /\ calls' = calls + 1 /\ calls < MaxCalls
        /\ UNCHANGED <<Pool, lent, alive, leases, up, keep, engine, timedOut, shaken, crashes>>
        /\ pc' = [pc EXCEPT ![th] = Q1] \/ pc' = [pc EXCEPT ![th] = L1] \/ pc' = [pc EXCEPT ![th] = U1]
    BY QueryBegins, LoadBegins, UpdateBegins DEF SomeCall, BeginCall, Enter, Busy
  <1>2. (pc'[th] = Q1 \/ pc'[th] = L1 \/ pc'[th] = U1) /\ \A o \in Threads : o # th => pc'[o] = pc[o]
    BY <1>1 DEF PoolInv
  <1>3. pc' \in [Threads -> Lists]
    BY <1>1 DEF PoolInv, Lists
  <1>4. n = 0 /\ leases[th] = <<>>
    BY <1>1, PlaceNow, Heads DEF Placed, IdleNow
  <1>5. \A o : Held(o)' = Held(o)
    BY <1>1, NotLending
  <1>6. \A o \in Threads : ThreadOK(o)'
    <2> TAKE o \in Threads
    <2>1. CASE o # th
      BY <2>1, <1>1, <1>2, <1>5, OtherThread DEF PoolInv
    <2>2. CASE o = th
      <3>1. AtLease(pc'[th], n)
        BY <1>2, <1>4 DEF AtLease
      <3>2. Placed(pc'[th], n) /\ ~AtStep(th, "validate")'
        BY <3>1, <1>4, Heads DEF Placed, AtStep
      <3>3. \A i \in DOMAIN leases[th] : leases[th][i] \in alive' \cup {Standalone}
        BY <1>4
      <3> QED BY <2>2, <3>2, <3>3, <1>1, <1>5, PlaceNow, KeepOK
    <2> QED BY <2>1, <2>2
  <1>7. MainOK'
    BY <1>1, <1>5, MainUntouched DEF PoolInv
  <1>8. ShutdownOK'
    BY <1>1, <1>2, Constants DEF MayCall, RestIdle, Busy, SocketThreads, PoolInv, ShutdownOK
  <1>9. PoolTypeOK'
    BY <1>1, PoolAssumption DEF PoolInv, PoolTypeOK
  <1> QED BY <1>3, <1>6, <1>7, <1>8, <1>9 DEF PoolInv

LEMMA EndCallInv ==
  ASSUME PoolInv, NEW th \in Threads, EndCall(th)
  PROVE  PoolInv'
  <1> DEFINE n == Len(leases[th])
  <1>1. Busy(th) /\ AtEnd(pc[th], n)
    BY PlaceNow DEF EndCall, AtStep
  <1>2. n = 0 /\ leases[th] = <<>>
    BY <1>1, PlaceNow DEF AtEnd
  <1>3. pc' = [pc EXCEPT ![th] = <<>>] /\ pc'[th] = <<>> /\ \A o \in Threads : o # th => pc'[o] = pc[o]
    BY DEF EndCall, Finish, PoolInv
  <1>4. pc' \in [Threads -> Lists]
    BY <1>3 DEF PoolInv, Lists
  <1>5. /\ UNCHANGED <<Pool, lent, alive, leases, up, keep, engine, timedOut, crashes, calls>>
        /\ shaken' = shaken \ {th}
    BY DEF EndCall
  <1>6. \A o : Held(o)' = Held(o)
    BY <1>5, NotLending
  <1>7. \A o \in Threads : ThreadOK(o)'
    BY <1>2, <1>3, <1>5, <1>6, OtherThread, PlaceNow, KeepOK DEF PoolInv, Placed, IdleNow, AtStep,
       Busy
  <1>8. MainOK'
    BY <1>5, <1>6, MainUntouched, Constants DEF PoolInv
  <1>9. ShutdownOK'
    BY <1>1, <1>3, <1>5, ShutdownUntouched DEF PoolInv
  <1>10. PoolTypeOK'
    BY <1>5 DEF PoolInv, PoolTypeOK
  <1> QED BY <1>4, <1>7, <1>8, <1>9, <1>10 DEF PoolInv

(***************************************************************************)
(* Maintenance, the shutdown and the database.                             *)
(***************************************************************************)
\* A step that is no call's.
LEMMA QuietCalls ==
  ASSUME PoolInv, UNCHANGED <<pc, leases, Pool>>, alive \subseteq alive',
         \A o \in Threads : o \in shaken => o \in shaken',
         \A o \in Threads : Held(o)' = Held(o)
  PROVE  pc' \in [Threads -> Lists] /\ \A o \in Threads : ThreadOK(o)'
  BY OtherThread DEF PoolInv

LEMMA KeepPoolAliveInv ==
  ASSUME PoolInv, KeepPoolAlive
  PROVE  PoolInv'
  <1>0. /\ lent \in [Slots -> Threads \cup {Main, Nobody}] /\ alive \subseteq Slots
        /\ keep \in [phase : {"idle", "collect", "check"}, left : SUBSET Slots] /\ shaken \subseteq Threads \cup {Main}
        /\ Held(Main) \subseteq Slots
    BY DEF PoolInv, PoolTypeOK, Held
  <1>1. CASE Collect
    BY <1>0, <1>1, NotLending, QuietCalls, Constants DEF Collect, MainOK, ShutdownOK, PoolInv,
       SocketsIdle, RestIdle, SocketThreads, Busy, PoolTypeOK
  <1>2. CASE TryLease
    <2>1. /\ keep.phase = "collect"
          /\ UNCHANGED <<Pool, alive, leases, up, engine, timedOut, shaken, crashes, calls, pc>>
      BY <1>2 DEF TryLease
    <2>2. engine = "running"
      BY <2>1 DEF PoolInv, ShutdownOK, PoolTypeOK
    <2>3. CASE Free # {}
      <3>1. PICK s \in Slots : IsFirstFree(s) /\ lent' = [lent EXCEPT ![s] = Main] /\ UNCHANGED keep
        BY <1>2, <2>3 DEF TryLease
      <3>2. \A o : o \notin {Main, Nobody} => Held(o)' = Held(o)
        BY <3>1, <1>0, Lending, Constants DEF IsFirstFree, Free
      <3>3. pc' \in [Threads -> Lists] /\ \A o \in Threads : ThreadOK(o)'
        BY <2>1, <3>2, QuietCalls, Constants
      <3>4. MainOK' /\ ShutdownOK'
        BY <2>1, <2>2, <3>1 DEF MainOK, ShutdownOK, PoolInv
      <3>5. PoolTypeOK'
        BY <2>1, <3>1 DEF PoolInv, PoolTypeOK
      <3> QED BY <3>3, <3>4, <3>5 DEF PoolInv
    <2>4. CASE Free = {}
      BY <1>0, <1>2, <2>1, <2>2, <2>4, NotLending, QuietCalls DEF TryLease, MainOK, ShutdownOK,
         PoolInv, PoolTypeOK
    <2> QED BY <2>3, <2>4
  <1>3. ASSUME NEW s \in Slots, CheckSlot(s) PROVE PoolInv'
    BY <1>0, <1>3, NotLending, QuietCalls DEF CheckSlot, PoolInv, ShutdownOK, PoolTypeOK, MainOK
  <1>4. CASE GiveBack
    <2>1. /\ keep.phase = "check" /\ keep.left = {}
          /\ UNCHANGED <<Pool, alive, leases, up, engine, timedOut, shaken, crashes, calls, pc>>
      BY <1>4 DEF GiveBack
    <2>2. engine = "running"
      BY <2>1 DEF PoolInv, ShutdownOK, PoolTypeOK
    <2>3. CASE Held(Main) = {}
      BY <1>4, <2>1, <2>2, <2>3, NotLending, QuietCalls DEF GiveBack, MainOK, ShutdownOK, PoolInv,
         NoMaintenance, PoolTypeOK
    <2>4. CASE Held(Main) # {}
      <3>1. PICK s \in Held(Main) : lent' = [lent EXCEPT ![s] = Nobody] /\ UNCHANGED keep
        BY <1>4, <2>4 DEF GiveBack
      <3>2. s \in Slots /\ lent[s] = Main
        BY <3>1 DEF Held
      <3>3. Held(Main)' = Held(Main) \ {s} /\ \A o : o \notin {Main, Nobody} => Held(o)' = Held(o)
        BY <3>1, <3>2, <1>0, GivingBack, Constants
      <3>4. pc' \in [Threads -> Lists] /\ \A o \in Threads : ThreadOK(o)'
        BY <2>1, <3>3, QuietCalls, Constants
      <3>5. MainOK' /\ ShutdownOK'
        BY <2>1, <2>2, <3>1, <3>3 DEF MainOK, ShutdownOK, PoolInv
      <3>6. PoolTypeOK'
        BY <2>1, <3>1 DEF PoolInv, PoolTypeOK
      <3> QED BY <3>4, <3>5, <3>6 DEF PoolInv
    <2> QED BY <2>3, <2>4
  <1> QED BY <1>1, <1>2, <1>3, <1>4 DEF KeepPoolAlive

LEMMA PreExitInv ==
  ASSUME PoolInv, PreExit
  PROVE  PoolInv'
  <1>1. UNCHANGED <<lent, alive, leases, up, keep, shaken, crashes, calls, pc>>
    BY DEF PreExit, StopRest, RestStopped, SocketsStopped, ShutdownPool
  <1>2. Pool' = Pool \/ (engine = "joined" /\ Pool = "open" /\ Pool' = "released" /\ UNCHANGED <<engine, timedOut>>)
    BY DEF PreExit, StopRest, RestStopped, SocketsStopped, ShutdownPool
  <1>3. \A o : Held(o)' = Held(o)
    BY <1>1, NotLending
  <1>4. \A o \in Threads : ThreadOK(o)'
    BY <1>1, <1>2, <1>3 DEF PoolInv, ThreadOK, Works, Leased, AtStep, Busy
  <1>5. pc' \in [Threads -> Lists] /\ MainOK'
    BY <1>1, <1>3 DEF PoolInv, MainOK
  <1>6. (SocketsIdle' <=> SocketsIdle) /\ (RestIdle' <=> RestIdle)
    BY <1>1 DEF SocketsIdle, RestIdle, Busy, SocketThreads
  <1>7. ShutdownOK' /\ PoolTypeOK'
    BY <1>1, <1>6 DEF PoolInv, ShutdownOK, PoolTypeOK, StopRest, RestStopped, SocketsStopped,
       ShutdownPool, PreExit
  <1> QED BY <1>4, <1>5, <1>7 DEF PoolInv

LEMMA DataBaseInv ==
  ASSUME PoolInv, Crash \/ Restart
  PROVE  PoolInv'
  <1>1. UNCHANGED <<Pool, lent, leases, keep, engine, timedOut, calls, pc>>
    BY DEF Crash, Restart
  <1>2. \A o : Held(o)' = Held(o)
    BY <1>1, NotLending
  <1>3. ShutdownOK'
    BY <1>1 DEF PoolInv, ShutdownOK, SocketsIdle, RestIdle, Busy, SocketThreads
  <1>4. pc' \in [Threads -> Lists]
    BY <1>1 DEF PoolInv
  <1>5. CASE Crash
    BY <1>1, <1>2, <1>3, <1>4, <1>5, Constants, PoolAssumption DEF Crash, PoolInv, Works, ThreadOK,
       Leased, AtStep, Busy, MainOK, PoolTypeOK
  <1>6. CASE Restart
    BY <1>1, <1>2, <1>3, <1>4, <1>6, OtherThread DEF Restart, PoolInv, MainOK, PoolTypeOK
  <1> QED BY <1>5, <1>6

LEMMA NextInv == PoolInv /\ [PoolNext]_<<pc, poolVars>> => PoolInv'
  <1> SUFFICES ASSUME PoolInv, [PoolNext]_<<pc, poolVars>> PROVE PoolInv'
    OBVIOUS
  <1>1. ASSUME NEW th \in Threads, CallStep(th) PROVE PoolInv'
    BY <1>1, LeaseInv, ConnectAloneInv, ValidateInv, UseInv, DropInv, EndCallInv DEF CallStep
  <1>2. CASE UNCHANGED <<pc, poolVars>>
    BY <1>2, NotLending, OtherThread DEF poolVars, PoolInv, MainOK, ShutdownOK, PoolTypeOK,
       SocketsIdle, RestIdle, Busy, SocketThreads
  <1> QED BY <1>1, <1>2, BeginCallInv, KeepPoolAliveInv, PreExitInv, DataBaseInv DEF PoolNext

\* What holds the pool together.
LEMMA PoolInvariant == PoolSpec => []PoolInv
  BY InitInv, NextInv, PTL DEF PoolSpec

\* However calls lease, validate, reopen and give back connections, one within another, and
\* however the maintenance and crashes of the database come between, a slot is lent to exactly
\* who has it, once, and a connection that was validated works until the database crashes
\* (DataBaseConnect.cpp).
THEOREM PoolStaysConsistent == PoolSpec => []PoolConsistent
  <1>1. PoolInv => PoolConsistent
    BY InvShows
  <1> QED BY <1>1, PoolInvariant, PTL

\* PreExit releases the pool when no socket loop is in a call, and no REST thread unless the
\* wait for it timed out; then no slot is lent (ProjectEngine.cpp:396-416).
THEOREM PoolReleasedWhenDone == PoolSpec => []ReleasedWhenDone
  <1>1. PoolInv => ReleasedWhenDone
    BY InvShows
  <1> QED BY <1>1, PoolInvariant, PTL

(***************************************************************************)
(* PRESENCE.                                                               *)
(***************************************************************************)
(***************************************************************************)
(* The handlers of the socket loops: what a loop has still to do, the      *)
(* number of the step it is at, and the kind of its handler.               *)
(***************************************************************************)
PresenceSteps == {"addSocket", "removeSocket", "lookUp", "emplace", "setSocketId", "setUserStatus", "lookUpFriends",
                  "emplaceFriends", "tell", "defer", "open", "close"}

O1 == <<"addSocket", "lookUp", "emplace", "setSocketId", "setUserStatus", "lookUpFriends", "emplaceFriends", "tell", "open">>
O2 == <<"lookUp", "emplace", "setSocketId", "setUserStatus", "lookUpFriends", "emplaceFriends", "tell", "open">>
O3 == <<"emplace", "setSocketId", "setUserStatus", "lookUpFriends", "emplaceFriends", "tell", "open">>
O4 == <<"setSocketId", "setUserStatus", "lookUpFriends", "emplaceFriends", "tell", "open">>
O5 == <<"setUserStatus", "lookUpFriends", "emplaceFriends", "tell", "open">>
O6 == <<"lookUpFriends", "emplaceFriends", "tell", "open">>
O7 == <<"emplaceFriends", "tell", "open">>
O8 == <<"tell", "open">>
O9 == <<"defer", "tell", "open">>
C1 == <<"removeSocket", "lookUp", "emplace", "setSocketId", "setUserStatus", "lookUpFriends", "emplaceFriends", "tell", "close">>
C2 == <<"lookUp", "emplace", "setSocketId", "setUserStatus", "lookUpFriends", "emplaceFriends", "tell", "close">>
C3 == <<"emplace", "setSocketId", "setUserStatus", "lookUpFriends", "emplaceFriends", "tell", "close">>
C4 == <<"setSocketId", "setUserStatus", "lookUpFriends", "emplaceFriends", "tell", "close">>
C5 == <<"setUserStatus", "lookUpFriends", "emplaceFriends", "tell", "close">>
C6 == <<"lookUpFriends", "emplaceFriends", "tell", "close">>
C7 == <<"emplaceFriends", "tell", "close">>
C8 == <<"tell", "close">>
C9 == <<"defer", "tell", "close">>

OpenPlaces == {O1, O2, O3, O4, O5, O6, O7, O8, O9}
ClosePlaces == {C1, C2, C3, C4, C5, C6, C7, C8, C9}
HandlerPlaces == {<<>>} \cup OpenPlaces \cup ClosePlaces

Number == [addSocket |-> 1, removeSocket |-> 1, lookUp |-> 2, emplace |-> 3, setSocketId |-> 4, setUserStatus |-> 5,
           lookUpFriends |-> 6, emplaceFriends |-> 7, tell |-> 8, defer |-> 9]

Rank(p) == IF p = <<>> THEN 0 ELSE Number[Head(p)]
Kind(p) == IF p = <<>> THEN "none" ELSE p[Len(p)]

\* The step that loop l is at, and the kind of its handler.
At(l) == Rank(pc[l])
Opening(l) == Kind(pc[l]) = "open"
Closing(l) == Kind(pc[l]) = "close"

(***************************************************************************)
(* The invariant.                                                          *)
(***************************************************************************)
Serves(l, u) == At(l) # 0 /\ User(l) = u
On(d, u) == d \in DOMAIN owner /\ owner[d] = u /\ conn[d] # NoSocket

Notices == [to : Connections, about : {<<u>> : u \in Users}, status : Statuses]
Closings == [to : Connections, about : {NoConnection}, status : {"close"}]
Aims == {<<>>} \cup (Loops \X Users)
Listings == {"unknown", "friends", "nobody"}
Handlers == [connection : 0..MaxConnections, status : Statuses, mine : BOOLEAN, missing : SUBSET Users,
             left : SUBSET Users, aim : Aims]

PresenceTypes ==
    /\ owner \in Seq(Users) /\ Len(owner) <= MaxConnections
    /\ accepted \in [Connections -> Loops \cup {NoSocket}]
    /\ conn \in [Connections -> Loops \cup {NoSocket}]
    /\ UserIdToWebSocketPtrMap \in [Loops -> [Users -> 0..MaxConnections]]
    /\ objects \in [Users -> Objects]
    /\ listed \in [Users -> Listings]
    /\ tasks \in [Loops -> Seq(Notices \cup Closings)]
    /\ listening \subseteq Loops /\ ended \subseteq Loops \ listening
    /\ handler \in [Loops -> Handlers]
    /\ stop \in [phase : {"running", "listener", "copy", "close", "join", "stopped"}, loop : Loops, left : SUBSET Users]
    /\ told \in [Connections -> [Users -> Statuses \cup {Unknown}]]
    /\ owed \subseteq Connections \X Users
    /\ overlapped \subseteq Users /\ torn \subseteq Users /\ unheard \subseteq Users
    /\ late \subseteq Connections
    /\ pc \in [Threads -> HandlerPlaces]

\* What is open or about to be, and where the maps lead.
SocketsOK ==
    /\ \A d \in Connections : conn[d] # NoSocket \/ accepted[d] # NoSocket => d \in DOMAIN owner
    /\ \A d \in Connections : conn[d] = NoSocket \/ accepted[d] = NoSocket
    /\ \A d \in Connections : conn[d] \notin ended /\ accepted[d] \notin ended
    /\ \A l \in Loops, u \in Users : Entry(l, u) # NoConnection => Entry(l, u) \in DOMAIN owner /\ owner[Entry(l, u)] = u

TaskOK(task) == task.to \in DOMAIN owner /\ (task.status = "close" \/ task.about[1] # owner[task.to])
TasksOK == \A l \in Loops : \A i \in DOMAIN tasks[l] : TaskOK(tasks[l][i])

\* What a loop's handler is about.
HandlerOK(l) ==
    /\ At(l) = 0 => handler[l] = NoHandler
    /\ At(l) # 0 => /\ handler[l].connection \in DOMAIN owner /\ l \notin ended
                    /\ User(l) \notin handler[l].left
                    /\ (handler[l].mine => objects[User(l)] # NoObject)
    /\ Opening(l) => conn[handler[l].connection] = l /\ handler[l].status = "Online"
    /\ Closing(l) => handler[l].status = "Offline"
    /\ At(l) = 9 => handler[l].aim \in Loops \X Users /\ handler[l].aim[2] # User(l)

Removing(l, u) == Closing(l) /\ At(l) = 1 /\ Serves(l, u)

Entries ==
    \A l \in Loops, u \in Users :
        Entry(l, u) = NoConnection \/ conn[Entry(l, u)] = l \/ Removing(l, u)

\* A socket or a status is written in the object of a user as long as he is connected, or the
\* handler of one of his connections is going to take it out.
TakesSocketOut(l, u) == Closing(l) /\ Serves(l, u) /\ (At(l) \in {1, 2} \/ (At(l) = 4 /\ handler[l].mine))
TakesStatusOut(l, u) == Closing(l) /\ Serves(l, u) /\ (At(l) \in {1, 2} \/ (At(l) \in {4, 5} /\ handler[l].mine))

SocketWritten(u) ==
    objects[u].SocketId # NoSocket => (\E d \in Connections : On(d, u)) \/ (\E l \in Loops : TakesSocketOut(l, u))
StatusWritten(u) ==
    objects[u].UserStatus = "Online" => (\E d \in Connections : On(d, u)) \/ (\E l \in Loops : TakesStatusOut(l, u))

\* Who has one connection or one handler.
Alone(u) ==
    /\ \A d, e \in Connections : On(d, u) /\ On(e, u) => d = e
    /\ \A l, k \in Loops : Serves(l, u) /\ Serves(k, u) => l = k
    /\ \A d \in Connections, l \in Loops : On(d, u) /\ Serves(l, u) => Opening(l) /\ handler[l].connection = d

Clean(u) == objects[u].SocketId = NoSocket /\ objects[u].UserStatus # "Online"
Shown(d, u) == objects[u].SocketId = conn[d] /\ objects[u].UserStatus = "Online"

\* His connection is in the map and in his object, as far as its handler has come.
InMap(d, u) == Entry(conn[d], u) = d \/ (At(conn[d]) = 1 /\ Serves(conn[d], u))
InObject(d, u) ==
    LET l == conn[d]
    IN /\ Serves(l, u) /\ At(l) \in {1, 2, 3} => Clean(u)
       /\ Serves(l, u) /\ At(l) = 4 => Clean(u) /\ (handler[l].mine \/ u \in torn)
       /\ Serves(l, u) /\ At(l) = 5 =>
              \/ handler[l].mine /\ objects[u].SocketId = l
              \/ ~handler[l].mine /\ u \in torn /\ Clean(u)
       /\ (Serves(l, u) /\ At(l) \in 1..5) \/ u \in torn \/ Shown(d, u)

Single == \A u \in Users \ overlapped : Alone(u) /\ \A d \in Connections : On(d, u) => InMap(d, u) /\ InObject(d, u)

\* The handler of l is going to tell connection d.
StillTells(l, d) ==
    \/ At(l) \in 1..6
    \/ owner[d] \in handler[l].left \ handler[l].missing
    \/ At(l) = 9 /\ handler[l].aim = <<conn[d], owner[d]>>

About(task, d, u) == task.status # "close" /\ task.to = d /\ task.about = <<u>>

\* What connection d is told of u last, once queue has been delivered, when it was told last so far.
HearsLast(queue, last, d, u, status) ==
    \/ (\A i \in DOMAIN queue : ~About(queue[i], d, u)) /\ last = status
    \/ \E i \in DOMAIN queue :
           /\ About(queue[i], d, u) /\ queue[i].status = status
           /\ \A j \in DOMAIN queue : j > i => ~About(queue[j], d, u)
Hears(d, u, status) == HearsLast(tasks[conn[d]], told[d][u], d, u, status)

\* Connection d is told of u, or has been: his present status when he has one connection at most,
\* and that he is gone when he has none.
OwedStatus(d, u) ==
    \/ \E l \in Loops : Serves(l, u) /\ StillTells(l, d)
    \/ Hears(d, u, Presently(u))
OwedOffline(d, u) ==
    \/ \E c \in Connections : On(c, u)
    \/ \E l \in Loops : Serves(l, u) /\ Closing(l) /\ StillTells(l, d)
    \/ Hears(d, u, "Offline")
Owed(d, u) ==
    /\ conn[d] # NoSocket /\ owner[d] # u
    /\ owner[d] \notin overlapped =>
           /\ Reachable(d)
           /\ u \notin overlapped \cup unheard => OwedStatus(d, u)
           /\ OwedOffline(d, u)

\* A queue holds a task that closes connection d.
Closes(queue, d) == \E i \in DOMAIN queue : queue[i].to = d /\ queue[i].status = "close"

\* The map of l leads nowhere, or Stop closes where it leads, or that came too late.
Stopping(l) ==
    Copied(l) => \A u \in Users :
        \/ Entry(l, u) \in {NoConnection} \cup late
        \/ stop.phase = "close" /\ stop.loop = l /\ u \in stop.left
        \/ Closes(tasks[l], Entry(l, u))
        \/ Removing(l, u)

PresenceInv ==
    /\ PresenceTypes /\ SocketsOK /\ TasksOK /\ Entries /\ Single
    /\ \A l \in Loops : HandlerOK(l) /\ Stopping(l)
    /\ \A u \in Users : SocketWritten(u) /\ StatusWritten(u)
    /\ \A o \in owed : Owed(o[1], o[2])
    /\ stop.phase = "running" => stop.loop = 0

LEMMA OpenPlacesAre ==
  /\ Head(O1) = "addSocket" /\ Head(O2) = "lookUp" /\ Head(O3) = "emplace" /\ Head(O4) = "setSocketId"
  /\ Head(O5) = "setUserStatus" /\ Head(O6) = "lookUpFriends" /\ Head(O7) = "emplaceFriends"
  /\ Head(O8) = "tell" /\ Head(O9) = "defer"
  /\ Tail(O1) = O2 /\ Tail(O2) = O3 /\ Tail(O3) = O4 /\ Tail(O4) = O5 /\ Tail(O5) = O6 /\ Tail(O6) = O7
  /\ Tail(O7) = O8 /\ Tail(O9) = O8
  /\ \A p \in OpenPlaces : p # <<>> /\ p[Len(p)] = "open"
  BY DEF O1, O2, O3, O4, O5, O6, O7, O8, O9, OpenPlaces

LEMMA ClosePlacesAre ==
  /\ Head(C1) = "removeSocket" /\ Head(C2) = "lookUp" /\ Head(C3) = "emplace" /\ Head(C4) = "setSocketId"
  /\ Head(C5) = "setUserStatus" /\ Head(C6) = "lookUpFriends" /\ Head(C7) = "emplaceFriends"
  /\ Head(C8) = "tell" /\ Head(C9) = "defer"
  /\ Tail(C1) = C2 /\ Tail(C2) = C3 /\ Tail(C3) = C4 /\ Tail(C4) = C5 /\ Tail(C5) = C6 /\ Tail(C6) = C7
  /\ Tail(C7) = C8 /\ Tail(C9) = C8
  /\ \A p \in ClosePlaces : p # <<>> /\ p[Len(p)] = "close"
  BY DEF C1, C2, C3, C4, C5, C6, C7, C8, C9, ClosePlaces

\* Of each place: it is one, the number of its step, its kind, and that it ends with it.
LEMMA OpenRanks ==
  /\ O1 # <<>> /\ O1 \in HandlerPlaces /\ Rank(O1) = 1 /\ Kind(O1) = "open" /\ O1[Len(O1)] = "open"
  /\ O2 # <<>> /\ O2 \in HandlerPlaces /\ Rank(O2) = 2 /\ Kind(O2) = "open" /\ O2[Len(O2)] = "open"
  /\ O3 # <<>> /\ O3 \in HandlerPlaces /\ Rank(O3) = 3 /\ Kind(O3) = "open" /\ O3[Len(O3)] = "open"
  /\ O4 # <<>> /\ O4 \in HandlerPlaces /\ Rank(O4) = 4 /\ Kind(O4) = "open" /\ O4[Len(O4)] = "open"
  /\ O5 # <<>> /\ O5 \in HandlerPlaces /\ Rank(O5) = 5 /\ Kind(O5) = "open" /\ O5[Len(O5)] = "open"
  /\ O6 # <<>> /\ O6 \in HandlerPlaces /\ Rank(O6) = 6 /\ Kind(O6) = "open" /\ O6[Len(O6)] = "open"
  /\ O7 # <<>> /\ O7 \in HandlerPlaces /\ Rank(O7) = 7 /\ Kind(O7) = "open" /\ O7[Len(O7)] = "open"
  /\ O8 # <<>> /\ O8 \in HandlerPlaces /\ Rank(O8) = 8 /\ Kind(O8) = "open" /\ O8[Len(O8)] = "open"
  /\ O9 # <<>> /\ O9 \in HandlerPlaces /\ Rank(O9) = 9 /\ Kind(O9) = "open" /\ O9[Len(O9)] = "open"
  <1>1. /\ O1 # <<>> /\ O1[Len(O1)] = "open" /\ O1 \in HandlerPlaces
        /\ O2 # <<>> /\ O2[Len(O2)] = "open" /\ O2 \in HandlerPlaces
        /\ O3 # <<>> /\ O3[Len(O3)] = "open" /\ O3 \in HandlerPlaces
        /\ O4 # <<>> /\ O4[Len(O4)] = "open" /\ O4 \in HandlerPlaces
        /\ O5 # <<>> /\ O5[Len(O5)] = "open" /\ O5 \in HandlerPlaces
        /\ O6 # <<>> /\ O6[Len(O6)] = "open" /\ O6 \in HandlerPlaces
        /\ O7 # <<>> /\ O7[Len(O7)] = "open" /\ O7 \in HandlerPlaces
        /\ O8 # <<>> /\ O8[Len(O8)] = "open" /\ O8 \in HandlerPlaces
        /\ O9 # <<>> /\ O9[Len(O9)] = "open" /\ O9 \in HandlerPlaces
    BY OpenPlacesAre DEF OpenPlaces, HandlerPlaces
  <1>2. /\ Rank(O1) = Number[Head(O1)] /\ Kind(O1) = O1[Len(O1)]
        /\ Rank(O2) = Number[Head(O2)] /\ Kind(O2) = O2[Len(O2)]
        /\ Rank(O3) = Number[Head(O3)] /\ Kind(O3) = O3[Len(O3)]
        /\ Rank(O4) = Number[Head(O4)] /\ Kind(O4) = O4[Len(O4)]
        /\ Rank(O5) = Number[Head(O5)] /\ Kind(O5) = O5[Len(O5)]
        /\ Rank(O6) = Number[Head(O6)] /\ Kind(O6) = O6[Len(O6)]
        /\ Rank(O7) = Number[Head(O7)] /\ Kind(O7) = O7[Len(O7)]
        /\ Rank(O8) = Number[Head(O8)] /\ Kind(O8) = O8[Len(O8)]
        /\ Rank(O9) = Number[Head(O9)] /\ Kind(O9) = O9[Len(O9)]
    BY <1>1 DEF Rank, Kind
  <1>3. /\ Number["addSocket"] = 1
        /\ Number["lookUp"] = 2
        /\ Number["emplace"] = 3
        /\ Number["setSocketId"] = 4
        /\ Number["setUserStatus"] = 5
        /\ Number["lookUpFriends"] = 6
        /\ Number["emplaceFriends"] = 7
        /\ Number["tell"] = 8
        /\ Number["defer"] = 9
    BY DEF Number
  <1>4. O1 # <<>> /\ O1 \in HandlerPlaces /\ Rank(O1) = 1 /\ Kind(O1) = "open" /\ O1[Len(O1)] = "open"
    BY <1>1, <1>2, <1>3, OpenPlacesAre
  <1>5. O2 # <<>> /\ O2 \in HandlerPlaces /\ Rank(O2) = 2 /\ Kind(O2) = "open" /\ O2[Len(O2)] = "open"
    BY <1>1, <1>2, <1>3, OpenPlacesAre
  <1>6. O3 # <<>> /\ O3 \in HandlerPlaces /\ Rank(O3) = 3 /\ Kind(O3) = "open" /\ O3[Len(O3)] = "open"
    BY <1>1, <1>2, <1>3, OpenPlacesAre
  <1>7. O4 # <<>> /\ O4 \in HandlerPlaces /\ Rank(O4) = 4 /\ Kind(O4) = "open" /\ O4[Len(O4)] = "open"
    BY <1>1, <1>2, <1>3, OpenPlacesAre
  <1>8. O5 # <<>> /\ O5 \in HandlerPlaces /\ Rank(O5) = 5 /\ Kind(O5) = "open" /\ O5[Len(O5)] = "open"
    BY <1>1, <1>2, <1>3, OpenPlacesAre
  <1>9. O6 # <<>> /\ O6 \in HandlerPlaces /\ Rank(O6) = 6 /\ Kind(O6) = "open" /\ O6[Len(O6)] = "open"
    BY <1>1, <1>2, <1>3, OpenPlacesAre
  <1>10. O7 # <<>> /\ O7 \in HandlerPlaces /\ Rank(O7) = 7 /\ Kind(O7) = "open" /\ O7[Len(O7)] = "open"
    BY <1>1, <1>2, <1>3, OpenPlacesAre
  <1>11. O8 # <<>> /\ O8 \in HandlerPlaces /\ Rank(O8) = 8 /\ Kind(O8) = "open" /\ O8[Len(O8)] = "open"
    BY <1>1, <1>2, <1>3, OpenPlacesAre
  <1>12. O9 # <<>> /\ O9 \in HandlerPlaces /\ Rank(O9) = 9 /\ Kind(O9) = "open" /\ O9[Len(O9)] = "open"
    BY <1>1, <1>2, <1>3, OpenPlacesAre
  <1> QED BY <1>4, <1>5, <1>6, <1>7, <1>8, <1>9, <1>10, <1>11, <1>12

LEMMA CloseRanks ==
  /\ C1 # <<>> /\ C1 \in HandlerPlaces /\ Rank(C1) = 1 /\ Kind(C1) = "close" /\ C1[Len(C1)] = "close"
  /\ C2 # <<>> /\ C2 \in HandlerPlaces /\ Rank(C2) = 2 /\ Kind(C2) = "close" /\ C2[Len(C2)] = "close"
  /\ C3 # <<>> /\ C3 \in HandlerPlaces /\ Rank(C3) = 3 /\ Kind(C3) = "close" /\ C3[Len(C3)] = "close"
  /\ C4 # <<>> /\ C4 \in HandlerPlaces /\ Rank(C4) = 4 /\ Kind(C4) = "close" /\ C4[Len(C4)] = "close"
  /\ C5 # <<>> /\ C5 \in HandlerPlaces /\ Rank(C5) = 5 /\ Kind(C5) = "close" /\ C5[Len(C5)] = "close"
  /\ C6 # <<>> /\ C6 \in HandlerPlaces /\ Rank(C6) = 6 /\ Kind(C6) = "close" /\ C6[Len(C6)] = "close"
  /\ C7 # <<>> /\ C7 \in HandlerPlaces /\ Rank(C7) = 7 /\ Kind(C7) = "close" /\ C7[Len(C7)] = "close"
  /\ C8 # <<>> /\ C8 \in HandlerPlaces /\ Rank(C8) = 8 /\ Kind(C8) = "close" /\ C8[Len(C8)] = "close"
  /\ C9 # <<>> /\ C9 \in HandlerPlaces /\ Rank(C9) = 9 /\ Kind(C9) = "close" /\ C9[Len(C9)] = "close"
  <1>1. /\ C1 # <<>> /\ C1[Len(C1)] = "close" /\ C1 \in HandlerPlaces
        /\ C2 # <<>> /\ C2[Len(C2)] = "close" /\ C2 \in HandlerPlaces
        /\ C3 # <<>> /\ C3[Len(C3)] = "close" /\ C3 \in HandlerPlaces
        /\ C4 # <<>> /\ C4[Len(C4)] = "close" /\ C4 \in HandlerPlaces
        /\ C5 # <<>> /\ C5[Len(C5)] = "close" /\ C5 \in HandlerPlaces
        /\ C6 # <<>> /\ C6[Len(C6)] = "close" /\ C6 \in HandlerPlaces
        /\ C7 # <<>> /\ C7[Len(C7)] = "close" /\ C7 \in HandlerPlaces
        /\ C8 # <<>> /\ C8[Len(C8)] = "close" /\ C8 \in HandlerPlaces
        /\ C9 # <<>> /\ C9[Len(C9)] = "close" /\ C9 \in HandlerPlaces
    BY ClosePlacesAre DEF ClosePlaces, HandlerPlaces
  <1>2. /\ Rank(C1) = Number[Head(C1)] /\ Kind(C1) = C1[Len(C1)]
        /\ Rank(C2) = Number[Head(C2)] /\ Kind(C2) = C2[Len(C2)]
        /\ Rank(C3) = Number[Head(C3)] /\ Kind(C3) = C3[Len(C3)]
        /\ Rank(C4) = Number[Head(C4)] /\ Kind(C4) = C4[Len(C4)]
        /\ Rank(C5) = Number[Head(C5)] /\ Kind(C5) = C5[Len(C5)]
        /\ Rank(C6) = Number[Head(C6)] /\ Kind(C6) = C6[Len(C6)]
        /\ Rank(C7) = Number[Head(C7)] /\ Kind(C7) = C7[Len(C7)]
        /\ Rank(C8) = Number[Head(C8)] /\ Kind(C8) = C8[Len(C8)]
        /\ Rank(C9) = Number[Head(C9)] /\ Kind(C9) = C9[Len(C9)]
    BY <1>1 DEF Rank, Kind
  <1>3. /\ Number["removeSocket"] = 1
        /\ Number["lookUp"] = 2
        /\ Number["emplace"] = 3
        /\ Number["setSocketId"] = 4
        /\ Number["setUserStatus"] = 5
        /\ Number["lookUpFriends"] = 6
        /\ Number["emplaceFriends"] = 7
        /\ Number["tell"] = 8
        /\ Number["defer"] = 9
    BY DEF Number
  <1>4. C1 # <<>> /\ C1 \in HandlerPlaces /\ Rank(C1) = 1 /\ Kind(C1) = "close" /\ C1[Len(C1)] = "close"
    BY <1>1, <1>2, <1>3, ClosePlacesAre
  <1>5. C2 # <<>> /\ C2 \in HandlerPlaces /\ Rank(C2) = 2 /\ Kind(C2) = "close" /\ C2[Len(C2)] = "close"
    BY <1>1, <1>2, <1>3, ClosePlacesAre
  <1>6. C3 # <<>> /\ C3 \in HandlerPlaces /\ Rank(C3) = 3 /\ Kind(C3) = "close" /\ C3[Len(C3)] = "close"
    BY <1>1, <1>2, <1>3, ClosePlacesAre
  <1>7. C4 # <<>> /\ C4 \in HandlerPlaces /\ Rank(C4) = 4 /\ Kind(C4) = "close" /\ C4[Len(C4)] = "close"
    BY <1>1, <1>2, <1>3, ClosePlacesAre
  <1>8. C5 # <<>> /\ C5 \in HandlerPlaces /\ Rank(C5) = 5 /\ Kind(C5) = "close" /\ C5[Len(C5)] = "close"
    BY <1>1, <1>2, <1>3, ClosePlacesAre
  <1>9. C6 # <<>> /\ C6 \in HandlerPlaces /\ Rank(C6) = 6 /\ Kind(C6) = "close" /\ C6[Len(C6)] = "close"
    BY <1>1, <1>2, <1>3, ClosePlacesAre
  <1>10. C7 # <<>> /\ C7 \in HandlerPlaces /\ Rank(C7) = 7 /\ Kind(C7) = "close" /\ C7[Len(C7)] = "close"
    BY <1>1, <1>2, <1>3, ClosePlacesAre
  <1>11. C8 # <<>> /\ C8 \in HandlerPlaces /\ Rank(C8) = 8 /\ Kind(C8) = "close" /\ C8[Len(C8)] = "close"
    BY <1>1, <1>2, <1>3, ClosePlacesAre
  <1>12. C9 # <<>> /\ C9 \in HandlerPlaces /\ Rank(C9) = 9 /\ Kind(C9) = "close" /\ C9[Len(C9)] = "close"
    BY <1>1, <1>2, <1>3, ClosePlacesAre
  <1> QED BY <1>4, <1>5, <1>6, <1>7, <1>8, <1>9, <1>10, <1>11, <1>12

LEMMA IdleRank == Rank(<<>>) = 0 /\ Kind(<<>>) = "none" /\ <<>> \in HandlerPlaces
  BY DEF Rank, Kind, HandlerPlaces

LEMMA PlaceIs ==
  ASSUME NEW p \in HandlerPlaces
  PROVE  /\ Rank(p) \in 0..9
         /\ p = <<>> <=> Rank(p) = 0
         /\ Kind(p) = "none" <=> Rank(p) = 0
         /\ Kind(p) \in {"none", "open", "close"}
         /\ p # <<>> => Kind(p) = p[Len(p)]
  <1>1. CASE p = O1
    BY <1>1, OpenRanks
  <1>2. CASE p = O2
    BY <1>2, OpenRanks
  <1>3. CASE p = O3
    BY <1>3, OpenRanks
  <1>4. CASE p = O4
    BY <1>4, OpenRanks
  <1>5. CASE p = O5
    BY <1>5, OpenRanks
  <1>6. CASE p = O6
    BY <1>6, OpenRanks
  <1>7. CASE p = O7
    BY <1>7, OpenRanks
  <1>8. CASE p = O8
    BY <1>8, OpenRanks
  <1>9. CASE p = O9
    BY <1>9, OpenRanks
  <1>10. CASE p = C1
    BY <1>10, CloseRanks
  <1>11. CASE p = C2
    BY <1>11, CloseRanks
  <1>12. CASE p = C3
    BY <1>12, CloseRanks
  <1>13. CASE p = C4
    BY <1>13, CloseRanks
  <1>14. CASE p = C5
    BY <1>14, CloseRanks
  <1>15. CASE p = C6
    BY <1>15, CloseRanks
  <1>16. CASE p = C7
    BY <1>16, CloseRanks
  <1>17. CASE p = C8
    BY <1>17, CloseRanks
  <1>18. CASE p = C9
    BY <1>18, CloseRanks
  <1>19. CASE p = <<>>
    BY <1>19, IdleRank
  <1> QED BY <1>1, <1>2, <1>3, <1>4, <1>5, <1>6, <1>7, <1>8, <1>9, <1>10, <1>11, <1>12, <1>13, <1>14, <1>15, <1>16, <1>17, <1>18, <1>19 DEF HandlerPlaces, OpenPlaces, ClosePlaces

\* Where the name of a step is.
LEMMA HeadIs ==
  ASSUME NEW p \in HandlerPlaces, p # <<>>
  PROVE  /\ Head(p) = "addSocket" => Rank(p) = 1 /\ Kind(p) = "open"
         /\ Head(p) = "removeSocket" => Rank(p) = 1 /\ Kind(p) = "close"
         /\ Head(p) = "lookUp" => Rank(p) = 2
         /\ Head(p) = "emplace" => Rank(p) = 3
         /\ Head(p) = "setSocketId" => Rank(p) = 4
         /\ Head(p) = "setUserStatus" => Rank(p) = 5
         /\ Head(p) = "lookUpFriends" => Rank(p) = 6
         /\ Head(p) = "emplaceFriends" => Rank(p) = 7
         /\ Head(p) = "tell" => Rank(p) = 8
         /\ Head(p) = "defer" => Rank(p) = 9
  <1>1. CASE p = O1
    BY <1>1, OpenPlacesAre, OpenRanks
  <1>2. CASE p = O2
    BY <1>2, OpenPlacesAre, OpenRanks
  <1>3. CASE p = O3
    BY <1>3, OpenPlacesAre, OpenRanks
  <1>4. CASE p = O4
    BY <1>4, OpenPlacesAre, OpenRanks
  <1>5. CASE p = O5
    BY <1>5, OpenPlacesAre, OpenRanks
  <1>6. CASE p = O6
    BY <1>6, OpenPlacesAre, OpenRanks
  <1>7. CASE p = O7
    BY <1>7, OpenPlacesAre, OpenRanks
  <1>8. CASE p = O8
    BY <1>8, OpenPlacesAre, OpenRanks
  <1>9. CASE p = O9
    BY <1>9, OpenPlacesAre, OpenRanks
  <1>10. CASE p = C1
    BY <1>10, ClosePlacesAre, CloseRanks
  <1>11. CASE p = C2
    BY <1>11, ClosePlacesAre, CloseRanks
  <1>12. CASE p = C3
    BY <1>12, ClosePlacesAre, CloseRanks
  <1>13. CASE p = C4
    BY <1>13, ClosePlacesAre, CloseRanks
  <1>14. CASE p = C5
    BY <1>14, ClosePlacesAre, CloseRanks
  <1>15. CASE p = C6
    BY <1>15, ClosePlacesAre, CloseRanks
  <1>16. CASE p = C7
    BY <1>16, ClosePlacesAre, CloseRanks
  <1>17. CASE p = C8
    BY <1>17, ClosePlacesAre, CloseRanks
  <1>18. CASE p = C9
    BY <1>18, ClosePlacesAre, CloseRanks
  <1>19. CASE p = <<>>
    BY <1>19
  <1> QED BY <1>1, <1>2, <1>3, <1>4, <1>5, <1>6, <1>7, <1>8, <1>9, <1>10, <1>11, <1>12, <1>13, <1>14, <1>15, <1>16, <1>17, <1>18, <1>19 DEF HandlerPlaces, OpenPlaces, ClosePlaces

\* The place after each place.
LEMMA NextOpen ==
  /\ Rank(Tail(O1)) = 2 /\ Kind(Tail(O1)) = Kind(O1) /\ Tail(O1) \in HandlerPlaces
  /\ Rank(Tail(O2)) = 3 /\ Kind(Tail(O2)) = Kind(O2) /\ Tail(O2) \in HandlerPlaces
  /\ Rank(Tail(O3)) = 4 /\ Kind(Tail(O3)) = Kind(O3) /\ Tail(O3) \in HandlerPlaces
  /\ Rank(Tail(O4)) = 5 /\ Kind(Tail(O4)) = Kind(O4) /\ Tail(O4) \in HandlerPlaces
  /\ Rank(Tail(O5)) = 6 /\ Kind(Tail(O5)) = Kind(O5) /\ Tail(O5) \in HandlerPlaces
  /\ Rank(Tail(O6)) = 7 /\ Kind(Tail(O6)) = Kind(O6) /\ Tail(O6) \in HandlerPlaces
  /\ Rank(Tail(O7)) = 8 /\ Kind(Tail(O7)) = Kind(O7) /\ Tail(O7) \in HandlerPlaces
  /\ Rank(Tail(O9)) = 8 /\ Kind(Tail(O9)) = Kind(O9) /\ Tail(O9) \in HandlerPlaces
  /\ Rank(Tail(Tail(O2))) = 4 /\ Kind(Tail(Tail(O2))) = Kind(O2) /\ Tail(Tail(O2)) \in HandlerPlaces
  /\ Rank(Tail(Tail(O6))) = 8 /\ Kind(Tail(Tail(O6))) = Kind(O6) /\ Tail(Tail(O6)) \in HandlerPlaces
  <1>1. /\ Tail(O1) = O2 /\ Tail(O2) = O3 /\ Tail(O3) = O4 /\ Tail(O4) = O5
        /\ Tail(O5) = O6 /\ Tail(O6) = O7 /\ Tail(O7) = O8 /\ Tail(O9) = O8
    BY OpenPlacesAre, Zenon
  <1>2. Rank(O2) = 2 /\ Rank(O3) = 3 /\ Rank(O4) = 4 /\ Rank(O5) = 5 /\ Rank(O6) = 6 /\ Rank(O7) = 7 /\ Rank(O8) = 8
    BY OpenRanks, Zenon
  <1>3. /\ Kind(O1) = "open" /\ Kind(O2) = "open" /\ Kind(O3) = "open" /\ Kind(O4) = "open" /\ Kind(O5) = "open"
        /\ Kind(O6) = "open" /\ Kind(O7) = "open" /\ Kind(O8) = "open" /\ Kind(O9) = "open"
    BY OpenRanks, Zenon
  <1>4. {O1, O2, O3, O4, O5, O6, O7, O8, O9} \subseteq HandlerPlaces
    BY DEF HandlerPlaces, OpenPlaces
  <1>5. Rank(Tail(O1)) = 2 /\ Kind(Tail(O1)) = Kind(O1) /\ Tail(O1) \in HandlerPlaces
    BY <1>1, <1>2, <1>3, <1>4
  <1>6. Rank(Tail(O2)) = 3 /\ Kind(Tail(O2)) = Kind(O2) /\ Tail(O2) \in HandlerPlaces
    BY <1>1, <1>2, <1>3, <1>4
  <1>7. Rank(Tail(O3)) = 4 /\ Kind(Tail(O3)) = Kind(O3) /\ Tail(O3) \in HandlerPlaces
    BY <1>1, <1>2, <1>3, <1>4
  <1>8. Rank(Tail(O4)) = 5 /\ Kind(Tail(O4)) = Kind(O4) /\ Tail(O4) \in HandlerPlaces
    BY <1>1, <1>2, <1>3, <1>4
  <1>9. Rank(Tail(O5)) = 6 /\ Kind(Tail(O5)) = Kind(O5) /\ Tail(O5) \in HandlerPlaces
    BY <1>1, <1>2, <1>3, <1>4
  <1>10. Rank(Tail(O6)) = 7 /\ Kind(Tail(O6)) = Kind(O6) /\ Tail(O6) \in HandlerPlaces
    BY <1>1, <1>2, <1>3, <1>4
  <1>11. Rank(Tail(O7)) = 8 /\ Kind(Tail(O7)) = Kind(O7) /\ Tail(O7) \in HandlerPlaces
    BY <1>1, <1>2, <1>3, <1>4
  <1>12. Rank(Tail(O9)) = 8 /\ Kind(Tail(O9)) = Kind(O9) /\ Tail(O9) \in HandlerPlaces
    BY <1>1, <1>2, <1>3, <1>4
  <1>13. Rank(Tail(Tail(O2))) = 4 /\ Kind(Tail(Tail(O2))) = Kind(O2) /\ Tail(Tail(O2)) \in HandlerPlaces
    BY <1>1, <1>2, <1>3, <1>4
  <1>14. Rank(Tail(Tail(O6))) = 8 /\ Kind(Tail(Tail(O6))) = Kind(O6) /\ Tail(Tail(O6)) \in HandlerPlaces
    BY <1>1, <1>2, <1>3, <1>4
  <1> QED BY <1>5, <1>6, <1>7, <1>8, <1>9, <1>10, <1>11, <1>12, <1>13, <1>14

\* The place after each place.
LEMMA NextClose ==
  /\ Rank(Tail(C1)) = 2 /\ Kind(Tail(C1)) = Kind(C1) /\ Tail(C1) \in HandlerPlaces
  /\ Rank(Tail(C2)) = 3 /\ Kind(Tail(C2)) = Kind(C2) /\ Tail(C2) \in HandlerPlaces
  /\ Rank(Tail(C3)) = 4 /\ Kind(Tail(C3)) = Kind(C3) /\ Tail(C3) \in HandlerPlaces
  /\ Rank(Tail(C4)) = 5 /\ Kind(Tail(C4)) = Kind(C4) /\ Tail(C4) \in HandlerPlaces
  /\ Rank(Tail(C5)) = 6 /\ Kind(Tail(C5)) = Kind(C5) /\ Tail(C5) \in HandlerPlaces
  /\ Rank(Tail(C6)) = 7 /\ Kind(Tail(C6)) = Kind(C6) /\ Tail(C6) \in HandlerPlaces
  /\ Rank(Tail(C7)) = 8 /\ Kind(Tail(C7)) = Kind(C7) /\ Tail(C7) \in HandlerPlaces
  /\ Rank(Tail(C9)) = 8 /\ Kind(Tail(C9)) = Kind(C9) /\ Tail(C9) \in HandlerPlaces
  /\ Rank(Tail(Tail(C2))) = 4 /\ Kind(Tail(Tail(C2))) = Kind(C2) /\ Tail(Tail(C2)) \in HandlerPlaces
  /\ Rank(Tail(Tail(C6))) = 8 /\ Kind(Tail(Tail(C6))) = Kind(C6) /\ Tail(Tail(C6)) \in HandlerPlaces
  <1>1. /\ Tail(C1) = C2 /\ Tail(C2) = C3 /\ Tail(C3) = C4 /\ Tail(C4) = C5
        /\ Tail(C5) = C6 /\ Tail(C6) = C7 /\ Tail(C7) = C8 /\ Tail(C9) = C8
    BY ClosePlacesAre, Zenon
  <1>2. Rank(C2) = 2 /\ Rank(C3) = 3 /\ Rank(C4) = 4 /\ Rank(C5) = 5 /\ Rank(C6) = 6 /\ Rank(C7) = 7 /\ Rank(C8) = 8
    BY CloseRanks, Zenon
  <1>3. /\ Kind(C1) = "close" /\ Kind(C2) = "close" /\ Kind(C3) = "close" /\ Kind(C4) = "close" /\ Kind(C5) = "close"
        /\ Kind(C6) = "close" /\ Kind(C7) = "close" /\ Kind(C8) = "close" /\ Kind(C9) = "close"
    BY CloseRanks, Zenon
  <1>4. {C1, C2, C3, C4, C5, C6, C7, C8, C9} \subseteq HandlerPlaces
    BY DEF HandlerPlaces, ClosePlaces
  <1>5. Rank(Tail(C1)) = 2 /\ Kind(Tail(C1)) = Kind(C1) /\ Tail(C1) \in HandlerPlaces
    BY <1>1, <1>2, <1>3, <1>4
  <1>6. Rank(Tail(C2)) = 3 /\ Kind(Tail(C2)) = Kind(C2) /\ Tail(C2) \in HandlerPlaces
    BY <1>1, <1>2, <1>3, <1>4
  <1>7. Rank(Tail(C3)) = 4 /\ Kind(Tail(C3)) = Kind(C3) /\ Tail(C3) \in HandlerPlaces
    BY <1>1, <1>2, <1>3, <1>4
  <1>8. Rank(Tail(C4)) = 5 /\ Kind(Tail(C4)) = Kind(C4) /\ Tail(C4) \in HandlerPlaces
    BY <1>1, <1>2, <1>3, <1>4
  <1>9. Rank(Tail(C5)) = 6 /\ Kind(Tail(C5)) = Kind(C5) /\ Tail(C5) \in HandlerPlaces
    BY <1>1, <1>2, <1>3, <1>4
  <1>10. Rank(Tail(C6)) = 7 /\ Kind(Tail(C6)) = Kind(C6) /\ Tail(C6) \in HandlerPlaces
    BY <1>1, <1>2, <1>3, <1>4
  <1>11. Rank(Tail(C7)) = 8 /\ Kind(Tail(C7)) = Kind(C7) /\ Tail(C7) \in HandlerPlaces
    BY <1>1, <1>2, <1>3, <1>4
  <1>12. Rank(Tail(C9)) = 8 /\ Kind(Tail(C9)) = Kind(C9) /\ Tail(C9) \in HandlerPlaces
    BY <1>1, <1>2, <1>3, <1>4
  <1>13. Rank(Tail(Tail(C2))) = 4 /\ Kind(Tail(Tail(C2))) = Kind(C2) /\ Tail(Tail(C2)) \in HandlerPlaces
    BY <1>1, <1>2, <1>3, <1>4
  <1>14. Rank(Tail(Tail(C6))) = 8 /\ Kind(Tail(Tail(C6))) = Kind(C6) /\ Tail(Tail(C6)) \in HandlerPlaces
    BY <1>1, <1>2, <1>3, <1>4
  <1> QED BY <1>5, <1>6, <1>7, <1>8, <1>9, <1>10, <1>11, <1>12, <1>13, <1>14

LEMMA NextPlaceIs ==
  ASSUME NEW p \in HandlerPlaces
  PROVE  /\ Rank(p) \in 1..7 \cup {9} => Tail(p) \in HandlerPlaces /\ Kind(Tail(p)) = Kind(p)
         /\ Rank(p) \in 1..7 => Rank(Tail(p)) = Rank(p) + 1
         /\ Rank(p) = 9 => Rank(Tail(p)) = 8
         /\ Rank(p) \in {2, 6} => /\ Tail(Tail(p)) \in HandlerPlaces /\ Kind(Tail(Tail(p))) = Kind(p)
                                  /\ Rank(Tail(Tail(p))) = Rank(p) + 2
  <1>1. CASE p = O1
    BY <1>1, NextOpen, OpenRanks
  <1>2. CASE p = O2
    BY <1>2, NextOpen, OpenRanks
  <1>3. CASE p = O3
    BY <1>3, NextOpen, OpenRanks
  <1>4. CASE p = O4
    BY <1>4, NextOpen, OpenRanks
  <1>5. CASE p = O5
    BY <1>5, NextOpen, OpenRanks
  <1>6. CASE p = O6
    BY <1>6, NextOpen, OpenRanks
  <1>7. CASE p = O7
    BY <1>7, NextOpen, OpenRanks
  <1>8. CASE p = O8
    BY <1>8, NextOpen, OpenRanks
  <1>9. CASE p = O9
    BY <1>9, NextOpen, OpenRanks
  <1>10. CASE p = C1
    BY <1>10, NextClose, CloseRanks
  <1>11. CASE p = C2
    BY <1>11, NextClose, CloseRanks
  <1>12. CASE p = C3
    BY <1>12, NextClose, CloseRanks
  <1>13. CASE p = C4
    BY <1>13, NextClose, CloseRanks
  <1>14. CASE p = C5
    BY <1>14, NextClose, CloseRanks
  <1>15. CASE p = C6
    BY <1>15, NextClose, CloseRanks
  <1>16. CASE p = C7
    BY <1>16, NextClose, CloseRanks
  <1>17. CASE p = C8
    BY <1>17, NextClose, CloseRanks
  <1>18. CASE p = C9
    BY <1>18, NextClose, CloseRanks
  <1>19. CASE p = <<>>
    BY <1>19, IdleRank
  <1> QED BY <1>1, <1>2, <1>3, <1>4, <1>5, <1>6, <1>7, <1>8, <1>9, <1>10, <1>11, <1>12, <1>13, <1>14, <1>15, <1>16, <1>17, <1>18, <1>19 DEF HandlerPlaces, OpenPlaces, ClosePlaces

\* Where handlers begin.
LEMMA Concatenated ==
  ASSUME NEW S, NEW s \in Seq(S), NEW t \in Seq(S), NEW r \in Seq(S), Len(r) = Len(s) + Len(t),
         \A i \in 1..Len(s) : r[i] = s[i], \A i \in 1..Len(t) : r[Len(s) + i] = t[i]
  PROVE  s \o t = r
  <1>1. /\ s \o t \in Seq(S) /\ Len(s \o t) = Len(s) + Len(t)
        /\ \A i \in 1..Len(s) + Len(t) : (s \o t)[i] = IF i <= Len(s) THEN s[i] ELSE t[i - Len(s)]
    BY ConcatProperties
  <1>2. \A i \in 1..Len(r) : (s \o t)[i] = r[i]
    <2> SUFFICES ASSUME NEW i \in 1..Len(r)
                 PROVE  (s \o t)[i] = r[i]
      OBVIOUS
    <2>1. CASE i <= Len(s)
      BY <1>1, <2>1
    <2>2. CASE i > Len(s)
      <3>1. PICK j \in 1..Len(t) : i = Len(s) + j
        <4>1. i - Len(s) \in 1..Len(t) /\ i = Len(s) + (i - Len(s))
          BY <2>2
        <4> QED BY <4>1
      <3>2. i - Len(s) = j
        BY <3>1
      <3>3. (s \o t)[i] = t[j]
        BY <1>1, <2>2, <3>2
      <3> QED BY <3>1, <3>3
    <2> QED BY <2>1, <2>2
  <1> QED BY <1>1, <1>2, SeqEqual

LEMMA HandlersBegin ==
  /\ Append(OnClientConnected, "open") = O1
  /\ Append(OnClientDisconnected, "close") = C1
  <1> DEFINE end == <<"setSocketId", "setUserStatus">>
             tell == <<"setSocketId", "setUserStatus", "lookUpFriends", "emplaceFriends", "tell">>
             add == <<"addSocket">>
             added == <<"addSocket", "lookUp", "emplace">>
             written == <<"addSocket", "lookUp", "emplace", "setSocketId", "setUserStatus">>
             told_all == <<"addSocket", "lookUp", "emplace", "setSocketId", "setUserStatus", "lookUpFriends", "emplaceFriends",
                       "tell">>
             remove == <<"removeSocket">>
             removed == <<"removeSocket", "lookUp", "emplace">>
             erased == <<"removeSocket", "lookUp", "emplace", "setSocketId", "setUserStatus">>
             gone == <<"removeSocket", "lookUp", "emplace", "setSocketId", "setUserStatus", "lookUpFriends", "emplaceFriends",
                       "tell">>
  <1>1. /\ add \in Seq(PresenceSteps) /\ LookUpSelf \in Seq(PresenceSteps) /\ end \in Seq(PresenceSteps)
        /\ Broadcast \in Seq(PresenceSteps) /\ remove \in Seq(PresenceSteps)
    BY DEF LookUpSelf, Broadcast, PresenceSteps
  <1>2. added \in Seq(PresenceSteps) /\ written \in Seq(PresenceSteps) /\ told_all \in Seq(PresenceSteps)
    BY DEF PresenceSteps
  <1>3. removed \in Seq(PresenceSteps) /\ erased \in Seq(PresenceSteps) /\ gone \in Seq(PresenceSteps)
    BY DEF PresenceSteps
  <1>4. O1 \in Seq(PresenceSteps) /\ C1 \in Seq(PresenceSteps) /\ <<"open">> \in Seq(PresenceSteps) /\ <<"close">> \in Seq(PresenceSteps)
    BY DEF O1, C1, PresenceSteps
  <1>5. add \o LookUpSelf = added
    <2>1. Len(added) = Len(add) + Len(LookUpSelf) /\ (\A i \in 1..Len(add) : added[i] = add[i])
      BY DEF LookUpSelf
    <2>2. \A i \in 1..Len(LookUpSelf) : added[Len(add) + i] = LookUpSelf[i]
      BY DEF LookUpSelf
    <2>3. add \in Seq(PresenceSteps) /\ LookUpSelf \in Seq(PresenceSteps) /\ added \in Seq(PresenceSteps)
      BY <1>1, <1>2
    <2> HIDE DEF added, add
    <2> QED BY <2>1, <2>2, <2>3, Concatenated
  <1>6. added \o end = written
    <2>1. Len(written) = Len(added) + Len(end) /\ (\A i \in 1..Len(added) : written[i] = added[i])
      OBVIOUS
    <2>2. \A i \in 1..Len(end) : written[Len(added) + i] = end[i]
      OBVIOUS
    <2> HIDE DEF added, written, end
    <2> QED BY <1>1, <1>2, <2>1, <2>2, Concatenated
  <1>7. written \o Broadcast = told_all
    <2>1. Len(told_all) = Len(written) + Len(Broadcast) /\ (\A i \in 1..Len(written) : told_all[i] = written[i])
      BY DEF Broadcast
    <2>2. \A i \in 1..Len(Broadcast) : told_all[Len(written) + i] = Broadcast[i]
      BY DEF Broadcast
    <2> HIDE DEF written, told_all
    <2> QED BY <1>1, <1>2, <2>1, <2>2, Concatenated
  <1>8. remove \o LookUpSelf = removed
    <2>1. Len(removed) = Len(remove) + Len(LookUpSelf) /\ (\A i \in 1..Len(remove) : removed[i] = remove[i])
      BY DEF LookUpSelf
    <2>2. \A i \in 1..Len(LookUpSelf) : removed[Len(remove) + i] = LookUpSelf[i]
      BY DEF LookUpSelf
    <2>3. remove \in Seq(PresenceSteps) /\ LookUpSelf \in Seq(PresenceSteps) /\ removed \in Seq(PresenceSteps)
      BY <1>1, <1>3
    <2> HIDE DEF removed, remove
    <2> QED BY <2>1, <2>2, <2>3, Concatenated
  <1>9. removed \o end = erased
    <2>1. Len(erased) = Len(removed) + Len(end) /\ (\A i \in 1..Len(removed) : erased[i] = removed[i])
      OBVIOUS
    <2>2. \A i \in 1..Len(end) : erased[Len(removed) + i] = end[i]
      OBVIOUS
    <2> HIDE DEF removed, erased, end
    <2> QED BY <1>1, <1>3, <2>1, <2>2, Concatenated
  <1>10. erased \o Broadcast = gone
    <2>1. Len(gone) = Len(erased) + Len(Broadcast) /\ (\A i \in 1..Len(erased) : gone[i] = erased[i])
      BY DEF Broadcast
    <2>2. \A i \in 1..Len(Broadcast) : gone[Len(erased) + i] = Broadcast[i]
      BY DEF Broadcast
    <2> HIDE DEF erased, gone
    <2> QED BY <1>1, <1>3, <2>1, <2>2, Concatenated
  <1>11. OnClientConnected = told_all /\ OnClientDisconnected = gone
    <2> HIDE DEF add, added, written, told_all, remove, removed, erased, gone, end
    <2>1. OnClientConnected = add \o LookUpSelf \o end \o Broadcast /\ OnClientDisconnected = remove \o LookUpSelf \o end \o Broadcast
      BY DEF OnClientConnected, OnClientDisconnected, add, remove, end
    <2> QED BY <2>1, <1>5, <1>6, <1>7, <1>8, <1>9, <1>10
  <1>12. Append(told_all, "open") = O1
    <2>1. Len(O1) = Len(told_all) + 1 /\ O1[Len(O1)] = "open"
      BY DEF O1
    <2>2. \A i \in 1..Len(told_all) : O1[i] = told_all[i]
      BY DEF O1
    <2>3. told_all \in Seq(PresenceSteps) /\ O1 \in Seq(PresenceSteps) /\ "open" \in PresenceSteps
      BY <1>2, <1>4 DEF PresenceSteps
    <2> HIDE DEF told_all
    <2> QED BY <2>1, <2>2, <2>3, AppendIs
  <1>13. Append(gone, "close") = C1
    <2>1. Len(C1) = Len(gone) + 1 /\ C1[Len(C1)] = "close"
      BY DEF C1
    <2>2. \A i \in 1..Len(gone) : C1[i] = gone[i]
      BY DEF C1
    <2>3. gone \in Seq(PresenceSteps) /\ C1 \in Seq(PresenceSteps) /\ "close" \in PresenceSteps
      BY <1>3, <1>4 DEF PresenceSteps
    <2> HIDE DEF gone
    <2> QED BY <2>1, <2>2, <2>3, AppendIs
  <1> QED BY <1>11, <1>12, <1>13

LEMMA DeferComesFirst ==
  ASSUME NEW p \in HandlerPlaces, Rank(p) = 8
  PROVE  <<"defer">> \o p \in HandlerPlaces /\ Rank(<<"defer">> \o p) = 9 /\ Kind(<<"defer">> \o p) = Kind(p)
  <1>1. p = O8 \/ p = C8
    <2>1. p \in {O1, O2, O3, O4, O5, O6, O7, O9} => Rank(p) # 8
      BY OpenRanks
    <2>2. p \in {C1, C2, C3, C4, C5, C6, C7, C9} => Rank(p) # 8
      BY CloseRanks
    <2> QED BY <2>1, <2>2, IdleRank DEF HandlerPlaces, OpenPlaces, ClosePlaces
  <1> DEFINE first == <<"defer">>
  <1>2. first \in Seq(PresenceSteps)
    BY DEF PresenceSteps
  <1>3. first \o O8 = O9
    <2>1. O8 \in Seq(PresenceSteps) /\ O9 \in Seq(PresenceSteps)
      BY DEF O8, O9, PresenceSteps
    <2>2. Len(O9) = Len(first) + Len(O8) /\ (\A i \in 1..Len(first) : O9[i] = first[i])
      BY DEF O8, O9
    <2>3. \A i \in 1..Len(O8) : O9[Len(first) + i] = O8[i]
      BY DEF O8, O9
    <2> HIDE DEF first
    <2> QED BY <1>2, <2>1, <2>2, <2>3, Concatenated
  <1>4. first \o C8 = C9
    <2>1. C8 \in Seq(PresenceSteps) /\ C9 \in Seq(PresenceSteps)
      BY DEF C8, C9, PresenceSteps
    <2>2. Len(C9) = Len(first) + Len(C8) /\ (\A i \in 1..Len(first) : C9[i] = first[i])
      BY DEF C8, C9
    <2>3. \A i \in 1..Len(C8) : C9[Len(first) + i] = C8[i]
      BY DEF C8, C9
    <2> HIDE DEF first
    <2> QED BY <1>2, <2>1, <2>2, <2>3, Concatenated
  <1> QED BY <1>1, <1>3, <1>4, OpenRanks, CloseRanks

(***************************************************************************)
(* What the steps of a handler do to what is left of it.                   *)
(***************************************************************************)
LEMMA LoopsAre ==
  /\ NoSocket \notin Loops /\ NoConnection \notin Connections /\ Loops \subseteq Int /\ Loops \subseteq Threads
  /\ MaxConnections \in Nat /\ 0 \in Loops /\ NoSocket = -1 /\ NoConnection = 0 /\ Connections = 1..MaxConnections
  /\ \A l, k \in Loops : \A j \in Int : k <= j /\ j <= l => j \in Loops
  BY PresenceAssumption, FS_CardinalityType DEF NoSocket, Connections, NoConnection

LEMMA DomainIs ==
  ASSUME PresenceTypes
  PROVE  DOMAIN owner = 1..Len(owner) /\ Len(owner) \in Nat /\ DOMAIN owner \subseteq Connections
  BY LoopsAre DEF PresenceTypes

\* On to a place of number r: what l has left stays of its kind, and the others wait.
Moved(l, r) ==
    /\ pc' \in [Threads -> HandlerPlaces]
    /\ Rank(pc'[l]) = r /\ Kind(pc'[l]) = Kind(pc[l])
    /\ \A k \in Loops \ {l} : pc'[k] = pc[k]

Begun(l, kind) ==
    /\ pc' \in [Threads -> HandlerPlaces]
    /\ At(l) = 0 /\ Rank(pc'[l]) = 1 /\ Kind(pc'[l]) = kind
    /\ \A k \in Loops \ {l} : pc'[k] = pc[k]

LEMMA BusyIs ==
  ASSUME PresenceTypes, NEW l \in Loops
  PROVE  /\ pc[l] \in HandlerPlaces /\ At(l) \in 0..9
         /\ Busy(l) <=> At(l) # 0
         /\ Opening(l) => At(l) # 0 /\ ~Closing(l) /\ Op(l) = "open"
         /\ Closing(l) => At(l) # 0 /\ Op(l) = "close"
         /\ At(l) # 0 => Opening(l) \/ Closing(l)
  BY LoopsAre, PlaceIs DEF PresenceTypes, At, Busy, Opening, Closing, Op

LEMMA StepIs ==
  ASSUME PresenceTypes, NEW l \in Loops
  PROVE  /\ AtStep(l, "addSocket") => At(l) = 1 /\ Opening(l)
         /\ AtStep(l, "removeSocket") => At(l) = 1 /\ Closing(l)
         /\ AtStep(l, "lookUp") => At(l) = 2
         /\ AtStep(l, "emplace") => At(l) = 3
         /\ AtStep(l, "setSocketId") => At(l) = 4
         /\ AtStep(l, "setUserStatus") => At(l) = 5
         /\ AtStep(l, "lookUpFriends") => At(l) = 6
         /\ AtStep(l, "emplaceFriends") => At(l) = 7
         /\ AtStep(l, "tell") => At(l) = 8
         /\ AtStep(l, "defer") => At(l) = 9
  BY BusyIs, HeadIs DEF AtStep, Busy, At, Opening, Closing

\* What is left of l becomes q.
LEMMA PlaceChanges ==
  ASSUME PresenceTypes, NEW l \in Loops, NEW q \in HandlerPlaces, pc' = [pc EXCEPT ![l] = q]
  PROVE  pc' \in [Threads -> HandlerPlaces] /\ pc'[l] = q /\ \A k \in Loops \ {l} : pc'[k] = pc[k]
  BY LoopsAre DEF PresenceTypes

LEMMA AdvanceIs ==
  ASSUME PresenceTypes, NEW l \in Loops, Advance(l)
  PROVE  (At(l) \in 1..7 => Moved(l, At(l) + 1)) /\ (At(l) = 9 => Moved(l, 8))
  <1>1. PICK p \in HandlerPlaces : p = pc[l]
    BY BusyIs
  <1>2. /\ Rank(p) \in 1..7 \cup {9} => Tail(p) \in HandlerPlaces /\ Kind(Tail(p)) = Kind(p)
        /\ Rank(p) \in 1..7 => Rank(Tail(p)) = Rank(p) + 1
        /\ Rank(p) = 9 => Rank(Tail(p)) = 8
    BY NextPlaceIs
  <1>3. ASSUME Rank(p) \in 1..7 \cup {9}
        PROVE  pc' \in [Threads -> HandlerPlaces] /\ pc'[l] = Tail(p) /\ \A k \in Loops \ {l} : pc'[k] = pc[k]
    BY <1>1, <1>2, <1>3, PlaceChanges DEF Advance
  <1> QED BY <1>1, <1>2, <1>3 DEF Moved, At

LEMMA AdvanceOverIs ==
  ASSUME PresenceTypes, NEW l \in Loops, NEW cond, AdvanceOver(l, cond), At(l) \in {2, 6}
  PROVE  (cond => Moved(l, At(l) + 2)) /\ (~cond => Moved(l, At(l) + 1))
  <1>1. PICK p \in HandlerPlaces : p = pc[l]
    BY BusyIs
  <1>2. Rank(p) \in {2, 6}
    BY <1>1 DEF At
  <1>3. Tail(p) \in HandlerPlaces /\ Kind(Tail(p)) = Kind(p) /\ Rank(Tail(p)) = Rank(p) + 1
    BY <1>2, NextPlaceIs
  <1>4. Tail(Tail(p)) \in HandlerPlaces /\ Kind(Tail(Tail(p))) = Kind(p) /\ Rank(Tail(Tail(p))) = Rank(p) + 2
    BY <1>2, NextPlaceIs
  <1>5. CASE cond
    BY <1>1, <1>4, <1>5, PlaceChanges DEF AdvanceOver, At, Moved
  <1>6. CASE ~cond
    BY <1>1, <1>3, <1>6, PlaceChanges DEF AdvanceOver, At, Moved
  <1> QED BY <1>5, <1>6

LEMMA InsertIs ==
  ASSUME PresenceTypes, NEW l \in Loops, Insert(l, <<"defer">>), At(l) = 8
  PROVE  Moved(l, 9)
  <1>1. PICK p \in HandlerPlaces : p = pc[l]
    BY BusyIs
  <1>2. PICK q \in HandlerPlaces : q = <<"defer">> \o p /\ Rank(q) = 9 /\ Kind(q) = Kind(p)
    BY <1>1, DeferComesFirst DEF At
  <1>3. pc' = [pc EXCEPT ![l] = q]
    BY <1>1, <1>2 DEF Insert
  <1>4. pc' \in [Threads -> HandlerPlaces] /\ pc'[l] = q /\ \A k \in Loops \ {l} : pc'[k] = pc[k]
    BY <1>3, PlaceChanges
  <1> QED BY <1>1, <1>2, <1>4 DEF Moved

LEMMA EnterIs ==
  ASSUME PresenceTypes, NEW l \in Loops
  PROVE  /\ Enter(l, OnClientConnected, "open") => Begun(l, "open")
         /\ Enter(l, OnClientDisconnected, "close") => Begun(l, "close")
  <1>1. ASSUME Enter(l, OnClientConnected, "open")
        PROVE  Begun(l, "open")
    BY <1>1, OpenRanks, HandlersBegin, BusyIs, PlaceChanges DEF Enter, Begun
  <1>2. ASSUME Enter(l, OnClientDisconnected, "close")
        PROVE  Begun(l, "close")
    BY <1>2, CloseRanks, HandlersBegin, BusyIs, PlaceChanges DEF Enter, Begun
  <1> QED BY <1>1, <1>2

LEMMA FinishIs ==
  ASSUME PresenceTypes, NEW l \in Loops, Finish(l)
  PROVE  /\ pc' \in [Threads -> HandlerPlaces]
         /\ Rank(pc'[l]) = 0 /\ Kind(pc'[l]) = "none"
         /\ \A k \in Loops \ {l} : pc'[k] = pc[k]
  BY IdleRank, PlaceChanges DEF Finish

(***************************************************************************)
(* Queues of tasks, and what a connection hears of them.                   *)
(***************************************************************************)
TaskTypes == Notices \cup Closings

LEMMA AppendedAre ==
  ASSUME NEW T, NEW q \in Seq(T), NEW t \in T
  PROVE  /\ Append(q, t) \in Seq(T) /\ DOMAIN Append(q, t) = 1..Len(q) + 1 /\ DOMAIN q = 1..Len(q) /\ Len(q) \in Nat
         /\ \A i \in 1..Len(q) : Append(q, t)[i] = q[i]
         /\ Append(q, t)[Len(q) + 1] = t
  OBVIOUS

LEMMA TailIs ==
  ASSUME NEW T, NEW q \in Seq(T), q # <<>>
  PROVE  /\ Tail(q) \in Seq(T) /\ DOMAIN Tail(q) = 1..Len(q) - 1 /\ DOMAIN q = 1..Len(q) /\ Len(q) \in Nat /\ Len(q) > 0
         /\ \A i \in 1..Len(q) - 1 : Tail(q)[i] = q[i + 1]
         /\ Head(q) = q[1]
  OBVIOUS

LEMMA HearsAppended ==
  ASSUME NEW q \in Seq(TaskTypes), NEW t \in TaskTypes, NEW d, NEW u, NEW status, NEW last
  PROVE  /\ ~About(t, d, u) /\ HearsLast(q, last, d, u, status) => HearsLast(Append(q, t), last, d, u, status)
         /\ About(t, d, u) /\ t.status = status => HearsLast(Append(q, t), last, d, u, status)
  <1> DEFINE n == Len(q)
  <1>1. PICK r : r = Append(q, t)
    OBVIOUS
  <1>2. DOMAIN r = 1..n + 1 /\ DOMAIN q = 1..n /\ n \in Nat /\ (\A i \in 1..n : r[i] = q[i]) /\ r[n + 1] = t
    BY <1>1, AppendedAre
  <1> HIDE DEF n
  <1>3. ASSUME ~About(t, d, u), HearsLast(q, last, d, u, status)
        PROVE  HearsLast(r, last, d, u, status)
    BY <1>2, <1>3 DEF HearsLast
  <1>4. ASSUME About(t, d, u), t.status = status
        PROVE  HearsLast(r, last, d, u, status)
    BY <1>2, <1>4 DEF HearsLast
  <1> QED BY <1>1, <1>3, <1>4

LEMMA HearsDelivered ==
  ASSUME NEW q \in Seq(TaskTypes), q # <<>>, NEW d, NEW u, NEW status, NEW last, HearsLast(q, last, d, u, status)
  PROVE  /\ ~About(Head(q), d, u) => HearsLast(Tail(q), last, d, u, status)
         /\ About(Head(q), d, u) => HearsLast(Tail(q), Head(q).status, d, u, status)
  <1> DEFINE n == Len(q)
  <1>1. PICK r : r = Tail(q)
    OBVIOUS
  <1>2. /\ DOMAIN r = 1..n - 1 /\ DOMAIN q = 1..n /\ n \in Nat /\ n > 0
        /\ (\A i \in 1..n - 1 : r[i] = q[i + 1]) /\ Head(q) = q[1]
    BY <1>1, TailIs
  <1> HIDE DEF n
  <1>3. CASE (\A i \in DOMAIN q : ~About(q[i], d, u)) /\ last = status
    BY <1>1, <1>2, <1>3 DEF HearsLast
  <1>4. CASE \E i \in DOMAIN q : /\ About(q[i], d, u) /\ q[i].status = status
                                 /\ \A j \in DOMAIN q : j > i => ~About(q[j], d, u)
    <2>1. PICK i \in 1..n : /\ About(q[i], d, u) /\ q[i].status = status
                            /\ \A j \in 1..n : j > i => ~About(q[j], d, u)
      BY <1>2, <1>4
    <2>2. \A j \in 1..n - 1 : j + 1 \in 1..n
      BY <1>2
    <2>3. CASE i = 1
      BY <1>1, <1>2, <2>1, <2>3 DEF HearsLast
    <2>4. CASE i # 1
      <3>1. i - 1 \in 1..n - 1 /\ (i - 1) + 1 = i
        BY <1>2, <2>4
      <3>2. i - 1 \in DOMAIN r /\ About(r[i - 1], d, u) /\ r[i - 1].status = status
        BY <1>2, <2>1, <3>1
      <3>3. \A j \in DOMAIN r : j > i - 1 => ~About(r[j], d, u)
        BY <1>2, <2>1
      <3>4. \A any : HearsLast(r, any, d, u, status)
        BY <3>2, <3>3 DEF HearsLast
      <3> QED BY <1>1, <3>4
    <2> QED BY <2>3, <2>4
  <1> QED BY <1>3, <1>4 DEF HearsLast

\* A task that closes stays in its queue until it is the first.
LEMMA ClosesAppended ==
  ASSUME NEW q \in Seq(TaskTypes), NEW t \in TaskTypes, NEW d
  PROVE  /\ Closes(q, d) => Closes(Append(q, t), d)
         /\ t.to = d /\ t.status = "close" => Closes(Append(q, t), d)
  <1> DEFINE n == Len(q)
  <1>1. PICK r : r = Append(q, t)
    OBVIOUS
  <1>2. DOMAIN r = 1..n + 1 /\ DOMAIN q = 1..n /\ n \in Nat /\ (\A i \in 1..n : r[i] = q[i]) /\ r[n + 1] = t
    BY <1>1, AppendedAre
  <1> HIDE DEF n
  <1>3. ASSUME Closes(q, d) PROVE Closes(r, d)
    BY <1>2, <1>3 DEF Closes
  <1>4. ASSUME t.to = d, t.status = "close" PROVE Closes(r, d)
    BY <1>2, <1>4 DEF Closes
  <1> QED BY <1>1, <1>3, <1>4

LEMMA ClosesTail ==
  ASSUME NEW q \in Seq(TaskTypes), q # <<>>, NEW d, Closes(q, d)
  PROVE  (Head(q).to = d /\ Head(q).status = "close") \/ Closes(Tail(q), d)
  <1> DEFINE n == Len(q)
  <1>1. PICK r : r = Tail(q)
    OBVIOUS
  <1>2. /\ DOMAIN r = 1..n - 1 /\ DOMAIN q = 1..n /\ n \in Nat /\ n > 0
        /\ (\A i \in 1..n - 1 : r[i] = q[i + 1]) /\ Head(q) = q[1]
    BY <1>1, TailIs
  <1> HIDE DEF n
  <1>3. PICK i \in 1..n : q[i].to = d /\ q[i].status = "close"
    BY <1>2 DEF Closes
  <1>4. CASE i = 1
    BY <1>2, <1>3, <1>4
  <1>5. CASE i # 1
    <2>1. i - 1 \in 1..n - 1 /\ (i - 1) + 1 = i
      BY <1>2, <1>5
    <2>2. i - 1 \in DOMAIN r /\ r[i - 1].to = d /\ r[i - 1].status = "close"
      BY <1>2, <1>3, <2>1
    <2> QED BY <1>1, <2>2 DEF Closes
  <1> QED BY <1>4, <1>5

\* The cached objects.
LEMMA ObjectIs ==
  /\ NoObject.SocketId = NoSocket /\ NoObject.UserStatus = "none"
  /\ NewObject.SocketId = NoSocket /\ NewObject.UserStatus = "Offline" /\ NewObject # NoObject
  /\ NoObject \in Objects /\ NewObject \in Objects
  /\ \A o \in Objects : o.SocketId \in Loops \cup {NoSocket} /\ o.UserStatus \in {"Online", "Offline", "none"}
  /\ \A o \in Objects : o = NoObject <=> o.UserStatus = "none"
  /\ \A o \in Objects : o.SocketId = NoSocket /\ o.UserStatus = "Offline" => o = NewObject
  /\ \A o \in Objects : \A s \in Loops : o = [SocketId |-> s, UserStatus |-> "Online"] <=> o.SocketId = s /\ o.UserStatus = "Online"
  BY DEF NoObject, NewObject, Objects

(***************************************************************************)
(* What each step of a handler does.                                       *)
(***************************************************************************)
LEMMA UserIs ==
  ASSUME PresenceInv, NEW l \in Loops, At(l) # 0
  PROVE  /\ handler[l].connection \in DOMAIN owner /\ handler[l].connection \in Connections
         /\ User(l) \in Users
  <1>1. handler[l].connection \in DOMAIN owner
    BY DEF PresenceInv, HandlerOK
  <1>2. owner \in Seq(Users)
    BY DEF PresenceInv, PresenceTypes
  <1>3. User(l) \in Users
    BY <1>1, <1>2 DEF User
  <1>4. DOMAIN owner \subseteq Connections
    BY DomainIs DEF PresenceInv
  <1> QED BY <1>1, <1>3, <1>4

LEMMA HandlerChanges ==
  ASSUME PresenceTypes, NEW l \in Loops, NEW h \in Handlers, handler' = [handler EXCEPT ![l] = h]
  PROVE  handler' \in [Loops -> Handlers] /\ handler'[l] = h /\ \A k \in Loops \ {l} : handler'[k] = handler[k]
  BY DEF PresenceTypes

\* A step of the handler of l that is not its first or last.
Talks(l) ==
    /\ owner' = owner /\ accepted' = accepted /\ conn' = conn /\ UserIdToWebSocketPtrMap' = UserIdToWebSocketPtrMap
    /\ listening' = listening /\ ended' = ended /\ stop' = stop /\ told' = told /\ overlapped' = overlapped /\ late' = late
    /\ At(l) \in 2..9
    /\ pc' \in [Threads -> HandlerPlaces] /\ Rank(pc'[l]) \in 3..9 /\ Kind(pc'[l]) = Kind(pc[l])
    /\ \A k \in Loops \ {l} : pc'[k] = pc[k]
    /\ handler' \in [Loops -> Handlers]
    /\ handler'[l].connection = handler[l].connection /\ handler'[l].status = handler[l].status
    /\ \A k \in Loops \ {l} : handler'[k] = handler[k]

LEMMA LookUpIs ==
  ASSUME PresenceInv, NEW l \in Loops, LookUp(l)
  PROVE  /\ Talks(l) /\ At(l) = 2
         /\ objects' = objects /\ tasks' = tasks /\ listed' = listed /\ owed' = owed /\ torn' = torn /\ unheard' = unheard
         /\ objects[User(l)] # NoObject => Rank(pc'[l]) = 4 /\ handler'[l].mine = TRUE
         /\ objects[User(l)] = NoObject => Rank(pc'[l]) = 3 /\ handler'[l].mine = FALSE
         /\ handler'[l].left = handler[l].left /\ handler'[l].missing = handler[l].missing /\ handler'[l].aim = handler[l].aim
  <1> DEFINE found == objects[User(l)] # NoObject
  <1>0. PresenceTypes
    BY DEF PresenceInv
  <1>1. AtStep(l, "lookUp") /\ handler' = [handler EXCEPT ![l].mine = found] /\ AdvanceOver(l, found)
    BY DEF LookUp
  <1>2. /\ owner' = owner /\ accepted' = accepted /\ conn' = conn /\ UserIdToWebSocketPtrMap' = UserIdToWebSocketPtrMap
        /\ listening' = listening /\ ended' = ended /\ stop' = stop /\ told' = told /\ overlapped' = overlapped /\ late' = late
        /\ objects' = objects /\ tasks' = tasks /\ listed' = listed /\ owed' = owed /\ torn' = torn /\ unheard' = unheard
    BY DEF LookUp, sockets, presenceHistory
  <1>3. At(l) = 2
    BY <1>0, <1>1, StepIs
  <1>4. (found => Moved(l, 4)) /\ (~found => Moved(l, 3))
    <2>1. PICK b : b = found
      OBVIOUS
    <2>2. AdvanceOver(l, b)
      BY <1>1, <2>1
    <2>3. (b => Moved(l, At(l) + 2)) /\ (~b => Moved(l, At(l) + 1))
      BY <1>0, <1>3, <2>2, AdvanceOverIs
    <2>4. At(l) + 2 = 4 /\ At(l) + 1 = 3
      BY <1>3
    <2> QED BY <2>1, <2>3, <2>4
  <1>5. PICK b \in BOOLEAN : b = found
    OBVIOUS
  <1>6. handler[l] \in Handlers
    BY <1>0 DEF PresenceTypes
  <1>7. PICK h \in Handlers : h = [handler[l] EXCEPT !.mine = b]
    BY <1>6 DEF Handlers
  <1>8. handler' = [handler EXCEPT ![l] = h]
    BY <1>1, <1>5, <1>7
  <1>9. handler' \in [Loops -> Handlers] /\ handler'[l] = h /\ \A k \in Loops \ {l} : handler'[k] = handler[k]
    BY <1>0, <1>8, HandlerChanges
  <1>10. /\ h.connection = handler[l].connection /\ h.status = handler[l].status /\ h.mine = b
         /\ h.left = handler[l].left /\ h.missing = handler[l].missing /\ h.aim = handler[l].aim
    BY <1>6, <1>7 DEF Handlers
  <1>11. (found => handler'[l].mine = TRUE) /\ (~found => handler'[l].mine = FALSE)
    BY <1>5, <1>9, <1>10
  <1>12. pc' \in [Threads -> HandlerPlaces] /\ Rank(pc'[l]) \in 3..9 /\ Kind(pc'[l]) = Kind(pc[l])
         /\ \A k \in Loops \ {l} : pc'[k] = pc[k]
    BY <1>4 DEF Moved
  <1>13. Talks(l)
    BY <1>2, <1>3, <1>9, <1>10, <1>12 DEF Talks
  <1> QED BY <1>2, <1>3, <1>4, <1>9, <1>10, <1>11, <1>13 DEF Moved

LEMMA ObjectChanges ==
  ASSUME PresenceTypes, NEW u \in Users, NEW o \in Objects, objects' = [objects EXCEPT ![u] = o]
  PROVE  objects' \in [Users -> Objects] /\ objects'[u] = o /\ \A w \in Users \ {u} : objects'[w] = objects[w]
  BY DEF PresenceTypes

LEMMA EmplaceSelfIs ==
  ASSUME PresenceInv, NEW l \in Loops, EmplaceSelf(l)
  PROVE  /\ Talks(l) /\ At(l) = 3 /\ Rank(pc'[l]) = 4
         /\ tasks' = tasks /\ listed' = listed /\ owed' = owed /\ unheard' = unheard
         /\ objects' \in [Users -> Objects] /\ \A w \in Users \ {User(l)} : objects'[w] = objects[w]
         /\ \/ /\ objects[User(l)] = NoObject /\ objects'[User(l)] = NewObject
               /\ handler'[l].mine = TRUE /\ torn' = torn
            \/ objects' = objects /\ handler'[l].mine = handler[l].mine /\ torn' = torn \cup {User(l)}
         /\ handler'[l].left = handler[l].left /\ handler'[l].missing = handler[l].missing /\ handler'[l].aim = handler[l].aim
  <1>0. PresenceTypes
    BY DEF PresenceInv
  <1>1. AtStep(l, "emplace") /\ Advance(l)
    BY DEF EmplaceSelf
  <1>2. /\ owner' = owner /\ accepted' = accepted /\ conn' = conn /\ UserIdToWebSocketPtrMap' = UserIdToWebSocketPtrMap
        /\ listening' = listening /\ ended' = ended /\ stop' = stop /\ told' = told /\ overlapped' = overlapped /\ late' = late
        /\ tasks' = tasks /\ listed' = listed /\ owed' = owed /\ unheard' = unheard
    BY DEF EmplaceSelf, sockets
  <1>3. At(l) = 3
    BY <1>0, <1>1, StepIs
  <1>4. Moved(l, 4)
    BY <1>0, <1>1, <1>3, AdvanceIs
  <1>5. handler[l] \in Handlers /\ User(l) \in Users
    BY <1>0, <1>3, UserIs DEF PresenceTypes
  <1>6. \/ /\ objects[User(l)] = NoObject
           /\ objects' = [objects EXCEPT ![User(l)] = NewObject]
           /\ handler' = [handler EXCEPT ![l].mine = TRUE]
           /\ torn' = torn
        \/ torn' = torn \cup {User(l)} /\ objects' = objects /\ handler' = handler
    BY DEF EmplaceSelf
  <1>7. pc' \in [Threads -> HandlerPlaces] /\ Rank(pc'[l]) \in 3..9 /\ Kind(pc'[l]) = Kind(pc[l])
        /\ \A k \in Loops \ {l} : pc'[k] = pc[k]
    BY <1>4 DEF Moved
  <1>8. CASE /\ objects[User(l)] = NoObject
             /\ objects' = [objects EXCEPT ![User(l)] = NewObject]
             /\ handler' = [handler EXCEPT ![l].mine = TRUE]
             /\ torn' = torn
    <2>1. PICK h \in Handlers : h = [handler[l] EXCEPT !.mine = TRUE]
      BY <1>5 DEF Handlers
    <2>2. handler' = [handler EXCEPT ![l] = h]
      BY <1>8, <2>1
    <2>3. handler' \in [Loops -> Handlers] /\ handler'[l] = h /\ \A k \in Loops \ {l} : handler'[k] = handler[k]
      BY <1>0, <2>2, HandlerChanges
    <2>4. /\ h.connection = handler[l].connection /\ h.status = handler[l].status /\ h.mine = TRUE
          /\ h.left = handler[l].left /\ h.missing = handler[l].missing /\ h.aim = handler[l].aim
      BY <1>5, <2>1 DEF Handlers
    <2>5. objects' \in [Users -> Objects] /\ objects'[User(l)] = NewObject /\ \A w \in Users \ {User(l)} : objects'[w] = objects[w]
      BY <1>0, <1>5, <1>8, ObjectIs, ObjectChanges
    <2>6. Talks(l)
      BY <1>2, <1>3, <1>7, <2>3, <2>4 DEF Talks
    <2> QED BY <1>2, <1>3, <1>4, <1>8, <2>3, <2>4, <2>5, <2>6 DEF Moved
  <1>9. CASE torn' = torn \cup {User(l)} /\ objects' = objects /\ handler' = handler
    BY <1>0, <1>2, <1>3, <1>4, <1>7, <1>9 DEF PresenceTypes, Talks, Moved
  <1> QED BY <1>6, <1>8, <1>9

LEMMA SetSocketIdIs ==
  ASSUME PresenceInv, NEW l \in Loops, SetSocketId(l)
  PROVE  /\ Talks(l) /\ At(l) = 4 /\ Rank(pc'[l]) = 5 /\ handler' = handler
         /\ tasks' = tasks /\ listed' = listed /\ owed' = owed /\ unheard' = unheard /\ torn' = torn
         /\ objects' \in [Users -> Objects] /\ \A w \in Users \ {User(l)} : objects'[w] = objects[w]
         /\ ~handler[l].mine => objects' = objects
         /\ handler[l].mine => /\ objects'[User(l)].UserStatus = objects[User(l)].UserStatus
                               /\ Opening(l) => objects'[User(l)].SocketId = l
                               /\ Closing(l) => objects'[User(l)].SocketId = NoSocket
  <1> DEFINE socket == IF Op(l) = "open" THEN l ELSE NoSocket
  <1>0. PresenceTypes
    BY DEF PresenceInv
  <1>1. /\ AtStep(l, "setSocketId") /\ Advance(l) /\ handler' = handler
        /\ objects' = IF handler[l].mine THEN [objects EXCEPT ![User(l)].SocketId = socket] ELSE objects
    BY DEF SetSocketId
  <1>2. /\ owner' = owner /\ accepted' = accepted /\ conn' = conn /\ UserIdToWebSocketPtrMap' = UserIdToWebSocketPtrMap
        /\ listening' = listening /\ ended' = ended /\ stop' = stop /\ told' = told /\ overlapped' = overlapped /\ late' = late
        /\ tasks' = tasks /\ listed' = listed /\ owed' = owed /\ unheard' = unheard /\ torn' = torn
    BY DEF SetSocketId, sockets, presenceHistory
  <1>3. At(l) = 4
    BY <1>0, <1>1, StepIs
  <1>4. Moved(l, 5)
    BY <1>0, <1>1, <1>3, AdvanceIs
  <1>5. User(l) \in Users /\ handler' \in [Loops -> Handlers]
    BY <1>0, <1>1, <1>3, UserIs DEF PresenceTypes
  <1>6. Talks(l)
    BY <1>1, <1>2, <1>3, <1>4, <1>5 DEF Talks, Moved
  <1>7. CASE ~handler[l].mine
    BY <1>0, <1>1, <1>2, <1>3, <1>4, <1>6, <1>7 DEF PresenceTypes, Moved
  <1>8. CASE handler[l].mine
    <2>1. objects[User(l)] # NoObject
      BY <1>3, <1>8 DEF PresenceInv, HandlerOK
    <2>2. PICK s \in Loops \cup {NoSocket} : s = socket
      OBVIOUS
    <2>3. objects[User(l)] \in [SocketId : Loops \cup {NoSocket}, UserStatus : {"Online", "Offline"}]
      BY <1>0, <1>5, <2>1 DEF PresenceTypes, Objects
    <2>4. PICK o : o = [objects[User(l)] EXCEPT !.SocketId = s]
      OBVIOUS
    <2>5. o \in [SocketId : Loops \cup {NoSocket}, UserStatus : {"Online", "Offline"}] /\ o.SocketId = s
          /\ o.UserStatus = objects[User(l)].UserStatus
      BY <2>3, <2>4
    <2>6. o \in Objects
      BY <2>5 DEF Objects
    <2>7. objects' = [objects EXCEPT ![User(l)] = o]
      BY <1>1, <1>8, <2>2, <2>4
    <2>8. objects' \in [Users -> Objects] /\ objects'[User(l)] = o /\ \A w \in Users \ {User(l)} : objects'[w] = objects[w]
      BY <1>0, <1>5, <2>6, <2>7, ObjectChanges
    <2>9. (Opening(l) => s = l) /\ (Closing(l) => s = NoSocket)
      BY <1>0, <2>2, BusyIs
    <2> QED BY <1>1, <1>2, <1>3, <1>4, <1>6, <1>8, <2>5, <2>8, <2>9 DEF Moved
  <1> QED BY <1>7, <1>8

LEMMA SetUserStatusIs ==
  ASSUME PresenceInv, NEW l \in Loops, SetUserStatus(l)
  PROVE  /\ Talks(l) /\ At(l) = 5 /\ Rank(pc'[l]) = 6 /\ handler' = handler
         /\ tasks' = tasks /\ listed' = listed /\ unheard' = unheard
         /\ objects' \in [Users -> Objects] /\ \A w \in Users \ {User(l)} : objects'[w] = objects[w]
         /\ ~handler[l].mine => objects' = objects /\ torn' = torn
         /\ handler[l].mine => /\ objects'[User(l)].SocketId = objects[User(l)].SocketId
                               /\ objects'[User(l)].UserStatus = handler[l].status
                               /\ torn' = torn \ {User(l)}
         /\ owed' = owed \cup {<<d, User(l)>> : d \in {d \in DOMAIN owner : owner[d] # User(l) /\ Reachable(d)}}
  <1>0. PresenceTypes
    BY DEF PresenceInv
  <1>1. /\ AtStep(l, "setUserStatus") /\ Advance(l) /\ handler' = handler
        /\ objects' = IF handler[l].mine THEN [objects EXCEPT ![User(l)].UserStatus = handler[l].status] ELSE objects
        /\ torn' = IF handler[l].mine THEN torn \ {User(l)} ELSE torn
        /\ owed' = owed \cup {<<d, User(l)>> : d \in {d \in DOMAIN owner : owner[d] # User(l) /\ Reachable(d)}}
    BY DEF SetUserStatus
  <1>2. /\ owner' = owner /\ accepted' = accepted /\ conn' = conn /\ UserIdToWebSocketPtrMap' = UserIdToWebSocketPtrMap
        /\ listening' = listening /\ ended' = ended /\ stop' = stop /\ told' = told /\ overlapped' = overlapped /\ late' = late
        /\ tasks' = tasks /\ listed' = listed /\ unheard' = unheard
    BY DEF SetUserStatus, sockets
  <1>3. At(l) = 5
    BY <1>0, <1>1, StepIs
  <1>4. Moved(l, 6)
    BY <1>0, <1>1, <1>3, AdvanceIs
  <1>5. User(l) \in Users /\ handler' \in [Loops -> Handlers]
    BY <1>0, <1>1, <1>3, UserIs DEF PresenceTypes
  <1>6. Talks(l)
    BY <1>1, <1>2, <1>3, <1>4, <1>5 DEF Talks, Moved
  <1>7. Rank(pc'[l]) = 6
    BY <1>4 DEF Moved
  <1>8. CASE ~handler[l].mine
    BY <1>0, <1>1, <1>2, <1>3, <1>6, <1>7, <1>8 DEF PresenceTypes
  <1>9. CASE handler[l].mine
    <2>1. objects[User(l)] # NoObject
      BY <1>3, <1>9 DEF PresenceInv, HandlerOK
    <2>2. PICK s \in Statuses : s = handler[l].status
      BY <1>0 DEF PresenceTypes, Handlers
    <2>3. objects[User(l)] \in [SocketId : Loops \cup {NoSocket}, UserStatus : {"Online", "Offline"}]
      BY <1>0, <1>5, <2>1 DEF PresenceTypes, Objects
    <2>4. PICK o : o = [objects[User(l)] EXCEPT !.UserStatus = s]
      OBVIOUS
    <2>5. o \in [SocketId : Loops \cup {NoSocket}, UserStatus : {"Online", "Offline"}] /\ o.UserStatus = s
          /\ o.SocketId = objects[User(l)].SocketId
      BY <2>3, <2>4 DEF Statuses
    <2>6. o \in Objects
      BY <2>5 DEF Objects
    <2>7. objects' = [objects EXCEPT ![User(l)] = o]
      BY <1>1, <1>9, <2>2, <2>4
    <2>8. objects' \in [Users -> Objects] /\ objects'[User(l)] = o /\ \A w \in Users \ {User(l)} : objects'[w] = objects[w]
      BY <1>0, <1>5, <2>6, <2>7, ObjectChanges
    <2>9. torn' = torn \ {User(l)}
      BY <1>1, <1>9
    <2> QED BY <1>1, <1>2, <1>3, <1>6, <1>7, <1>9, <2>2, <2>5, <2>8, <2>9, Zenon
  <1> QED BY <1>8, <1>9

LEMMA NoHandlerIs == NoHandler \in Handlers
  BY LoopsAre DEF Aims, NoHandler, Handlers, Statuses

LEMMA LookUpFriendsIs ==
  ASSUME PresenceInv, NEW l \in Loops, LookUpFriends(l)
  PROVE  /\ Talks(l) /\ At(l) = 6 /\ Rank(pc'[l]) \in {7, 8}
         /\ objects' = objects /\ tasks' = tasks /\ torn' = torn /\ listed' \in [Users -> Listings] /\ unheard' \subseteq Users
         /\ \/ /\ handler'[l].left = Users \ {User(l)}
               /\ handler'[l].missing = {w \in Users \ {User(l)} : objects[w] = NoObject}
               /\ owed' = owed /\ unheard' = unheard \ {User(l)}
            \/ /\ handler' = handler
               /\ owed' = {o \in owed : o[2] # User(l)} /\ unheard' = unheard \cup {User(l)}
         /\ handler'[l].mine = handler[l].mine /\ handler'[l].aim = handler[l].aim
  <1> DEFINE friends == Users \ {User(l)}
             missing == {w \in friends : objects[w] = NoObject}
  <1>0. PresenceTypes
    BY DEF PresenceInv
  <1>1. AtStep(l, "lookUpFriends")
    BY DEF LookUpFriends
  <1>2. /\ owner' = owner /\ accepted' = accepted /\ conn' = conn /\ UserIdToWebSocketPtrMap' = UserIdToWebSocketPtrMap
        /\ listening' = listening /\ ended' = ended /\ stop' = stop /\ told' = told /\ overlapped' = overlapped /\ late' = late
        /\ tasks' = tasks /\ objects' = objects /\ torn' = torn
    BY DEF LookUpFriends, sockets
  <1>3. At(l) = 6
    BY <1>0, <1>1, StepIs
  <1>4. \/ /\ handler' = [handler EXCEPT ![l].left = friends, ![l].missing = missing]
           /\ AdvanceOver(l, missing = {})
           /\ listed' = [listed EXCEPT ![User(l)] = "friends"] /\ unheard' = unheard \ {User(l)} /\ owed' = owed
        \/ /\ AdvanceOver(l, TRUE)
           /\ unheard' = unheard \cup {User(l)} /\ owed' = {o \in owed : o[2] # User(l)}
           /\ (listed' = listed \/ \E cached \in Listings : listed' = [listed EXCEPT ![User(l)] = cached])
           /\ handler' = handler
    BY DEF LookUpFriends, Listings
  <1>5. handler[l] \in Handlers /\ User(l) \in Users
    BY <1>0, <1>3, UserIs DEF PresenceTypes
  <1>6. pc' \in [Threads -> HandlerPlaces] /\ Rank(pc'[l]) \in {7, 8} /\ Kind(pc'[l]) = Kind(pc[l])
        /\ \A k \in Loops \ {l} : pc'[k] = pc[k]
    <2>1. PICK b : AdvanceOver(l, b)
      BY <1>4
    <2>2. (b => Moved(l, At(l) + 2)) /\ (~b => Moved(l, At(l) + 1))
      BY <1>0, <1>3, <2>1, AdvanceOverIs
    <2>3. At(l) + 2 = 8 /\ At(l) + 1 = 7
      BY <1>3
    <2>4. Moved(l, 8) \/ Moved(l, 7)
      BY <2>2, <2>3
    <2> QED BY <2>4 DEF Moved
  <1>7. listed' \in [Users -> Listings] /\ unheard' \subseteq Users
    <2>1. listed' = listed \/ \E cached \in Listings : listed' = [listed EXCEPT ![User(l)] = cached]
      BY <1>4 DEF Listings
    <2>2. listed' \in [Users -> Listings]
      BY <1>0, <2>1 DEF PresenceTypes
    <2> QED BY <1>0, <1>4, <1>5, <2>2 DEF PresenceTypes
  <1>8. CASE /\ handler' = [handler EXCEPT ![l].left = friends, ![l].missing = missing]
             /\ unheard' = unheard \ {User(l)} /\ owed' = owed
    <2>1. PICK f \in SUBSET Users, m \in SUBSET Users : f = friends /\ m = missing
      OBVIOUS
    <2>2. PICK h \in Handlers : h = [handler[l] EXCEPT !.left = f, !.missing = m]
      BY <1>5 DEF Handlers
    <2>3. handler' = [handler EXCEPT ![l] = h]
      BY <1>8, <2>1, <2>2
    <2>4. handler' \in [Loops -> Handlers] /\ handler'[l] = h /\ \A k \in Loops \ {l} : handler'[k] = handler[k]
      BY <1>0, <2>3, HandlerChanges
    <2>5. /\ h.connection = handler[l].connection /\ h.status = handler[l].status /\ h.mine = handler[l].mine
          /\ h.left = f /\ h.missing = m /\ h.aim = handler[l].aim
      BY <1>5, <2>2 DEF Handlers
    <2>6. Talks(l)
      BY <1>2, <1>3, <1>6, <2>4, <2>5 DEF Talks
    <2> QED BY <1>2, <1>3, <1>6, <1>7, <1>8, <2>1, <2>4, <2>5, <2>6, Zenon
  <1>9. CASE /\ handler' = handler
             /\ unheard' = unheard \cup {User(l)} /\ owed' = {o \in owed : o[2] # User(l)}
    BY <1>0, <1>2, <1>3, <1>6, <1>7, <1>9 DEF PresenceTypes, Talks
  <1> QED BY <1>4, <1>8, <1>9

LEMMA EmplaceFriendsIs ==
  ASSUME PresenceInv, NEW l \in Loops, EmplaceFriends(l)
  PROVE  /\ Talks(l) /\ At(l) = 7 /\ Rank(pc'[l]) = 8
         /\ tasks' = tasks /\ listed' = listed /\ owed' = owed /\ unheard' = unheard /\ torn' = torn
         /\ objects' \in [Users -> Objects]
         /\ \A w \in Users : objects'[w] = objects[w] \/ (objects[w] = NoObject /\ objects'[w] = NewObject)
         /\ handler'[l].mine = handler[l].mine /\ handler'[l].aim = handler[l].aim
         /\ handler'[l].missing = {} /\ handler'[l].left \subseteq handler[l].left
         /\ handler[l].left \ handler[l].missing \subseteq handler'[l].left
  <1> DEFINE gone == handler[l].missing
             fresh == {w \in gone : objects[w] = NoObject}
  <1>0. PresenceTypes
    BY DEF PresenceInv
  <1>1. AtStep(l, "emplaceFriends") /\ Advance(l)
    BY DEF EmplaceFriends
  <1>2. /\ owner' = owner /\ accepted' = accepted /\ conn' = conn /\ UserIdToWebSocketPtrMap' = UserIdToWebSocketPtrMap
        /\ listening' = listening /\ ended' = ended /\ stop' = stop /\ told' = told /\ overlapped' = overlapped /\ late' = late
        /\ tasks' = tasks /\ listed' = listed /\ owed' = owed /\ unheard' = unheard /\ torn' = torn
    BY DEF EmplaceFriends, sockets, presenceHistory
  <1>3. At(l) = 7
    BY <1>0, <1>1, StepIs
  <1>4. Moved(l, 8)
    BY <1>0, <1>1, <1>3, AdvanceIs
  <1>5. handler[l] \in Handlers
    BY <1>0 DEF PresenceTypes
  <1>6. PICK less \in SUBSET gone : handler' = [handler EXCEPT ![l].left = @ \ less, ![l].missing = {}]
    BY DEF EmplaceFriends
  <1>7. PICK f \in SUBSET Users : f = handler[l].left \ less
    BY <1>5 DEF Handlers
  <1>8. PICK h \in Handlers : h = [handler[l] EXCEPT !.left = f, !.missing = {}]
    BY <1>5 DEF Handlers
  <1>9. handler' = [handler EXCEPT ![l] = h]
    BY <1>0, <1>6, <1>7, <1>8 DEF PresenceTypes
  <1>10. handler' \in [Loops -> Handlers] /\ handler'[l] = h /\ \A k \in Loops \ {l} : handler'[k] = handler[k]
    BY <1>0, <1>9, HandlerChanges
  <1>11. /\ h.connection = handler[l].connection /\ h.status = handler[l].status /\ h.mine = handler[l].mine
         /\ h.left = f /\ h.missing = {} /\ h.aim = handler[l].aim
    BY <1>5, <1>8 DEF Handlers
  <1>12. /\ objects' \in [Users -> Objects]
         /\ \A w \in Users : objects'[w] = objects[w] \/ (objects[w] = NoObject /\ objects'[w] = NewObject)
    <2>1. objects' = [w \in Users |-> IF w \in fresh THEN NewObject ELSE objects[w]] \/ objects' = objects
      BY DEF EmplaceFriends
    <2>2. objects \in [Users -> Objects]
      BY <1>0 DEF PresenceTypes
    <2>3. CASE objects' = objects
      BY <2>2, <2>3
    <2>4. CASE objects' = [w \in Users |-> IF w \in fresh THEN NewObject ELSE objects[w]]
      BY <2>2, <2>4, ObjectIs
    <2> QED BY <2>1, <2>3, <2>4
  <1>13. Talks(l)
    BY <1>2, <1>3, <1>4, <1>10, <1>11 DEF Talks, Moved
  <1>14. handler'[l].left \subseteq handler[l].left /\ handler[l].left \ handler[l].missing \subseteq handler'[l].left
    BY <1>6, <1>7, <1>10, <1>11
  <1>15. Rank(pc'[l]) = 8
    BY <1>4 DEF Moved
  <1> QED BY <1>2, <1>3, <1>10, <1>11, <1>12, <1>13, <1>14, <1>15, Zenon

LEMMA TellIs ==
  ASSUME PresenceInv, NEW l \in Loops, NEW w \in Users, Tell(l, w)
  PROVE  /\ Talks(l) /\ At(l) = 8 /\ w \in handler[l].left
         /\ objects' = objects /\ tasks' = tasks /\ listed' = listed /\ owed' = owed /\ torn' = torn /\ unheard' = unheard
         /\ handler'[l].left = handler[l].left \ {w} /\ handler'[l].missing = handler[l].missing
         /\ handler'[l].mine = handler[l].mine
         /\ \/ /\ objects[w].UserStatus = "Online" /\ objects[w].SocketId \in Loops
               /\ Rank(pc'[l]) = 9 /\ handler'[l].aim = <<objects[w].SocketId, w>>
            \/ /\ ~(objects[w].UserStatus = "Online" /\ objects[w].SocketId \in Loops)
               /\ Rank(pc'[l]) = 8 /\ handler'[l].aim = handler[l].aim
  <1>0. PresenceTypes
    BY DEF PresenceInv
  <1>1. AtStep(l, "tell") /\ w \in handler[l].left
    BY DEF Tell
  <1>2. /\ owner' = owner /\ accepted' = accepted /\ conn' = conn /\ UserIdToWebSocketPtrMap' = UserIdToWebSocketPtrMap
        /\ listening' = listening /\ ended' = ended /\ stop' = stop /\ told' = told /\ overlapped' = overlapped /\ late' = late
        /\ objects' = objects /\ tasks' = tasks /\ listed' = listed /\ owed' = owed /\ torn' = torn /\ unheard' = unheard
    BY DEF Tell, sockets, presenceHistory
  <1>3. At(l) = 8
    BY <1>0, <1>1, StepIs
  <1>4. handler[l] \in Handlers
    BY <1>0 DEF PresenceTypes
  <1>5. PICK f \in SUBSET Users : f = handler[l].left \ {w}
    BY <1>4 DEF Handlers
  <1>6. CASE objects[w].UserStatus = "Online" /\ objects[w].SocketId \in Loops
    <2>1. handler' = [handler EXCEPT ![l].left = @ \ {w}, ![l].aim = <<objects[w].SocketId, w>>] /\ Insert(l, <<"defer">>)
      BY <1>6 DEF Tell
    <2>2. PICK a \in Aims : a = <<objects[w].SocketId, w>>
      BY <1>6 DEF Aims
    <2>3. PICK h \in Handlers : h = [handler[l] EXCEPT !.left = f, !.aim = a]
      BY <1>4 DEF Handlers
    <2>4. handler' = [handler EXCEPT ![l] = h]
      BY <1>0, <1>5, <2>1, <2>2, <2>3 DEF PresenceTypes
    <2>5. handler' \in [Loops -> Handlers] /\ handler'[l] = h /\ \A k \in Loops \ {l} : handler'[k] = handler[k]
      BY <1>0, <2>4, HandlerChanges
    <2>6. /\ h.connection = handler[l].connection /\ h.status = handler[l].status /\ h.mine = handler[l].mine
          /\ h.left = f /\ h.missing = handler[l].missing /\ h.aim = a
      BY <1>4, <2>3 DEF Handlers
    <2>7. Moved(l, 9)
      BY <1>0, <1>3, <2>1, InsertIs
    <2>8. Talks(l) /\ Rank(pc'[l]) = 9
      BY <1>2, <1>3, <2>5, <2>6, <2>7 DEF Talks, Moved
    <2> QED BY <1>1, <1>2, <1>3, <1>5, <1>6, <2>2, <2>5, <2>6, <2>8, Zenon
  <1>7. CASE ~(objects[w].UserStatus = "Online" /\ objects[w].SocketId \in Loops)
    <2>1. handler' = [handler EXCEPT ![l].left = @ \ {w}] /\ pc' = pc
      BY <1>7 DEF Tell
    <2>2. PICK h \in Handlers : h = [handler[l] EXCEPT !.left = f]
      BY <1>4 DEF Handlers
    <2>3. handler' = [handler EXCEPT ![l] = h]
      BY <1>0, <1>5, <2>1, <2>2 DEF PresenceTypes
    <2>4. handler' \in [Loops -> Handlers] /\ handler'[l] = h /\ \A k \in Loops \ {l} : handler'[k] = handler[k]
      BY <1>0, <2>3, HandlerChanges
    <2>5. /\ h.connection = handler[l].connection /\ h.status = handler[l].status /\ h.mine = handler[l].mine
          /\ h.left = f /\ h.missing = handler[l].missing /\ h.aim = handler[l].aim
      BY <1>4, <2>2 DEF Handlers
    <2>6. Rank(pc'[l]) = 8 /\ Kind(pc'[l]) = Kind(pc[l]) /\ pc' \in [Threads -> HandlerPlaces] /\ \A k \in Loops \ {l} : pc'[k] = pc[k]
      BY <1>0, <1>3, <2>1 DEF PresenceTypes, At
    <2>7. Talks(l)
      BY <1>2, <1>3, <2>4, <2>5, <2>6 DEF Talks
    <2> QED BY <1>1, <1>2, <1>3, <1>5, <1>7, <2>4, <2>5, <2>6, <2>7, Zenon
  <1> QED BY <1>6, <1>7

\* What a notice or the end deferred to a user's connection at loop to does to the queues.
LEMMA DeferredIs ==
  ASSUME PresenceInv, NEW to \in Loops, NEW u \in Users, NEW task, NEW sent \in TaskTypes,
         sent = [task EXCEPT !.to = Entry(to, u)] \/ Entry(to, u) = NoConnection,
         tasks' = Deferred(to, u, task)
  PROVE  /\ tasks' \in [Loops -> Seq(TaskTypes)]
         /\ \A k \in Loops \ {to} : tasks'[k] = tasks[k]
         /\ Entry(to, u) = NoConnection => tasks' = tasks
         /\ Entry(to, u) # NoConnection => tasks'[to] = Append(tasks[to], sent)
  <1>1. tasks \in [Loops -> Seq(TaskTypes)]
    BY DEF PresenceInv, PresenceTypes, TaskTypes
  <1>2. CASE Entry(to, u) = NoConnection
    BY <1>1, <1>2 DEF Deferred
  <1>3. CASE Entry(to, u) # NoConnection
    <2>1. tasks' = [tasks EXCEPT ![to] = Append(@, sent)]
      BY <1>3 DEF Deferred
    <2>2. PICK q \in Seq(TaskTypes) : q = Append(tasks[to], sent)
      BY <1>1, AppendedAre
    <2>3. tasks' = [tasks EXCEPT ![to] = q]
      BY <1>1, <2>1, <2>2
    <2> HIDE DEF TaskTypes
    <2>4. tasks' \in [Loops -> Seq(TaskTypes)] /\ tasks'[to] = q /\ \A k \in Loops \ {to} : tasks'[k] = tasks[k]
      BY <1>1, <2>3
    <2> QED BY <1>3, <2>2, <2>4
  <1> QED BY <1>2, <1>3

LEMMA DeferIs ==
  ASSUME PresenceInv, NEW l \in Loops, Defer(l)
  PROVE  \E to \in Loops, u \in Users :
         /\ Talks(l) /\ At(l) = 9 /\ Rank(pc'[l]) = 8
         /\ objects' = objects /\ listed' = listed /\ owed' = owed /\ torn' = torn /\ unheard' = unheard
         /\ handler'[l].left = handler[l].left /\ handler'[l].missing = handler[l].missing /\ handler'[l].mine = handler[l].mine
         /\ handler[l].aim = <<to, u>> /\ u # User(l)
         /\ tasks' \in [Loops -> Seq(TaskTypes)]
         /\ \A k \in Loops \ {to} : tasks'[k] = tasks[k]
         /\ Entry(to, u) = NoConnection => tasks' = tasks
         /\ Entry(to, u) # NoConnection =>
                \E sent \in Notices : /\ sent.to = Entry(to, u) /\ sent.about = <<User(l)>> /\ sent.status = handler[l].status
                                      /\ tasks'[to] = Append(tasks[to], sent)
  <1>0. PresenceTypes
    BY DEF PresenceInv
  <1>1. /\ AtStep(l, "defer") /\ Advance(l)
        /\ tasks' = Deferred(handler[l].aim[1], handler[l].aim[2], Notice(User(l), handler[l].status))
        /\ handler' = [handler EXCEPT ![l].aim = <<>>]
    BY DEF Defer
  <1>2. /\ owner' = owner /\ accepted' = accepted /\ conn' = conn /\ UserIdToWebSocketPtrMap' = UserIdToWebSocketPtrMap
        /\ listening' = listening /\ ended' = ended /\ stop' = stop /\ told' = told /\ overlapped' = overlapped /\ late' = late
        /\ objects' = objects /\ listed' = listed /\ owed' = owed /\ torn' = torn /\ unheard' = unheard
    BY DEF Defer, presenceHistory
  <1>3. At(l) = 9
    BY <1>0, <1>1, StepIs
  <1>4. Moved(l, 8)
    BY <1>0, <1>1, <1>3, AdvanceIs
  <1>5. handler[l] \in Handlers /\ User(l) \in Users
    BY <1>0, <1>3, UserIs DEF PresenceTypes
  <1>20. PICK a \in Aims : a = <<>>
    BY NoHandlerIs DEF NoHandler, Handlers
  <1>6. PICK h \in Handlers : h = [handler[l] EXCEPT !.aim = a]
    BY <1>5 DEF Handlers
  <1>7. handler' = [handler EXCEPT ![l] = h]
    BY <1>1, <1>6, <1>20
  <1>8. handler' \in [Loops -> Handlers] /\ handler'[l] = h /\ \A k \in Loops \ {l} : handler'[k] = handler[k]
    BY <1>0, <1>7, HandlerChanges
  <1>9. /\ h.connection = handler[l].connection /\ h.status = handler[l].status /\ h.mine = handler[l].mine
        /\ h.left = handler[l].left /\ h.missing = handler[l].missing
    BY <1>5, <1>6 DEF Handlers
  <1>10. Talks(l) /\ Rank(pc'[l]) = 8
    BY <1>2, <1>3, <1>4, <1>8, <1>9 DEF Talks, Moved
  <1>11. handler[l].aim \in Loops \X Users /\ handler[l].aim[2] # User(l)
    BY <1>3 DEF PresenceInv, HandlerOK
  <1>12. PICK to \in Loops, u \in Users : handler[l].aim = <<to, u>>
    BY <1>11
  <1>13. PICK s \in Statuses : s = handler[l].status
    BY <1>5 DEF Handlers
  <1>14. PICK me \in Users : me = User(l)
    BY <1>5
  <1>15. tasks' = Deferred(to, u, Notice(me, s))
    BY <1>1, <1>12, <1>13, <1>14
  <1>16. u # User(l)
    BY <1>11, <1>12
  <1>17. CASE Entry(to, u) = NoConnection
    BY <1>0, <1>2, <1>3, <1>8, <1>9, <1>10, <1>12, <1>15, <1>16, <1>17 DEF Deferred, PresenceTypes,
       TaskTypes
  <1>18. CASE Entry(to, u) # NoConnection
    <2>1. PICK e \in Connections : e = Entry(to, u)
      BY <1>0, <1>18, DomainIs DEF PresenceInv, SocketsOK
    <2>2. PICK sent \in Notices : sent = [to |-> e, about |-> <<me>>, status |-> s]
      BY DEF Notices
    <2>3. sent = [Notice(me, s) EXCEPT !.to = Entry(to, u)]
      BY <2>1, <2>2 DEF Notice
    <2>4. sent.to = e /\ sent.about = <<me>> /\ sent.status = s
      BY <2>2
    <2>5. sent \in TaskTypes
      BY DEF TaskTypes
    <2>6. /\ tasks' \in [Loops -> Seq(TaskTypes)] /\ (\A k \in Loops \ {to} : tasks'[k] = tasks[k])
          /\ tasks'[to] = Append(tasks[to], sent)
      BY <1>15, <1>18, <2>3, <2>5, DeferredIs
    <2>7. \E t \in Notices : /\ t.to = Entry(to, u) /\ t.about = <<User(l)>> /\ t.status = handler[l].status
                             /\ tasks'[to] = Append(tasks[to], t)
      BY <1>13, <1>14, <2>1, <2>4, <2>6
    <2> QED BY <1>2, <1>3, <1>8, <1>9, <1>10, <1>12, <1>16, <1>18, <2>6, <2>7, Zenon
  <1> QED BY <1>17, <1>18

\* The first step of a handler, which makes e the entry of its user.
FirstStep(l, e) ==
    /\ owner' = owner /\ accepted' = accepted /\ conn' = conn /\ listening' = listening /\ ended' = ended
    /\ objects' = objects /\ listed' = listed /\ tasks' = tasks /\ handler' = handler /\ stop' = stop /\ told' = told
    /\ owed' = owed /\ overlapped' = overlapped /\ torn' = torn /\ unheard' = unheard
    /\ At(l) = 1 /\ Moved(l, 2)
    /\ UserIdToWebSocketPtrMap' \in [Loops -> [Users -> 0..MaxConnections]]
    /\ \A k \in Loops, u \in Users :
           UserIdToWebSocketPtrMap'[k][u] = IF k = l /\ u = User(l) THEN e ELSE UserIdToWebSocketPtrMap[k][u]

LEMMA MapChanges ==
  ASSUME PresenceTypes, NEW l \in Loops, NEW u \in Users, NEW e \in 0..MaxConnections,
         UserIdToWebSocketPtrMap' = [UserIdToWebSocketPtrMap EXCEPT ![l][u] = e]
  PROVE  /\ UserIdToWebSocketPtrMap' \in [Loops -> [Users -> 0..MaxConnections]]
         /\ \A k \in Loops, w \in Users :
                UserIdToWebSocketPtrMap'[k][w] = IF k = l /\ w = u THEN e ELSE UserIdToWebSocketPtrMap[k][w]
  BY DEF PresenceTypes

LEMMA AddSocketIs ==
  ASSUME PresenceInv, NEW l \in Loops, AddSocket(l)
  PROVE  /\ FirstStep(l, handler[l].connection) /\ Opening(l)
         /\ late' \subseteq Connections /\ late \subseteq late'
         /\ (Copied(l) => handler[l].connection \in late')
  <1>0. PresenceTypes
    BY DEF PresenceInv
  <1>1. /\ AtStep(l, "addSocket") /\ Advance(l)
        /\ UserIdToWebSocketPtrMap' = [UserIdToWebSocketPtrMap EXCEPT ![l][User(l)] = handler[l].connection]
    BY DEF AddSocket
  <1>2. /\ owner' = owner /\ accepted' = accepted /\ conn' = conn /\ listening' = listening /\ ended' = ended
        /\ objects' = objects /\ listed' = listed /\ tasks' = tasks /\ handler' = handler /\ stop' = stop /\ told' = told
        /\ owed' = owed /\ overlapped' = overlapped /\ torn' = torn /\ unheard' = unheard
    BY DEF AddSocket
  <1>3. At(l) = 1 /\ Opening(l)
    BY <1>0, <1>1, StepIs
  <1>4. Moved(l, 2)
    BY <1>0, <1>1, <1>3, AdvanceIs
  <1>5. PICK e \in 0..MaxConnections : e = handler[l].connection
    BY <1>0 DEF PresenceTypes, Handlers
  <1>6. PICK u \in Users : u = User(l)
    BY <1>3, UserIs
  <1>7. UserIdToWebSocketPtrMap' = [UserIdToWebSocketPtrMap EXCEPT ![l][u] = e]
    BY <1>1, <1>5, <1>6
  <1>8. /\ UserIdToWebSocketPtrMap' \in [Loops -> [Users -> 0..MaxConnections]]
        /\ \A k \in Loops, w \in Users :
               UserIdToWebSocketPtrMap'[k][w] = IF k = l /\ w = u THEN e ELSE UserIdToWebSocketPtrMap[k][w]
    BY <1>0, <1>7, MapChanges
  <1>9. FirstStep(l, handler[l].connection)
    BY <1>2, <1>3, <1>4, <1>5, <1>6, <1>8 DEF FirstStep
  <1>10. late' = IF Copied(l) THEN late \cup {handler[l].connection} ELSE late
    BY DEF AddSocket
  <1>11. late' \subseteq Connections /\ late \subseteq late' /\ (Copied(l) => handler[l].connection \in late')
    <2>1. late \subseteq Connections
      BY <1>0 DEF PresenceTypes
    <2>2. handler[l].connection \in Connections
      BY <1>3, UserIs
    <2> QED BY <1>10, <2>1, <2>2
  <1> QED BY <1>3, <1>9, <1>11

LEMMA RemoveSocketIs ==
  ASSUME PresenceInv, NEW l \in Loops, RemoveSocket(l)
  PROVE  FirstStep(l, NoConnection) /\ Closing(l) /\ late' = late
  <1>0. PresenceTypes
    BY DEF PresenceInv
  <1>1. /\ AtStep(l, "removeSocket") /\ Advance(l)
        /\ UserIdToWebSocketPtrMap' = [UserIdToWebSocketPtrMap EXCEPT ![l][User(l)] = NoConnection]
    BY DEF RemoveSocket
  <1>2. /\ owner' = owner /\ accepted' = accepted /\ conn' = conn /\ listening' = listening /\ ended' = ended
        /\ objects' = objects /\ listed' = listed /\ tasks' = tasks /\ handler' = handler /\ stop' = stop /\ told' = told
        /\ owed' = owed /\ overlapped' = overlapped /\ torn' = torn /\ unheard' = unheard /\ late' = late
    BY DEF RemoveSocket, presenceHistory
  <1>3. At(l) = 1 /\ Closing(l)
    BY <1>0, <1>1, StepIs
  <1>4. Moved(l, 2)
    BY <1>0, <1>1, <1>3, AdvanceIs
  <1>5. PICK e \in 0..MaxConnections : e = NoConnection
    BY LoopsAre
  <1>6. PICK u \in Users : u = User(l)
    BY <1>3, UserIs
  <1>7. UserIdToWebSocketPtrMap' = [UserIdToWebSocketPtrMap EXCEPT ![l][u] = e]
    BY <1>1, <1>5, <1>6
  <1>8. /\ UserIdToWebSocketPtrMap' \in [Loops -> [Users -> 0..MaxConnections]]
        /\ \A k \in Loops, w \in Users :
               UserIdToWebSocketPtrMap'[k][w] = IF k = l /\ w = u THEN e ELSE UserIdToWebSocketPtrMap[k][w]
    BY <1>0, <1>7, MapChanges
  <1>9. FirstStep(l, NoConnection)
    BY <1>2, <1>3, <1>4, <1>5, <1>6, <1>8 DEF FirstStep
  <1> QED BY <1>2, <1>3, <1>9

LEMMA EndHandlerIs ==
  ASSUME PresenceInv, NEW l \in Loops, EndHandler(l)
  PROVE  /\ owner' = owner /\ accepted' = accepted /\ conn' = conn /\ UserIdToWebSocketPtrMap' = UserIdToWebSocketPtrMap
         /\ listening' = listening /\ ended' = ended /\ objects' = objects /\ listed' = listed /\ tasks' = tasks
         /\ stop' = stop /\ told' = told /\ owed' = owed /\ torn' = torn /\ unheard' = unheard /\ late' = late
         /\ At(l) = 8 /\ handler[l].left = {}
         /\ pc' \in [Threads -> HandlerPlaces] /\ Rank(pc'[l]) = 0 /\ Kind(pc'[l]) = "none"
         /\ \A k \in Loops \ {l} : pc'[k] = pc[k]
         /\ handler' \in [Loops -> Handlers] /\ handler'[l] = NoHandler
         /\ \A k \in Loops \ {l} : handler'[k] = handler[k]
         /\ overlapped' = IF Connected(User(l)) = {} /\ Serving(User(l)) = {l} THEN overlapped \ {User(l)} ELSE overlapped
  BY StepIs, FinishIs, NoHandlerIs, HandlerChanges DEF PresenceInv, EndHandler, sockets

\* A handler begins, about connection d.
FirstIs(l, d, status) ==
    /\ handler' \in [Loops -> Handlers]
    /\ handler'[l].connection = d /\ handler'[l].status = status /\ handler'[l].mine = FALSE
    /\ handler'[l].left = {} /\ handler'[l].missing = {}
    /\ \A k \in Loops \ {l} : handler'[k] = handler[k]

LEMMA HandlerBegins ==
  ASSUME PresenceTypes, NEW l \in Loops, NEW d \in Connections
  PROVE  /\ handler' = [handler EXCEPT ![l] = [NoHandler EXCEPT !.connection = d, !.status = "Online"]] => FirstIs(l, d, "Online")
         /\ handler' = [handler EXCEPT ![l] = [NoHandler EXCEPT !.connection = d]] => FirstIs(l, d, "Offline")
  <1>1. d \in 0..MaxConnections /\ "Online" \in Statuses /\ "Offline" \in Statuses
    BY LoopsAre DEF Statuses
  <1>2. ASSUME handler' = [handler EXCEPT ![l] = [NoHandler EXCEPT !.connection = d, !.status = "Online"]]
        PROVE  FirstIs(l, d, "Online")
    BY <1>1, <1>2, NoHandlerIs, HandlerChanges DEF NoHandler, Handlers, FirstIs
  <1>3. ASSUME handler' = [handler EXCEPT ![l] = [NoHandler EXCEPT !.connection = d]]
        PROVE  FirstIs(l, d, "Offline")
    BY <1>1, <1>3, NoHandlerIs, HandlerChanges DEF NoHandler, Handlers, FirstIs
  <1> QED BY <1>2, <1>3

LEMMA UpgradeIs ==
  ASSUME PresenceInv, NEW l \in Loops, NEW d \in Connections, Upgrade(l, d)
  PROVE  /\ owner' = owner /\ UserIdToWebSocketPtrMap' = UserIdToWebSocketPtrMap /\ tasks' = tasks /\ listening' = listening
         /\ ended' = ended /\ objects' = objects /\ listed' = listed /\ stop' = stop /\ told' = told
         /\ owed' = owed /\ torn' = torn /\ unheard' = unheard /\ late' = late
         /\ accepted[d] = l /\ Begun(l, "open") /\ FirstIs(l, d, "Online")
         /\ accepted' \in [Connections -> Loops \cup {NoSocket}] /\ accepted'[d] = NoSocket
         /\ conn' \in [Connections -> Loops \cup {NoSocket}] /\ conn'[d] = l
         /\ \A e \in Connections \ {d} : accepted'[e] = accepted[e] /\ conn'[e] = conn[e]
         /\ overlapped' = IF Connected(owner[d]) # {} \/ Serving(owner[d]) # {} THEN overlapped \cup {owner[d]} ELSE overlapped
  BY EnterIs, HandlerBegins DEF PresenceInv, Upgrade, PresenceTypes

LEMMA CloseIs ==
  ASSUME PresenceInv, NEW l \in Loops, NEW d \in Connections, Close(l, d)
  PROVE  /\ conn[d] = l /\ Begun(l, "close") /\ FirstIs(l, d, "Offline")
         /\ conn' \in [Connections -> Loops \cup {NoSocket}] /\ conn'[d] = NoSocket
         /\ \A e \in Connections \ {d} : conn'[e] = conn[e]
         /\ told' \in [Connections -> [Users -> Statuses \cup {Unknown}]] /\ \A e \in Connections \ {d} : told'[e] = told[e]
         /\ owed' = {o \in owed : o[1] # d}
  BY EnterIs, HandlerBegins DEF PresenceInv, Close, PresenceTypes

\* The task that a loop runs, and what is left.
LEMMA RunTaskIs ==
  ASSUME PresenceInv, NEW l \in Loops, RunTask(l)
  PROVE  \E task \in TaskTypes, q \in Seq(TaskTypes) :
         /\ owner' = owner /\ accepted' = accepted /\ UserIdToWebSocketPtrMap' = UserIdToWebSocketPtrMap
         /\ listening' = listening /\ ended' = ended /\ objects' = objects /\ listed' = listed /\ stop' = stop
         /\ overlapped' = overlapped /\ torn' = torn /\ unheard' = unheard /\ late' = late
         /\ At(l) = 0 /\ q = tasks[l] /\ q # <<>> /\ task = Head(q) /\ task.to \in Connections
         /\ tasks' \in [Loops -> Seq(TaskTypes)] /\ tasks'[l] = Tail(q) /\ \A k \in Loops \ {l} : tasks'[k] = tasks[k]
         /\ \/ conn[task.to] = l /\ task.status = "close" /\ Close(l, task.to)
            \/ /\ conn[task.to] = l /\ task.status # "close" /\ conn' = conn /\ handler' = handler /\ owed' = owed /\ pc' = pc
               /\ told' = [told EXCEPT ![task.to][task.about[1]] = task.status]
            \/ conn[task.to] # l /\ conn' = conn /\ handler' = handler /\ owed' = owed /\ pc' = pc /\ told' = told
  <1>0. PresenceTypes
    BY DEF PresenceInv
  <1>1. ~Busy(l) /\ tasks[l] # <<>> /\ tasks' = [tasks EXCEPT ![l] = Tail(@)]
    BY DEF RunTask
  <1>2. /\ owner' = owner /\ accepted' = accepted /\ UserIdToWebSocketPtrMap' = UserIdToWebSocketPtrMap
        /\ listening' = listening /\ ended' = ended /\ objects' = objects /\ listed' = listed /\ stop' = stop
        /\ overlapped' = overlapped /\ torn' = torn /\ unheard' = unheard /\ late' = late
    BY DEF RunTask
  <1>3. tasks \in [Loops -> Seq(TaskTypes)]
    BY <1>0 DEF PresenceTypes, TaskTypes
  <1> HIDE DEF TaskTypes
  <1>4. PICK q \in Seq(TaskTypes) : q = tasks[l]
    BY <1>3
  <1>5. PICK task \in TaskTypes : task = Head(q)
    BY <1>1, <1>4
  <1>6. task.to \in Connections
    BY DEF TaskTypes, Notices, Closings
  <1>7. PICK r \in Seq(TaskTypes) : r = Tail(q)
    BY <1>1, <1>4, TailIs
  <1>8. tasks' = [tasks EXCEPT ![l] = r]
    BY <1>1, <1>4, <1>7
  <1>9. tasks' \in [Loops -> Seq(TaskTypes)] /\ tasks'[l] = r /\ \A k \in Loops \ {l} : tasks'[k] = tasks[k]
    BY <1>3, <1>8
  <1>10. \/ conn[task.to] = l /\ task.status = "close" /\ Close(l, task.to)
         \/ /\ conn[task.to] = l /\ task.status # "close" /\ conn' = conn /\ handler' = handler /\ owed' = owed /\ pc' = pc
            /\ told' = [told EXCEPT ![task.to][task.about[1]] = task.status]
         \/ conn[task.to] # l /\ conn' = conn /\ handler' = handler /\ owed' = owed /\ pc' = pc /\ told' = told
    BY <1>4, <1>5 DEF RunTask
  <1>11. At(l) = 0
    BY <1>0, <1>1, BusyIs
  <1> QED BY <1>1, <1>2, <1>4, <1>5, <1>6, <1>7, <1>9, <1>10, <1>11, Zenon

(***************************************************************************)
(* The steps of a handler that are not its first or last.                  *)
(***************************************************************************)
LEMMA TalksTypes ==
  ASSUME PresenceInv, NEW l \in Loops, Talks(l),
         objects' \in [Users -> Objects], tasks' \in [Loops -> Seq(TaskTypes)], listed' \in [Users -> Listings],
         owed' \subseteq Connections \X Users, torn' \subseteq Users, unheard' \subseteq Users
  PROVE  PresenceTypes'
  BY DEF PresenceInv, PresenceTypes, Talks, TaskTypes

\* Who is connected and who is served stays as it is.
LEMMA TalksFrame ==
  ASSUME PresenceInv, NEW l \in Loops, Talks(l)
  PROVE  /\ \A k \in Loops, u \in Users : Serves(k, u)' <=> Serves(k, u)
         /\ \A d \in Connections, u \in Users : On(d, u)' <=> On(d, u)
         /\ \A k \in Loops : (Opening(k)' <=> Opening(k)) /\ (Closing(k)' <=> Closing(k))
         /\ \A k \in Loops \ {l} : At(k)' = At(k) /\ handler'[k] = handler[k]
         /\ At(l) \in 2..9 /\ At(l)' \in 3..9
         /\ \A k \in Loops : User(k)' = User(k) /\ (At(k)' = 0 <=> At(k) = 0) /\ (At(k)' = 1 <=> At(k) = 1)
         /\ \A k \in Loops, u \in Users : Entry(k, u)' = Entry(k, u) /\ (Removing(k, u)' <=> Removing(k, u))
  BY DEF Talks, User, At, Opening, Closing, Serves, On, Removing, Entry

LEMMA TalksKeeps ==
  ASSUME PresenceInv, NEW l \in Loops, Talks(l),
         \A u \in Users : objects[u] # NoObject => objects'[u] # NoObject,
         User(l) \notin handler'[l].left,
         handler'[l].mine => objects'[User(l)] # NoObject,
         Rank(pc'[l]) = 9 => handler'[l].aim \in Loops \X Users /\ handler'[l].aim[2] # User(l)
  PROVE  SocketsOK' /\ Entries' /\ (\A k \in Loops : HandlerOK(k)') /\ (stop.phase = "running" => stop.loop = 0)'
  <1>1. /\ owner' = owner /\ accepted' = accepted /\ conn' = conn /\ UserIdToWebSocketPtrMap' = UserIdToWebSocketPtrMap
        /\ listening' = listening /\ ended' = ended /\ stop' = stop
        /\ handler'[l].connection = handler[l].connection /\ handler'[l].status = handler[l].status
    BY DEF Talks
  <1>2. SocketsOK'
    BY <1>1 DEF PresenceInv, SocketsOK, Entry
  <1>3. Entries'
    BY <1>1, TalksFrame DEF PresenceInv, Entries
  <1>4. ASSUME NEW k \in Loops \ {l}
        PROVE  HandlerOK(k)'
    BY <1>1, TalksFrame, UserIs DEF PresenceInv, HandlerOK
  <1>5. HandlerOK(l)'
    BY <1>1, TalksFrame DEF PresenceInv, At, HandlerOK
  <1>6. (stop.phase = "running" => stop.loop = 0)'
    BY <1>1 DEF PresenceInv
  <1> QED BY <1>2, <1>3, <1>4, <1>5, <1>6

LEMMA TalksStopping ==
  ASSUME PresenceInv, NEW l \in Loops, Talks(l), NEW k \in Loops,
         \A d \in Connections : Closes(tasks[k], d) => Closes(tasks'[k], d)
  PROVE  Stopping(k)'
  <1>1. UserIdToWebSocketPtrMap' = UserIdToWebSocketPtrMap /\ stop' = stop /\ late' = late /\ Stopping(k)
    BY DEF Talks, PresenceInv
  <1>2. \A u \in Users : Removing(k, u)' <=> Removing(k, u)
    BY TalksFrame
  <1>3. \A u \in Users : Entry(k, u) = NoConnection \/ Entry(k, u) \in Connections
    BY LoopsAre DEF PresenceInv, PresenceTypes, Entry
  <1>4. Copied(k)' <=> Copied(k)
    BY <1>1 DEF Copied
  <1> QED BY <1>1, <1>2, <1>3, <1>4 DEF Stopping, Entry

\* The tasks that wait stay as they are.
LEMMA WaitingKeeps ==
  ASSUME PresenceInv, NEW l \in Loops, Talks(l), tasks' = tasks
  PROVE  TasksOK' /\ \A k \in Loops : Stopping(k)'
  BY TalksStopping DEF PresenceInv, TasksOK, TaskOK, Talks

LEMMA TalksAlone ==
  ASSUME PresenceInv, NEW l \in Loops, Talks(l), NEW u \in Users
  PROVE  /\ Alone(u)' <=> Alone(u)
         /\ \A d \in Connections : On(d, u) => (InMap(d, u)' <=> InMap(d, u))
  <1>1. \A k \in Loops \ {l} : handler'[k].connection = handler[k].connection
    BY DEF Talks
  <1>2. \A k \in Loops : handler'[k].connection = handler[k].connection
    BY <1>1 DEF Talks
  <1>3. Alone(u)' <=> Alone(u)
    BY <1>2, TalksFrame DEF Alone
  <1>4. \A d \in Connections : On(d, u) => conn[d] \in Loops /\ conn' = conn
    BY DEF PresenceInv, PresenceTypes, On, Talks
  <1>5. \A d \in Connections : On(d, u) => (InMap(d, u)' <=> InMap(d, u))
    BY <1>4, TalksFrame DEF InMap
  <1> QED BY <1>3, <1>5

\* Somebody alone who is connected and served is served by the handler of his connection.
LEMMA OwnHandler ==
  ASSUME PresenceInv, NEW u \in Users \ overlapped, NEW d \in Connections, NEW l \in Loops, On(d, u), Serves(l, u)
  PROVE  Opening(l) /\ handler[l].connection = d /\ conn[d] = l
  BY DEF PresenceInv, Single, Alone, HandlerOK

\* What a cached object shows.
LEMMA ObjectShows ==
  ASSUME PresenceInv, NEW u \in Users
  PROVE  /\ objects[u] \in Objects
         /\ objects[u].SocketId \in Loops \cup {NoSocket} /\ objects[u].UserStatus \in {"Online", "Offline", "none"}
         /\ objects[u] = NoObject <=> objects[u].UserStatus = "none"
         /\ objects[u] \in {NoObject, NewObject} => Clean(u)
         /\ Clean(u) => objects[u] \in {NoObject, NewObject}
  BY ObjectIs DEF PresenceInv, PresenceTypes, Clean

\* A step that writes no socket or status, or takes it out, or that of somebody connected.
LEMMA TalksSocketWritten ==
  ASSUME PresenceInv, NEW l \in Loops, Talks(l), NEW u \in Users,
         objects'[u].SocketId # NoSocket =>
             \/ objects[u].SocketId # NoSocket /\ (TakesSocketOut(l, u) => TakesSocketOut(l, u)')
             \/ \E d \in Connections : On(d, u)
  PROVE  SocketWritten(u)'
  BY TalksFrame DEF SocketWritten, TakesSocketOut, PresenceInv

LEMMA TalksStatusWritten ==
  ASSUME PresenceInv, NEW l \in Loops, Talks(l), NEW u \in Users,
         objects'[u].UserStatus = "Online" =>
             \/ objects[u].UserStatus = "Online" /\ (TakesStatusOut(l, u) => TakesStatusOut(l, u)')
             \/ \E d \in Connections : On(d, u)
  PROVE  StatusWritten(u)'
  BY TalksFrame DEF StatusWritten, TakesStatusOut, PresenceInv

\* At a handler's user: an open handler has a connection of his.
LEMMA OpenIsOn ==
  ASSUME PresenceInv, NEW l \in Loops, Opening(l)
  PROVE  handler[l].connection \in Connections /\ On(handler[l].connection, User(l)) /\ conn[handler[l].connection] = l
  BY BusyIs, UserIs, LoopsAre DEF PresenceInv, HandlerOK, On, User

\* Cached objects change only by being downloaded.
Downloaded(u) == objects'[u] = objects[u] \/ (objects[u] = NoObject /\ objects'[u] = NewObject)

LEMMA DownloadedWritten ==
  ASSUME PresenceInv, NEW l \in Loops, Talks(l), NEW u \in Users, Downloaded(u), At(l) \in 6..9 \/ User(l) # u
  PROVE  SocketWritten(u)' /\ StatusWritten(u)'
  BY ObjectIs, TalksSocketWritten, TalksStatusWritten DEF Downloaded, TakesSocketOut,
     TakesStatusOut, Serves

LEMMA LookUpWritten ==
  ASSUME PresenceInv, NEW l \in Loops, LookUp(l), NEW u \in Users
  PROVE  SocketWritten(u)' /\ StatusWritten(u)'
  <1>1. /\ Talks(l) /\ At(l) = 2 /\ objects' = objects
        /\ objects[User(l)] # NoObject => Rank(pc'[l]) = 4 /\ handler'[l].mine = TRUE
    BY LookUpIs
  <1>2. CASE User(l) # u
    BY <1>1, <1>2, DownloadedWritten DEF Downloaded
  <1>3. CASE User(l) = u
    BY <1>1, <1>3, TalksFrame, ObjectIs, TalksSocketWritten, TalksStatusWritten DEF At,
       TakesSocketOut, TakesStatusOut
  <1> QED BY <1>2, <1>3

LEMMA EmplaceSelfWritten ==
  ASSUME PresenceInv, NEW l \in Loops, EmplaceSelf(l), NEW u \in Users
  PROVE  SocketWritten(u)' /\ StatusWritten(u)'
  <1>1. Talks(l) /\ At(l) = 3 /\ \A w \in Users : Downloaded(w)
    BY EmplaceSelfIs DEF Downloaded
  <1>2. ~TakesSocketOut(l, u) /\ ~TakesStatusOut(l, u)
    BY <1>1 DEF TakesSocketOut, TakesStatusOut
  <1>3. /\ objects'[u].SocketId # NoSocket => objects[u].SocketId # NoSocket
        /\ objects'[u].UserStatus = "Online" => objects[u].UserStatus = "Online"
    BY <1>1, ObjectIs DEF Downloaded
  <1>4. SocketWritten(u)'
    BY <1>1, <1>2, <1>3, TalksSocketWritten
  <1>5. StatusWritten(u)'
    BY <1>1, <1>2, <1>3, TalksStatusWritten
  <1> QED BY <1>4, <1>5

LEMMA SetSocketIdWritten ==
  ASSUME PresenceInv, NEW l \in Loops, SetSocketId(l), NEW u \in Users
  PROVE  SocketWritten(u)' /\ StatusWritten(u)'
  BY SetSocketIdIs, DownloadedWritten, TalksFrame, TalksStatusWritten, TalksSocketWritten, OpenIsOn,
     BusyIs DEF Downloaded, At, TakesStatusOut, TakesSocketOut, PresenceInv

LEMMA SetUserStatusWritten ==
  ASSUME PresenceInv, NEW l \in Loops, SetUserStatus(l), NEW u \in Users
  PROVE  SocketWritten(u)' /\ StatusWritten(u)'
  BY SetUserStatusIs, DownloadedWritten, TalksSocketWritten, TalksStatusWritten, OpenIsOn, BusyIs
     DEF Downloaded, TakesSocketOut, TakesStatusOut, PresenceInv, HandlerOK

(***************************************************************************)
(* Who is alone, in the map and in his object.                             *)
(***************************************************************************)
LEMMA TalksSingle ==
  ASSUME PresenceInv, NEW l \in Loops, Talks(l),
         \A u \in Users \ overlapped, d \in Connections : On(d, u) => InObject(d, u)'
  PROVE  Single'
  BY TalksFrame, TalksAlone DEF Talks, PresenceInv, Single

LEMMA InObjectStays ==
  ASSUME PresenceInv, NEW l \in Loops, Talks(l), NEW u \in Users \ overlapped, NEW d \in Connections, On(d, u),
         (At(l) \in 6..8 /\ At(l)' \in 7..9) \/ (At(l) = 9 /\ At(l)' = 8) \/ ~Serves(l, u),
         Downloaded(u), u \in torn => u \in torn'
  PROVE  InObject(d, u)'
  <1>1. InObject(d, u)
    BY DEF PresenceInv, Single
  <1>2. conn' = conn /\ conn[d] \in Loops
    BY DEF PresenceInv, PresenceTypes, On, Talks
  <1>3. PICK k \in Loops : k = conn[d]
    BY <1>2
  <1>4. (Clean(u) => Clean(u)') /\ (Shown(d, u) => Shown(d, u)')
    BY <1>2, ObjectIs DEF Clean, Shown, Downloaded
  <1>5. Serves(k, u)' <=> Serves(k, u)
    BY TalksFrame
  <1>6. objects[u].SocketId = k => objects'[u] = objects[u]
    BY ObjectIs, LoopsAre DEF Downloaded
  <1>7. CASE Serves(k, u) /\ k = l
    BY <1>1, <1>2, <1>3, <1>4, <1>7 DEF InObject
  <1>8. CASE Serves(k, u) /\ k # l
    BY <1>1, <1>2, <1>3, <1>4, <1>5, <1>6, <1>8, TalksFrame DEF InObject
  <1>9. CASE ~Serves(k, u)
    BY <1>1, <1>2, <1>3, <1>4, <1>5, <1>9 DEF InObject
  <1> QED BY <1>7, <1>8, <1>9

LEMMA LookUpSingle ==
  ASSUME PresenceInv, NEW l \in Loops, LookUp(l)
  PROVE  Single'
  <1>1. /\ Talks(l) /\ At(l) = 2 /\ objects' = objects /\ torn' = torn
        /\ objects[User(l)] # NoObject => Rank(pc'[l]) = 4 /\ handler'[l].mine = TRUE
        /\ objects[User(l)] = NoObject => Rank(pc'[l]) = 3 /\ handler'[l].mine = FALSE
    BY LookUpIs
  <1>2. ASSUME NEW u \in Users \ overlapped, NEW d \in Connections, On(d, u)
        PROVE  InObject(d, u)'
    <2>1. CASE ~Serves(l, u)
      BY <1>1, <1>2, <2>1, InObjectStays DEF Downloaded
    <2>2. CASE Serves(l, u)
      <3>1. conn[d] = l /\ conn' = conn
        BY <1>1, <1>2, <2>2, OwnHandler DEF Talks
      <3>2. Clean(u)
        BY <1>1, <1>2, <2>2, <3>1 DEF PresenceInv, Single, InObject
      <3>3. Clean(u)' /\ Serves(l, u)'
        BY <1>1, <2>2, <3>2, TalksFrame DEF Clean
      <3>4. At(l)' = 3 \/ (At(l)' = 4 /\ handler'[l].mine)
        BY <1>1 DEF At
      <3> QED BY <3>1, <3>3, <3>4 DEF InObject
    <2> QED BY <2>1, <2>2
  <1> QED BY <1>1, <1>2, TalksSingle

LEMMA EmplaceSelfSingle ==
  ASSUME PresenceInv, NEW l \in Loops, EmplaceSelf(l)
  PROVE  Single'
  <1>1. /\ Talks(l) /\ At(l) = 3 /\ Rank(pc'[l]) = 4 /\ \A w \in Users : Downloaded(w)
        /\ (handler'[l].mine = TRUE /\ torn' = torn) \/ torn' = torn \cup {User(l)}
    BY EmplaceSelfIs DEF Downloaded
  <1>2. ASSUME NEW u \in Users \ overlapped, NEW d \in Connections, On(d, u)
        PROVE  InObject(d, u)'
    <2>1. CASE ~Serves(l, u)
      BY <1>1, <1>2, <2>1, InObjectStays
    <2>2. CASE Serves(l, u)
      <3>1. conn[d] = l /\ conn' = conn
        BY <1>1, <1>2, <2>2, OwnHandler DEF Talks
      <3>2. Clean(u)
        BY <1>1, <1>2, <2>2, <3>1 DEF PresenceInv, Single, InObject
      <3>3. Clean(u)'
        BY <1>1, <3>2, ObjectIs DEF Clean, Downloaded
      <3>4. At(l)' = 4 /\ Serves(l, u)' /\ User(l) = u
        BY <1>1, <2>2, TalksFrame DEF At, Serves
      <3>5. handler'[l].mine \/ u \in torn'
        BY <1>1, <3>4
      <3> QED BY <3>1, <3>3, <3>4, <3>5 DEF InObject
    <2> QED BY <2>1, <2>2
  <1> QED BY <1>1, <1>2, TalksSingle

LEMMA SetSocketIdSingle ==
  ASSUME PresenceInv, NEW l \in Loops, SetSocketId(l)
  PROVE  Single'
  <1>1. /\ Talks(l) /\ At(l) = 4 /\ Rank(pc'[l]) = 5 /\ handler' = handler /\ torn' = torn
        /\ \A w \in Users \ {User(l)} : objects'[w] = objects[w]
        /\ ~handler[l].mine => objects' = objects
        /\ handler[l].mine /\ Opening(l) => objects'[User(l)].SocketId = l
    BY SetSocketIdIs
  <1>2. ASSUME NEW u \in Users \ overlapped, NEW d \in Connections, On(d, u)
        PROVE  InObject(d, u)'
    <2>1. CASE ~Serves(l, u)
      BY <1>1, <1>2, <2>1, InObjectStays DEF Serves, Downloaded
    <2>2. CASE Serves(l, u)
      BY <1>1, <1>2, <2>2, OwnHandler, TalksFrame DEF Talks, PresenceInv, Single, InObject, At,
         Serves, Clean
    <2> QED BY <2>1, <2>2
  <1> QED BY <1>1, <1>2, TalksSingle

LEMMA SetUserStatusSingle ==
  ASSUME PresenceInv, NEW l \in Loops, SetUserStatus(l)
  PROVE  Single'
  <1>1. /\ Talks(l) /\ At(l) = 5 /\ Rank(pc'[l]) = 6 /\ handler' = handler
        /\ \A w \in Users \ {User(l)} : objects'[w] = objects[w]
        /\ ~handler[l].mine => objects' = objects /\ torn' = torn
        /\ handler[l].mine => /\ objects'[User(l)].SocketId = objects[User(l)].SocketId
                              /\ objects'[User(l)].UserStatus = handler[l].status
                              /\ torn' = torn \ {User(l)}
    BY SetUserStatusIs
  <1>2. ASSUME NEW u \in Users \ overlapped, NEW d \in Connections, On(d, u)
        PROVE  InObject(d, u)'
    <2>1. CASE ~Serves(l, u)
      BY <1>1, <1>2, <2>1, InObjectStays DEF Serves, Downloaded
    <2>2. CASE Serves(l, u)
      <3>1. conn[d] = l /\ conn' = conn /\ Opening(l)
        BY <1>1, <1>2, <2>2, OwnHandler DEF Talks
      <3>2. (handler[l].mine /\ objects[u].SocketId = l) \/ (~handler[l].mine /\ u \in torn)
        BY <1>1, <1>2, <2>2, <3>1 DEF PresenceInv, Single, InObject
      <3>3. At(l)' = 6 /\ Serves(l, u)' /\ User(l) = u
        BY <1>1, <2>2, TalksFrame DEF At, Serves
      <3>4. handler[l].status = "Online"
        BY <3>1 DEF PresenceInv, HandlerOK
      <3>5. u \in torn' \/ Shown(d, u)'
        BY <1>1, <3>1, <3>2, <3>3, <3>4 DEF Shown
      <3> QED BY <3>1, <3>3, <3>5 DEF InObject
    <2> QED BY <2>1, <2>2
  <1> QED BY <1>1, <1>2, TalksSingle

LEMMA LaterSingle ==
  ASSUME PresenceInv, NEW l \in Loops, Talks(l), (At(l) \in 6..8 /\ At(l)' \in 7..9) \/ (At(l) = 9 /\ At(l)' = 8),
         \A u \in Users : Downloaded(u), torn' = torn
  PROVE  Single' /\ \A u \in Users : SocketWritten(u)' /\ StatusWritten(u)'
  BY InObjectStays, TalksSingle, DownloadedWritten

(***************************************************************************)
(* Who is owed the status of whom.                                         *)
(***************************************************************************)
LEMMA OwnerIs ==
  ASSUME PresenceInv, NEW d \in Connections, conn[d] # NoSocket
  PROVE  d \in DOMAIN owner /\ owner[d] \in Users /\ conn[d] \in Loops /\ On(d, owner[d])
  BY DEF PresenceInv, SocketsOK, PresenceTypes, On

LEMMA ReachableIs ==
  ASSUME PresenceInv, NEW d \in Connections
  PROVE  /\ Reachable(d) <=> conn[d] # NoSocket /\ Shown(d, owner[d]) /\ Entry(conn[d], owner[d]) = d
         /\ Reachable(d) => objects[owner[d]] # NoObject
  BY OwnerIs, ObjectIs DEF Reachable, PresenceInv, PresenceTypes, Shown

\* What an owed pair is.
LEMMA OwedPair ==
  ASSUME PresenceInv, NEW o \in owed
  PROVE  \E d \in Connections, u \in Users : o[1] = d /\ o[2] = u /\ Owed(d, u)
  BY DEF PresenceInv, PresenceTypes

LEMMA ConnectedIs ==
  ASSUME PresenceInv, NEW u \in Users
  PROVE  /\ (\E d \in Connections : On(d, u)) <=> Connected(u) # {}
         /\ Presently(u) = IF \E d \in Connections : On(d, u) THEN "Online" ELSE "Offline"
  BY DomainIs DEF PresenceInv, Connected, On, Presently

LEMMA ReachableStays ==
  ASSUME PresenceInv, NEW l \in Loops, Talks(l), NEW d \in Connections, Reachable(d), Downloaded(owner[d])
  PROVE  Reachable(d)'
  BY ReachableIs DEF Talks, Downloaded, Reachable, Entry

LEMMA TalksOwes ==
  ASSUME PresenceInv, NEW l \in Loops, Talks(l), NEW d \in Connections, NEW u \in Users, Owed(d, u),
         \A s \in Statuses : Hears(d, u, s) => Hears(d, u, s)',
         owner[d] \notin overlapped => Reachable(d)',
         owner[d] \notin overlapped /\ Serves(l, u) /\ StillTells(l, d) => StillTells(l, d)',
         owner[d] \notin overlapped /\ u \in unheard /\ u \notin unheard' => Serves(l, u) /\ StillTells(l, d)'
  PROVE  Owed(d, u)'
  BY TalksFrame DEF Talks, Presently, Statuses, Connected, StillTells, Owed, OwedOffline, OwedStatus

LEMMA TalksOwed ==
  ASSUME PresenceInv, NEW l \in Loops, Talks(l), tasks' = tasks, NEW d \in Connections, NEW u \in Users, Owed(d, u),
         owner[d] \notin overlapped => Reachable(d)',
         owner[d] \notin overlapped /\ Serves(l, u) /\ StillTells(l, d) => StillTells(l, d)',
         owner[d] \notin overlapped /\ u \in unheard /\ u \notin unheard' => Serves(l, u) /\ StillTells(l, d)'
  PROVE  Owed(d, u)'
  BY TalksOwes DEF Talks, Hears

\* At the first steps, a handler has still to tell everybody.
LEMMA EarlyOwed ==
  ASSUME PresenceInv, NEW l \in Loops, Talks(l), tasks' = tasks, At(l)' \in 3..6, unheard' = unheard,
         NEW d \in Connections, NEW u \in Users, Owed(d, u), owner[d] \notin overlapped => Reachable(d)'
  PROVE  Owed(d, u)'
  BY TalksOwed DEF StillTells

LEMMA LookUpOwed ==
  ASSUME PresenceInv, NEW l \in Loops, LookUp(l), NEW o \in owed'
  PROVE  Owed(o[1], o[2])'
  <1>1. Talks(l) /\ objects' = objects /\ tasks' = tasks /\ owed' = owed /\ unheard' = unheard /\ At(l)' \in 3..6
    <2>1. Rank(pc'[l]) = 3 \/ Rank(pc'[l]) = 4
      BY LookUpIs, Zenon
    <2>2. At(l)' \in 3..6
      BY <2>1 DEF At
    <2> QED BY <2>2, LookUpIs
  <1>2. PICK d \in Connections, u \in Users : o[1] = d /\ o[2] = u /\ Owed(d, u)
    BY <1>1, OwedPair
  <1>3. owner[d] \notin overlapped => Reachable(d)'
    BY <1>1, <1>2, ReachableStays DEF Owed, Downloaded
  <1> QED BY <1>1, <1>2, <1>3, EarlyOwed

LEMMA EmplaceSelfOwed ==
  ASSUME PresenceInv, NEW l \in Loops, EmplaceSelf(l), NEW o \in owed'
  PROVE  Owed(o[1], o[2])'
  <1>1. /\ Talks(l) /\ tasks' = tasks /\ owed' = owed /\ unheard' = unheard /\ At(l)' \in 3..6
        /\ \A w \in Users : Downloaded(w)
    <2>1. Rank(pc'[l]) = 4
      BY EmplaceSelfIs, Zenon
    <2>2. At(l)' \in 3..6
      BY <2>1 DEF At
    <2> QED BY <2>2, EmplaceSelfIs DEF Downloaded
  <1>2. PICK d \in Connections, u \in Users : o[1] = d /\ o[2] = u /\ Owed(d, u)
    BY <1>1, OwedPair
  <1>3. owner[d] \notin overlapped => Reachable(d)'
    BY <1>1, <1>2, ReachableStays, OwnerIs DEF Owed
  <1> QED BY <1>1, <1>2, <1>3, EarlyOwed

LEMMA SetSocketIdOwed ==
  ASSUME PresenceInv, NEW l \in Loops, SetSocketId(l), NEW o \in owed'
  PROVE  Owed(o[1], o[2])'
  <1>1. /\ Talks(l) /\ At(l) = 4 /\ tasks' = tasks /\ owed' = owed /\ unheard' = unheard /\ At(l)' \in 3..6
        /\ \A w \in Users \ {User(l)} : Downloaded(w)
    BY SetSocketIdIs DEF At, Downloaded
  <1>2. PICK d \in Connections, u \in Users : o[1] = d /\ o[2] = u /\ Owed(d, u)
    BY <1>1, OwedPair
  <1>3. ASSUME owner[d] \notin overlapped
        PROVE  Reachable(d)'
    BY <1>1, <1>2, <1>3, OwnerIs, ReachableStays, OwnHandler, ReachableIs DEF Owed, Serves,
       PresenceInv, Single, InObject, Shown, Clean
  <1> QED BY <1>1, <1>2, <1>3, EarlyOwed

LEMMA SetUserStatusOwed ==
  ASSUME PresenceInv, NEW l \in Loops, SetUserStatus(l), NEW o \in owed'
  PROVE  Owed(o[1], o[2])'
  <1>1. /\ Talks(l) /\ At(l) = 5 /\ tasks' = tasks /\ unheard' = unheard /\ At(l)' \in 3..6
        /\ objects' \in [Users -> Objects] /\ \A w \in Users \ {User(l)} : Downloaded(w)
        /\ ~handler[l].mine => objects' = objects
        /\ handler[l].mine => /\ objects'[User(l)].SocketId = objects[User(l)].SocketId
                              /\ objects'[User(l)].UserStatus = handler[l].status
        /\ owed' = owed \cup {<<d, User(l)>> : d \in {d \in DOMAIN owner : owner[d] # User(l) /\ Reachable(d)}}
    BY SetUserStatusIs DEF At, Downloaded
  <1>2. User(l) \in Users
    BY <1>1, UserIs
  <1>3. ASSUME NEW d \in Connections, Reachable(d), owner[d] \notin overlapped
        PROVE  Reachable(d)'
    <2>1. conn[d] # NoSocket
      BY <1>3 DEF Reachable
    <2>2. owner[d] \in Users /\ On(d, owner[d]) /\ conn[d] \in Loops
      BY <2>1, OwnerIs
    <2>3. CASE owner[d] # User(l)
      BY <1>1, <1>3, <2>2, <2>3, ReachableStays
    <2>4. CASE owner[d] = User(l)
      <3>1. PICK w \in Users \ overlapped : w = owner[d]
        BY <1>3, <2>2
      <3>2. Serves(l, w)
        BY <1>1, <2>4, <3>1 DEF Serves
      <3>3. conn[d] = l /\ Opening(l)
        BY <2>2, <3>1, <3>2, OwnHandler
      <3>4. handler[l].status = "Online"
        BY <3>3 DEF PresenceInv, HandlerOK
      <3>5. objects[w].SocketId = conn[d] /\ objects[w].UserStatus = "Online" /\ Entry(conn[d], w) = d
        BY <1>3, <3>1, ReachableIs DEF Shown
      <3>6. objects'[w].SocketId = conn[d] /\ objects'[w].UserStatus = "Online"
        BY <1>1, <2>4, <3>1, <3>4, <3>5
      <3>7. PICK x \in Objects, k \in Loops : x = objects'[w] /\ k = conn[d]
        BY <1>1, <2>2, <3>1
      <3>8. x = [SocketId |-> k, UserStatus |-> "Online"]
        BY <3>6, <3>7, ObjectIs
      <3>9. owner' = owner /\ conn' = conn /\ UserIdToWebSocketPtrMap' = UserIdToWebSocketPtrMap
        BY <1>1 DEF Talks
      <3> QED BY <2>1, <3>1, <3>5, <3>7, <3>8, <3>9 DEF Reachable, Entry
    <2> QED BY <2>3, <2>4
  <1>4. CASE o \in owed
    BY <1>1, <1>3, <1>4, OwedPair, EarlyOwed DEF Owed
  <1>5. CASE o \notin owed
    <2>1. PICK d \in DOMAIN owner : owner[d] # User(l) /\ Reachable(d) /\ o = <<d, User(l)>>
      BY <1>1, <1>5
    <2>2. PICK u \in Users : u = User(l) /\ o[1] = d /\ o[2] = u
      BY <1>2, <2>1
    <2>3. d \in Connections
      BY DomainIs DEF PresenceInv
    <2>4. owner' = owner /\ conn' = conn /\ overlapped' = overlapped
      BY <1>1 DEF Talks
    <2>5. conn'[d] # NoSocket /\ owner'[d] # u
      BY <2>1, <2>2, <2>4 DEF Reachable
    <2>6. Serves(l, u)' /\ StillTells(l, d)'
      BY <1>1, <2>2, TalksFrame DEF Serves, StillTells
    <2>7. OwedStatus(d, u)'
      BY <2>6 DEF OwedStatus
    <2>8. OwedOffline(d, u)'
      BY <1>1, <2>2, <2>6, OpenIsOn, TalksFrame, BusyIs DEF OwedOffline, PresenceInv
    <2> QED BY <1>3, <2>1, <2>2, <2>3, <2>4, <2>5, <2>7, <2>8 DEF Owed
  <1> QED BY <1>4, <1>5

LEMMA LookUpFriendsOwed ==
  ASSUME PresenceInv, NEW l \in Loops, LookUpFriends(l), NEW o \in owed'
  PROVE  Owed(o[1], o[2])'
  BY LookUpFriendsIs, OwedPair, ReachableStays, OwnerIs, ReachableIs, TalksOwed DEF Owed,
     Downloaded, Talks, StillTells, Serves

LEMMA EmplaceFriendsOwed ==
  ASSUME PresenceInv, NEW l \in Loops, EmplaceFriends(l), NEW o \in owed'
  PROVE  Owed(o[1], o[2])'
  <1>1. /\ Talks(l) /\ At(l) = 7 /\ tasks' = tasks /\ owed' = owed /\ unheard' = unheard
        /\ \A w \in Users : Downloaded(w)
        /\ handler'[l].missing = {} /\ handler[l].left \ handler[l].missing \subseteq handler'[l].left
    BY EmplaceFriendsIs DEF Downloaded
  <1>2. PICK d \in Connections, u \in Users : o[1] = d /\ o[2] = u /\ Owed(d, u)
    BY <1>1, OwedPair
  <1>3. owner[d] \notin overlapped => Reachable(d)'
    BY <1>1, <1>2, ReachableStays, OwnerIs DEF Owed
  <1>4. StillTells(l, d) => StillTells(l, d)'
    BY <1>1 DEF Talks, StillTells
  <1> QED BY <1>1, <1>2, <1>3, <1>4, TalksOwed

LEMMA TellOwed ==
  ASSUME PresenceInv, NEW l \in Loops, NEW w \in Users, Tell(l, w), NEW o \in owed'
  PROVE  Owed(o[1], o[2])'
  BY TellIs, OwedPair, ReachableStays, ReachableIs, OwnerIs, TalksOwed DEF Owed, Downloaded, Talks,
     StillTells, Shown, At


LEMMA DeferOwed ==
  ASSUME PresenceInv, NEW l \in Loops, Defer(l), NEW o \in owed'
  PROVE  Owed(o[1], o[2])'
  <1> DEFINE Sent(to, w, sent) ==
             /\ sent.to = Entry(to, w) /\ sent.about = <<User(l)>> /\ sent.status = handler[l].status
             /\ tasks'[to] = Append(tasks[to], sent)
  <1>1. PICK to \in Loops, w \in Users :
         /\ Talks(l) /\ At(l) = 9 /\ objects' = objects /\ owed' = owed /\ unheard' = unheard
         /\ handler'[l].left = handler[l].left /\ handler'[l].missing = handler[l].missing
         /\ handler[l].aim = <<to, w>>
         /\ \A k \in Loops \ {to} : tasks'[k] = tasks[k]
         /\ Entry(to, w) = NoConnection => tasks' = tasks
         /\ Entry(to, w) # NoConnection => \E sent \in Notices : Sent(to, w, sent)
    BY DeferIs
  <1>2. PICK d \in Connections, u \in Users : o[1] = d /\ o[2] = u /\ Owed(d, u)
    BY <1>1, OwedPair
  <1>3. owner[d] \notin overlapped => Reachable(d)'
    BY <1>1, <1>2, ReachableStays DEF Owed, Downloaded
  <1>4. conn[d] # NoSocket /\ conn[d] \in Loops /\ owner[d] \in Users /\ On(d, owner[d]) /\ owner[d] # u
    BY <1>2, OwnerIs DEF Owed
  <1>5. owner' = owner /\ conn' = conn /\ told' = told /\ overlapped' = overlapped
    BY <1>1 DEF Talks
  <1>6. owner[d] \notin overlapped => Entry(conn[d], owner[d]) = d
    BY <1>2 DEF Owed, Reachable
  <1>7. d # NoConnection
    BY LoopsAre
  <1>8. ASSUME owner[d] \notin overlapped, StillTells(l, d), ~StillTells(l, d)'
        PROVE  to = conn[d] /\ w = owner[d]
    BY <1>1, <1>5, <1>8 DEF StillTells
  <1>9. CASE Entry(to, w) = NoConnection
    BY <1>1, <1>2, <1>3, <1>6, <1>7, <1>8, <1>9, TalksOwed
  <1>10. CASE Entry(to, w) # NoConnection
    <2>1. PICK sent \in Notices : Sent(to, w, sent)
      BY <1>1, <1>10
    <2>2. sent \in TaskTypes /\ sent.status # "close"
      BY DEF TaskTypes, Notices, Statuses
    <2>3. PICK q \in Seq(TaskTypes) : q = tasks[conn[d]]
      BY <1>4 DEF PresenceInv, PresenceTypes, TaskTypes
    <2>4. CASE d = Entry(to, w) /\ u = User(l) /\ owner[d] \notin overlapped
      <3>1. owner[d] = w
        BY <2>4, <1>10 DEF PresenceInv, SocketsOK
      <3>2. conn[d] = to
        BY <1>4, <1>10, <2>4, <3>1, BusyIs, OwnHandler DEF PresenceInv, Entries, Removing
      <3>3. About(sent, d, u)
        BY <2>1, <2>2, <2>4 DEF About
      <3>9. PICK s \in Statuses : s = handler[l].status
        BY DEF PresenceInv, PresenceTypes, Handlers
      <3>4. Hears(d, u, s)'
        BY <1>5, <2>1, <2>2, <2>3, <3>2, <3>3, <3>9, HearsAppended DEF Hears
      <3>5. Serves(l, u)
        BY <1>1, <2>4 DEF Serves
      <3>6. Presently(u)' = Presently(u)
        BY <1>5 DEF Presently, Connected
      <3>7. CASE Opening(l)
        <4>1. \E c \in Connections : On(c, u)
          BY <2>4, <3>7, OpenIsOn
        <4>2. s = "Online"
          BY <3>7, <3>9 DEF PresenceInv, HandlerOK
        <4>3. Presently(u) = "Online"
          BY <4>1, ConnectedIs
        <4>4. OwedStatus(d, u)'
          BY <3>4, <3>6, <4>2, <4>3 DEF OwedStatus
        <4>5. \E c \in Connections : On(c, u)'
          BY <1>1, <4>1, TalksFrame
        <4>6. OwedOffline(d, u)'
          BY <4>5 DEF OwedOffline
        <4> QED BY <1>2, <1>3, <1>4, <1>5, <4>4, <4>6 DEF Owed
      <3>8. CASE Closing(l)
        BY <1>2, <1>3, <1>4, <1>5, <3>4, <3>5, <3>6, <3>8, <3>9, BusyIs, OwnHandler, ConnectedIs DEF
           PresenceInv, HandlerOK, OwedStatus, OwedOffline, Owed
      <3> QED BY <1>1, <3>7, <3>8, BusyIs DEF PresenceInv
    <2>5. CASE ~(d = Entry(to, w) /\ u = User(l) /\ owner[d] \notin overlapped)
      <3>1. CASE owner[d] \in overlapped
        BY <1>2, <1>4, <1>5, <3>1 DEF Owed
      <3>2. CASE owner[d] \notin overlapped
        <4>1. ~About(sent, d, u)
          BY <2>1, <2>5, <3>2 DEF About
        <4>2. \A s \in Statuses : Hears(d, u, s) => Hears(d, u, s)'
          BY <1>1, <1>4, <1>5, <2>1, <2>2, <2>3, <4>1, HearsAppended DEF Hears
        <4>3. Serves(l, u) /\ StillTells(l, d) => StillTells(l, d)'
          BY <1>6, <1>8, <2>5, <3>2 DEF Serves
        <4> QED BY <1>1, <1>2, <1>3, <3>2, <4>2, <4>3, TalksOwes
      <3> QED BY <3>1, <3>2
    <2> QED BY <2>4, <2>5
  <1> QED BY <1>9, <1>10

LEMMA DeferWaiting ==
  ASSUME PresenceInv, NEW l \in Loops, Defer(l)
  PROVE  TasksOK' /\ \A k \in Loops : Stopping(k)'
  <1> DEFINE Sent(to, w, sent) ==
             /\ sent.to = Entry(to, w) /\ sent.about = <<User(l)>> /\ sent.status = handler[l].status
             /\ tasks'[to] = Append(tasks[to], sent)
  <1>1. PICK to \in Loops, w \in Users :
         /\ Talks(l) /\ w # User(l)
         /\ \A k \in Loops \ {to} : tasks'[k] = tasks[k]
         /\ Entry(to, w) = NoConnection => tasks' = tasks
         /\ Entry(to, w) # NoConnection => \E sent \in Notices : Sent(to, w, sent)
    BY DeferIs
  <1>2. CASE Entry(to, w) = NoConnection
    BY <1>1, <1>2, WaitingKeeps
  <1>3. CASE Entry(to, w) # NoConnection
    <2>1. PICK sent \in Notices : Sent(to, w, sent)
      BY <1>1, <1>3
    <2>2. sent \in TaskTypes
      BY DEF TaskTypes
    <2>3. PICK q \in Seq(TaskTypes) : q = tasks[to]
      BY DEF PresenceInv, PresenceTypes, TaskTypes
    <2>4. \A k \in Loops : tasks'[k] = tasks[k] \/ (k = to /\ tasks'[k] = Append(q, sent))
      BY <1>1, <2>1, <2>3
    <2>5. sent.to \in DOMAIN owner /\ owner[sent.to] = w
      BY <1>3, <2>1 DEF PresenceInv, SocketsOK
    <2>6. TaskOK(sent)
      BY <1>1, <2>1, <2>5 DEF TaskOK
    <2>7. TasksOK'
      <3> SUFFICES ASSUME NEW k \in Loops, NEW i \in DOMAIN tasks'[k]
                   PROVE  TaskOK(tasks'[k][i])
        BY <1>1 DEF TasksOK, TaskOK, Talks
      <3>1. CASE tasks'[k] = tasks[k]
        BY <3>1 DEF PresenceInv, TasksOK
      <3>2. CASE k = to /\ tasks'[k] = Append(q, sent)
        BY <2>2, <2>3, <2>6, <3>2, AppendedAre DEF PresenceInv, TasksOK
      <3> QED BY <2>4, <3>1, <3>2
    <2>8. \A k \in Loops : Stopping(k)'
      <3> SUFFICES ASSUME NEW k \in Loops
                   PROVE  Stopping(k)'
        OBVIOUS
      <3>1. \A d \in Connections : Closes(tasks[k], d) => Closes(tasks'[k], d)
        <4>1. CASE tasks'[k] = tasks[k]
          BY <4>1
        <4>2. CASE k = to /\ tasks'[k] = Append(q, sent)
          BY <2>2, <2>3, <4>2, ClosesAppended
        <4> QED BY <2>4, <4>1, <4>2
      <3> QED BY <1>1, <3>1, TalksStopping
    <2> QED BY <2>7, <2>8
  <1> QED BY <1>2, <1>3

(***************************************************************************)
(* The invariant is kept by the steps of a handler that are not its first  *)
(* or last.                                                                *)
(***************************************************************************)
LEMMA ServedIs ==
  ASSUME PresenceInv, NEW l \in Loops, At(l) # 0
  PROVE  User(l) \notin handler[l].left /\ (handler[l].mine => objects[User(l)] # NoObject)
  BY DEF PresenceInv, HandlerOK

LEMMA VariablesAre ==
  ASSUME PresenceInv
  PROVE  /\ objects \in [Users -> Objects] /\ tasks \in [Loops -> Seq(TaskTypes)] /\ listed \in [Users -> Listings]
         /\ owed \subseteq Connections \X Users /\ torn \subseteq Users /\ unheard \subseteq Users
  BY DEF PresenceInv, PresenceTypes, TaskTypes

LEMMA LookUpKeeps ==
  ASSUME PresenceInv, NEW l \in Loops, LookUp(l)
  PROVE  PresenceInv'
  <1>1. /\ Talks(l) /\ At(l) = 2
        /\ objects' = objects /\ tasks' = tasks /\ listed' = listed /\ owed' = owed /\ torn' = torn /\ unheard' = unheard
        /\ objects[User(l)] # NoObject => Rank(pc'[l]) = 4
        /\ objects[User(l)] = NoObject => Rank(pc'[l]) = 3 /\ handler'[l].mine = FALSE
        /\ handler'[l].left = handler[l].left
    BY LookUpIs
  <1>2. PresenceTypes'
    BY <1>1, VariablesAre, TalksTypes
  <1>3. User(l) \notin handler'[l].left
    BY <1>1, ServedIs
  <1>4. Rank(pc'[l]) # 9 /\ (handler'[l].mine => objects'[User(l)] # NoObject)
    BY <1>1
  <1>5. SocketsOK' /\ Entries' /\ (\A k \in Loops : HandlerOK(k)') /\ (stop.phase = "running" => stop.loop = 0)'
    BY <1>1, <1>3, <1>4, TalksKeeps
  <1>6. TasksOK' /\ \A k \in Loops : Stopping(k)'
    BY <1>1, WaitingKeeps
  <1>7. Single' /\ (\A u \in Users : SocketWritten(u)' /\ StatusWritten(u)') /\ \A o \in owed' : Owed(o[1], o[2])'
    BY LookUpSingle, LookUpWritten, LookUpOwed
  <1> QED BY <1>2, <1>5, <1>6, <1>7 DEF PresenceInv

LEMMA EmplaceSelfKeeps ==
  ASSUME PresenceInv, NEW l \in Loops, EmplaceSelf(l)
  PROVE  PresenceInv'
  <1>1. /\ Talks(l) /\ At(l) = 3 /\ Rank(pc'[l]) = 4
        /\ tasks' = tasks /\ listed' = listed /\ owed' = owed /\ unheard' = unheard
        /\ objects' \in [Users -> Objects] /\ \A w \in Users \ {User(l)} : objects'[w] = objects[w]
        /\ \/ /\ objects[User(l)] = NoObject /\ objects'[User(l)] = NewObject
              /\ handler'[l].mine = TRUE /\ torn' = torn
           \/ objects' = objects /\ handler'[l].mine = handler[l].mine /\ torn' = torn \cup {User(l)}
        /\ handler'[l].left = handler[l].left
    BY EmplaceSelfIs
  <1>2. User(l) \in Users
    BY <1>1, UserIs
  <1>3. torn' \subseteq Users
    BY <1>1, <1>2, VariablesAre
  <1>4. PresenceTypes'
    BY <1>1, <1>3, VariablesAre, TalksTypes
  <1>5. User(l) \notin handler'[l].left
    BY <1>1, ServedIs
  <1>6. handler'[l].mine => objects'[User(l)] # NoObject
    <2>1. CASE objects'[User(l)] = NewObject
      BY <2>1, ObjectIs
    <2>2. CASE objects' = objects /\ handler'[l].mine = handler[l].mine
      <3>1. handler[l].mine => objects[User(l)] # NoObject
        BY <1>1, ServedIs
      <3> QED BY <2>2, <3>1, Zenon
    <2> QED BY <1>1, <2>1, <2>2
  <1>7. \A u \in Users : objects[u] # NoObject => objects'[u] # NoObject
    BY <1>1, <1>2
  <1>8. SocketsOK' /\ Entries' /\ (\A k \in Loops : HandlerOK(k)') /\ (stop.phase = "running" => stop.loop = 0)'
    BY <1>1, <1>5, <1>6, <1>7, TalksKeeps
  <1>9. TasksOK' /\ \A k \in Loops : Stopping(k)'
    BY <1>1, WaitingKeeps
  <1>10. Single' /\ (\A u \in Users : SocketWritten(u)' /\ StatusWritten(u)') /\ \A o \in owed' : Owed(o[1], o[2])'
    BY EmplaceSelfSingle, EmplaceSelfWritten, EmplaceSelfOwed
  <1> QED BY <1>4, <1>8, <1>9, <1>10 DEF PresenceInv

LEMMA SetSocketIdKeeps ==
  ASSUME PresenceInv, NEW l \in Loops, SetSocketId(l)
  PROVE  PresenceInv'
  <1>1. /\ Talks(l) /\ At(l) = 4 /\ Rank(pc'[l]) = 5 /\ handler' = handler
        /\ tasks' = tasks /\ listed' = listed /\ owed' = owed /\ unheard' = unheard /\ torn' = torn
        /\ objects' \in [Users -> Objects] /\ \A w \in Users \ {User(l)} : objects'[w] = objects[w]
        /\ ~handler[l].mine => objects' = objects
        /\ handler[l].mine => objects'[User(l)].UserStatus = objects[User(l)].UserStatus
    BY SetSocketIdIs
  <1>2. User(l) \in Users
    BY <1>1, UserIs
  <1>3. PresenceTypes'
    BY <1>1, VariablesAre, TalksTypes
  <1>4. User(l) \notin handler'[l].left
    BY <1>1, ServedIs
  <1>5. objects[User(l)] # NoObject => objects'[User(l)] # NoObject
    BY <1>1, <1>2, VariablesAre, ObjectIs
  <1>6. handler'[l].mine => objects'[User(l)] # NoObject
    BY <1>1, <1>5, ServedIs
  <1>7. \A u \in Users : objects[u] # NoObject => objects'[u] # NoObject
    BY <1>1, <1>5
  <1>8. SocketsOK' /\ Entries' /\ (\A k \in Loops : HandlerOK(k)') /\ (stop.phase = "running" => stop.loop = 0)'
    BY <1>1, <1>4, <1>6, <1>7, TalksKeeps
  <1>9. TasksOK' /\ \A k \in Loops : Stopping(k)'
    BY <1>1, WaitingKeeps
  <1>10. Single' /\ (\A u \in Users : SocketWritten(u)' /\ StatusWritten(u)') /\ \A o \in owed' : Owed(o[1], o[2])'
    BY SetSocketIdSingle, SetSocketIdWritten, SetSocketIdOwed
  <1> QED BY <1>3, <1>8, <1>9, <1>10 DEF PresenceInv

LEMMA SetUserStatusKeeps ==
  ASSUME PresenceInv, NEW l \in Loops, SetUserStatus(l)
  PROVE  PresenceInv'
  <1>1. /\ Talks(l) /\ At(l) = 5 /\ Rank(pc'[l]) = 6 /\ handler' = handler
        /\ tasks' = tasks /\ listed' = listed /\ unheard' = unheard
        /\ objects' \in [Users -> Objects] /\ \A w \in Users \ {User(l)} : objects'[w] = objects[w]
        /\ ~handler[l].mine => objects' = objects /\ torn' = torn
        /\ handler[l].mine => objects'[User(l)].UserStatus = handler[l].status /\ torn' = torn \ {User(l)}
        /\ owed' = owed \cup {<<d, User(l)>> : d \in {d \in DOMAIN owner : owner[d] # User(l) /\ Reachable(d)}}
    BY SetUserStatusIs
  <1>2. User(l) \in Users
    BY <1>1, UserIs
  <1>3. PresenceTypes'
    BY <1>1, <1>2, VariablesAre, DomainIs, TalksTypes DEF PresenceInv
  <1>4. User(l) \notin handler'[l].left
    BY <1>1, ServedIs
  <1>5. objects[User(l)] # NoObject => objects'[User(l)] # NoObject
    BY <1>1, <1>2, VariablesAre, ObjectIs DEF PresenceInv, PresenceTypes, Handlers, Statuses
  <1>6. handler'[l].mine => objects'[User(l)] # NoObject
    BY <1>1, <1>5, ServedIs
  <1>7. \A u \in Users : objects[u] # NoObject => objects'[u] # NoObject
    BY <1>1, <1>5
  <1>8. SocketsOK' /\ Entries' /\ (\A k \in Loops : HandlerOK(k)') /\ (stop.phase = "running" => stop.loop = 0)'
    BY <1>1, <1>4, <1>6, <1>7, TalksKeeps
  <1>9. TasksOK' /\ \A k \in Loops : Stopping(k)'
    BY <1>1, WaitingKeeps
  <1>10. Single' /\ (\A u \in Users : SocketWritten(u)' /\ StatusWritten(u)') /\ \A o \in owed' : Owed(o[1], o[2])'
    BY SetUserStatusSingle, SetUserStatusWritten, SetUserStatusOwed
  <1> QED BY <1>3, <1>8, <1>9, <1>10 DEF PresenceInv

LEMMA LookUpFriendsKeeps ==
  ASSUME PresenceInv, NEW l \in Loops, LookUpFriends(l)
  PROVE  PresenceInv'
  <1>1. /\ Talks(l) /\ At(l) = 6 /\ Rank(pc'[l]) \in {7, 8}
        /\ objects' = objects /\ tasks' = tasks /\ torn' = torn /\ listed' \in [Users -> Listings] /\ unheard' \subseteq Users
        /\ owed' = owed \/ owed' = {o \in owed : o[2] # User(l)}
        /\ handler'[l].left = Users \ {User(l)} \/ handler' = handler
        /\ handler'[l].mine = handler[l].mine
    BY LookUpFriendsIs
  <1>2. PresenceTypes'
    BY <1>1, VariablesAre, TalksTypes
  <1>3. User(l) \notin handler'[l].left
    BY <1>1, ServedIs
  <1>4. Rank(pc'[l]) # 9 /\ (handler'[l].mine => objects'[User(l)] # NoObject)
    BY <1>1, ServedIs
  <1>5. SocketsOK' /\ Entries' /\ (\A k \in Loops : HandlerOK(k)') /\ (stop.phase = "running" => stop.loop = 0)'
    BY <1>1, <1>3, <1>4, TalksKeeps
  <1>6. TasksOK' /\ \A k \in Loops : Stopping(k)'
    BY <1>1, WaitingKeeps
  <1>7. Single' /\ \A u \in Users : SocketWritten(u)' /\ StatusWritten(u)'
    BY <1>1, LaterSingle DEF At, Downloaded
  <1>8. \A o \in owed' : Owed(o[1], o[2])'
    BY LookUpFriendsOwed
  <1> QED BY <1>2, <1>5, <1>6, <1>7, <1>8 DEF PresenceInv

LEMMA EmplaceFriendsKeeps ==
  ASSUME PresenceInv, NEW l \in Loops, EmplaceFriends(l)
  PROVE  PresenceInv'
  BY EmplaceFriendsIs, VariablesAre, TalksTypes, ServedIs, UserIs, TalksKeeps, WaitingKeeps,
     LaterSingle, EmplaceFriendsOwed DEF Downloaded, At, PresenceInv

LEMMA TellKeeps ==
  ASSUME PresenceInv, NEW l \in Loops, NEW w \in Users, Tell(l, w)
  PROVE  PresenceInv'
  <1>1. /\ Talks(l) /\ At(l) = 8 /\ w \in handler[l].left
        /\ objects' = objects /\ tasks' = tasks /\ listed' = listed /\ owed' = owed /\ torn' = torn /\ unheard' = unheard
        /\ handler'[l].left = handler[l].left \ {w} /\ handler'[l].mine = handler[l].mine
        /\ Rank(pc'[l]) = 8 \/ (Rank(pc'[l]) = 9 /\ objects[w].SocketId \in Loops /\ handler'[l].aim = <<objects[w].SocketId, w>>)
    BY TellIs
  <1>2. PresenceTypes'
    BY <1>1, VariablesAre, TalksTypes
  <1>3. User(l) \notin handler'[l].left /\ w # User(l)
    BY <1>1, ServedIs
  <1>4. handler'[l].mine => objects'[User(l)] # NoObject
    <2>1. handler[l].mine => objects[User(l)] # NoObject
      BY <1>1, ServedIs
    <2> QED BY <1>1, <2>1, Zenon
  <1>5. Rank(pc'[l]) = 9 => handler'[l].aim \in Loops \X Users /\ handler'[l].aim[2] # User(l)
    <2> SUFFICES ASSUME Rank(pc'[l]) = 9
                 PROVE  handler'[l].aim \in Loops \X Users /\ handler'[l].aim[2] # User(l)
      OBVIOUS
    <2>1. PICK s \in Loops : handler'[l].aim = <<s, w>>
      BY <1>1
    <2> QED BY <1>3, <2>1
  <1>6. SocketsOK' /\ Entries' /\ (\A k \in Loops : HandlerOK(k)') /\ (stop.phase = "running" => stop.loop = 0)'
    BY <1>1, <1>3, <1>4, <1>5, TalksKeeps
  <1>7. TasksOK' /\ \A k \in Loops : Stopping(k)'
    BY <1>1, WaitingKeeps
  <1>8. Single' /\ \A u \in Users : SocketWritten(u)' /\ StatusWritten(u)'
    BY <1>1, LaterSingle DEF At, Downloaded
  <1>9. \A o \in owed' : Owed(o[1], o[2])'
    BY TellOwed
  <1> QED BY <1>2, <1>6, <1>7, <1>8, <1>9 DEF PresenceInv

LEMMA DeferKeeps ==
  ASSUME PresenceInv, NEW l \in Loops, Defer(l)
  PROVE  PresenceInv'
  <1>1. /\ Talks(l) /\ At(l) = 9 /\ Rank(pc'[l]) = 8
        /\ objects' = objects /\ listed' = listed /\ owed' = owed /\ torn' = torn /\ unheard' = unheard
        /\ handler'[l].left = handler[l].left /\ handler'[l].mine = handler[l].mine
        /\ tasks' \in [Loops -> Seq(TaskTypes)]
    BY DeferIs
  <1>2. PresenceTypes'
    BY <1>1, VariablesAre, TalksTypes
  <1>3. User(l) \notin handler'[l].left
    BY <1>1, ServedIs
  <1>4. Rank(pc'[l]) # 9 /\ (handler'[l].mine => objects'[User(l)] # NoObject)
    BY <1>1, ServedIs
  <1>5. SocketsOK' /\ Entries' /\ (\A k \in Loops : HandlerOK(k)') /\ (stop.phase = "running" => stop.loop = 0)'
    BY <1>1, <1>3, <1>4, TalksKeeps
  <1>6. TasksOK' /\ \A k \in Loops : Stopping(k)'
    BY DeferWaiting
  <1>7. Single' /\ \A u \in Users : SocketWritten(u)' /\ StatusWritten(u)'
    BY <1>1, LaterSingle DEF At, Downloaded
  <1>8. \A o \in owed' : Owed(o[1], o[2])'
    BY DeferOwed
  <1> QED BY <1>2, <1>5, <1>6, <1>7, <1>8 DEF PresenceInv

(***************************************************************************)
(* The first step of a handler.                                            *)
(***************************************************************************)
Entered(l, e) ==
    \/ Opening(l) /\ e = handler[l].connection /\ late \subseteq late' /\ (Copied(l) => e \in late')
    \/ Closing(l) /\ e = NoConnection /\ late \subseteq late'

LEMMA FirstFrame ==
  ASSUME PresenceInv, NEW l \in Loops, NEW e, FirstStep(l, e)
  PROVE  /\ \A k \in Loops, u \in Users : Serves(k, u)' <=> Serves(k, u)
         /\ \A d \in Connections, u \in Users : On(d, u)' <=> On(d, u)
         /\ \A k \in Loops : (Opening(k)' <=> Opening(k)) /\ (Closing(k)' <=> Closing(k)) /\ User(k)' = User(k)
         /\ \A k \in Loops \ {l} : At(k)' = At(k)
         /\ At(l) = 1 /\ At(l)' = 2 /\ User(l) \in Users /\ Serves(l, User(l))
         /\ \A k \in Loops, u \in Users : Entry(k, u)' = IF k = l /\ u = User(l) THEN e ELSE Entry(k, u)
         /\ \A k \in Loops, u \in Users : k # l \/ u # User(l) => (Removing(k, u)' <=> Removing(k, u))
  BY UserIs DEF FirstStep, User, Moved, At, Opening, Closing, Serves, On, Entry, Removing

LEMMA FirstStays ==
  ASSUME PresenceInv, NEW l \in Loops, NEW e, FirstStep(l, e), late' \subseteq Connections, Entered(l, e)
  PROVE  /\ PresenceTypes' /\ SocketsOK' /\ TasksOK' /\ Entries' /\ (\A k \in Loops : HandlerOK(k)' /\ Stopping(k)')
         /\ (\A u \in Users : SocketWritten(u)' /\ StatusWritten(u)') /\ (stop.phase = "running" => stop.loop = 0)'
  <1>1. /\ owner' = owner /\ accepted' = accepted /\ conn' = conn /\ listening' = listening /\ ended' = ended
        /\ objects' = objects /\ listed' = listed /\ tasks' = tasks /\ handler' = handler /\ stop' = stop /\ told' = told
        /\ owed' = owed /\ overlapped' = overlapped /\ torn' = torn /\ unheard' = unheard
        /\ UserIdToWebSocketPtrMap' \in [Loops -> [Users -> 0..MaxConnections]]
        /\ pc' \in [Threads -> HandlerPlaces]
    BY DEF FirstStep, Moved
  <1>2. PresenceTypes'
    BY <1>1 DEF PresenceInv, PresenceTypes
  <1>3. e # NoConnection => e \in DOMAIN owner /\ owner[e] = User(l) /\ conn[e] = l
    BY OpenIsOn DEF On, Entered, User
  <1>4. SocketsOK'
    BY <1>1, <1>3, FirstFrame DEF PresenceInv, SocketsOK
  <1>5. TasksOK'
    BY <1>1 DEF PresenceInv, TasksOK, TaskOK
  <1>6. Entries'
    BY <1>1, <1>3, FirstFrame DEF Entries, PresenceInv
  <1>7. ASSUME NEW k \in Loops
        PROVE  HandlerOK(k)'
    BY <1>1, FirstFrame DEF PresenceInv, HandlerOK
  <1>8. ASSUME NEW k \in Loops
        PROVE  Stopping(k)'
    BY <1>1, FirstFrame DEF Copied, PresenceInv, Stopping, Entered
  <1>9. ASSUME NEW u \in Users
        PROVE  SocketWritten(u)' /\ StatusWritten(u)'
    BY <1>1, FirstFrame DEF PresenceInv, TakesSocketOut, TakesStatusOut, SocketWritten,
       StatusWritten
  <1>10. (stop.phase = "running" => stop.loop = 0)'
    BY <1>1 DEF PresenceInv
  <1> QED BY <1>2, <1>4, <1>5, <1>6, <1>7, <1>8, <1>9, <1>10

LEMMA FirstOwnEntry ==
  ASSUME PresenceInv, NEW l \in Loops, NEW e, FirstStep(l, e), Entered(l, e),
         NEW d \in Connections, NEW u \in Users \ overlapped, On(d, u), Entry(conn[d], u) = d \/ Serves(conn[d], u)
  PROVE  conn[d] = l /\ u = User(l) => Entry(l, u)' = d
  BY FirstFrame, OwnHandler, BusyIs DEF Entered, PresenceInv

LEMMA FirstSingle ==
  ASSUME PresenceInv, NEW l \in Loops, NEW e, FirstStep(l, e), Entered(l, e)
  PROVE  Single'
  <1>1. /\ owner' = owner /\ conn' = conn /\ objects' = objects /\ handler' = handler
        /\ overlapped' = overlapped /\ torn' = torn
    BY DEF FirstStep
  <1> SUFFICES ASSUME NEW u \in Users \ overlapped
               PROVE  Alone(u)' /\ \A d \in Connections : On(d, u)' => InMap(d, u)' /\ InObject(d, u)'
    BY <1>1 DEF Single
  <1>2. Alone(u)'
    BY <1>1, FirstFrame DEF PresenceInv, Single, Alone
  <1>3. ASSUME NEW d \in Connections, On(d, u)'
        PROVE  InMap(d, u)' /\ InObject(d, u)'
    <2>1. On(d, u)
      BY <1>3, FirstFrame
    <2>2. InMap(d, u) /\ InObject(d, u)
      BY <2>1 DEF PresenceInv, Single
    <2>5. PICK k \in Loops : k = conn[d] /\ k = conn'[d]
      BY <1>1, <2>1 DEF On, PresenceInv, PresenceTypes
    <2>6. (Serves(k, u)' <=> Serves(k, u)) /\ (At(k)' = At(k) \/ (At(k) = 1 /\ At(k)' = 2))
      BY FirstFrame
    <2>3. InMap(d, u)'
      <3>0. InMap(d, u)' <=> Entry(k, u)' = d \/ (At(k)' = 1 /\ Serves(k, u)')
        BY <2>5 DEF InMap, Entry, At, Serves, User
      <3>1. CASE k = l /\ u = User(l)
        <4>1. Serves(conn[d], u)
          BY <2>5, <3>1, FirstFrame
        <4>2. Entry(l, u)' = d
          BY <2>1, <2>5, <3>1, <4>1, FirstOwnEntry
        <4> QED BY <3>0, <3>1, <4>2
      <3>2. CASE k = l /\ u # User(l)
        BY <2>2, <2>5, <3>0, <3>2, FirstFrame DEF Serves, InMap
      <3>3. CASE k # l
        BY <2>2, <2>5, <2>6, <3>0, <3>3, FirstFrame DEF InMap
      <3> QED BY <3>1, <3>2, <3>3
    <2>4. InObject(d, u)'
      BY <1>1, <2>2, <2>5, <2>6 DEF InObject, Shown, Clean
    <2> QED BY <2>3, <2>4
  <1> QED BY <1>2, <1>3

LEMMA FirstOwed ==
  ASSUME PresenceInv, NEW l \in Loops, NEW e, FirstStep(l, e), Entered(l, e), NEW o \in owed'
  PROVE  Owed(o[1], o[2])'
  <1>1. /\ owner' = owner /\ conn' = conn /\ objects' = objects /\ handler' = handler /\ tasks' = tasks /\ told' = told
        /\ overlapped' = overlapped /\ unheard' = unheard /\ owed' = owed
    BY DEF FirstStep
  <1>2. PICK d \in Connections, u \in Users : o[1] = d /\ o[2] = u /\ Owed(d, u)
    BY <1>1, OwedPair
  <1>3. conn[d] # NoSocket /\ conn[d] \in Loops /\ owner[d] \in Users /\ On(d, owner[d]) /\ owner[d] # u
    BY <1>2, OwnerIs DEF Owed
  <1>4. ASSUME owner[d] \notin overlapped
        PROVE  Reachable(d)'
    BY <1>1, <1>2, <1>3, <1>4, FirstOwnEntry, FirstFrame DEF Owed, Reachable, Entry
  <1>5. \A s : Hears(d, u, s)' <=> Hears(d, u, s)
    BY <1>1 DEF Hears
  <1>6. Presently(u)' = Presently(u)
    BY <1>1 DEF Presently, Connected
  <1>7. ASSUME NEW k \in Loops
        PROVE  /\ (StillTells(k, d) => StillTells(k, d)') /\ (Serves(k, u)' <=> Serves(k, u)) /\ (Closing(k)' <=> Closing(k))
    BY <1>1, FirstFrame DEF StillTells
  <1>8. ASSUME OwedStatus(d, u)
        PROVE  OwedStatus(d, u)'
    BY <1>5, <1>6, <1>7, <1>8 DEF OwedStatus
  <1>9. ASSUME OwedOffline(d, u)
        PROVE  OwedOffline(d, u)'
    BY <1>5, <1>7, <1>9, FirstFrame DEF OwedOffline
  <1> QED BY <1>1, <1>2, <1>4, <1>8, <1>9 DEF Owed

LEMMA AddSocketKeeps ==
  ASSUME PresenceInv, NEW l \in Loops, AddSocket(l)
  PROVE  PresenceInv'
  BY AddSocketIs, FirstStays, FirstSingle, FirstOwed DEF Entered, PresenceInv

LEMMA RemoveSocketKeeps ==
  ASSUME PresenceInv, NEW l \in Loops, RemoveSocket(l)
  PROVE  PresenceInv'
  BY RemoveSocketIs, FirstStays, FirstSingle, FirstOwed DEF PresenceInv, PresenceTypes, Entered

(***************************************************************************)
(* The steps that leave connections, handlers and cached objects alone.    *)
(***************************************************************************)
Stands ==
    /\ conn' = conn /\ UserIdToWebSocketPtrMap' = UserIdToWebSocketPtrMap /\ objects' = objects /\ handler' = handler
    /\ pc' = pc /\ owed' = owed /\ overlapped' = overlapped /\ torn' = torn /\ unheard' = unheard /\ late' = late
    /\ \A d \in DOMAIN owner : d \in DOMAIN owner' /\ owner'[d] = owner[d]
    /\ DOMAIN owner' \subseteq Connections

LEMMA StandsFrame ==
  ASSUME PresenceInv, Stands
  PROVE  /\ \A k \in Loops : /\ At(k)' = At(k) /\ (Opening(k)' <=> Opening(k)) /\ (Closing(k)' <=> Closing(k))
                             /\ At(k) # 0 => User(k)' = User(k)
         /\ \A k \in Loops, u \in Users : Serves(k, u)' <=> Serves(k, u)
         /\ \A d \in Connections, u \in Users : On(d, u)' <=> On(d, u)
         /\ \A k \in Loops, u \in Users : Entry(k, u)' = Entry(k, u) /\ (Removing(k, u)' <=> Removing(k, u))
         /\ \A k \in Loops, u \in Users : Entry(k, u) = NoConnection \/ Entry(k, u) \in Connections
         /\ \A u \in Users : Presently(u)' = Presently(u)
  <1>1. \A k \in Loops : At(k)' = At(k) /\ (Opening(k)' <=> Opening(k)) /\ (Closing(k)' <=> Closing(k))
    BY DEF Stands, At, Opening, Closing
  <1>2. \A k \in Loops : At(k) # 0 => User(k)' = User(k)
    BY UserIs DEF Stands, User
  <1>3. \A k \in Loops, u \in Users : Serves(k, u)' <=> Serves(k, u)
    BY <1>1, <1>2 DEF Serves
  <1>4. \A d \in Connections, u \in Users : On(d, u)' <=> On(d, u)
    BY OwnerIs DEF Stands, On
  <1>5. \A k \in Loops, u \in Users : Entry(k, u)' = Entry(k, u) /\ (Removing(k, u)' <=> Removing(k, u))
    BY <1>1, <1>3 DEF Stands, Entry, Removing
  <1>6. \A k \in Loops, u \in Users : Entry(k, u) = NoConnection \/ Entry(k, u) \in Connections
    BY LoopsAre DEF PresenceInv, PresenceTypes, Entry
  <1>7. ASSUME NEW u \in Users
        PROVE  Presently(u)' = Presently(u)
    BY OwnerIs DEF Connected, Stands, Presently
  <1> QED BY <1>1, <1>2, <1>3, <1>4, <1>5, <1>6, <1>7

LEMMA StandsKeeps ==
  ASSUME PresenceInv, Stands, \A l \in Loops : l \in ended' => l \in ended \/ At(l) = 0,
         \A d \in Connections, u \in Users, s \in Statuses : conn[d] # NoSocket /\ Hears(d, u, s) => Hears(d, u, s)'
  PROVE  /\ Entries' /\ Single' /\ (\A l \in Loops : HandlerOK(l)') /\ (\A u \in Users : SocketWritten(u)' /\ StatusWritten(u)')
         /\ \A o \in owed' : Owed(o[1], o[2])'
  <1>1. /\ conn' = conn /\ UserIdToWebSocketPtrMap' = UserIdToWebSocketPtrMap /\ objects' = objects /\ handler' = handler
        /\ pc' = pc /\ owed' = owed /\ overlapped' = overlapped /\ torn' = torn /\ unheard' = unheard
        /\ \A d \in DOMAIN owner : d \in DOMAIN owner' /\ owner'[d] = owner[d]
    BY DEF Stands
  <1>2. Entries'
    BY <1>1, StandsFrame DEF PresenceInv, Entries
  <1>3. ASSUME NEW l \in Loops
        PROVE  HandlerOK(l)'
    BY <1>1, StandsFrame DEF PresenceInv, HandlerOK
  <1>4. ASSUME NEW u \in Users
        PROVE  SocketWritten(u)' /\ StatusWritten(u)'
    BY <1>1, StandsFrame DEF PresenceInv, TakesSocketOut, TakesStatusOut, SocketWritten,
       StatusWritten
  <1>5. Single'
    <2> SUFFICES ASSUME NEW u \in Users \ overlapped
                 PROVE  Alone(u)' /\ \A d \in Connections : On(d, u)' => InMap(d, u)' /\ InObject(d, u)'
      BY <1>1 DEF Single
    <2>1. Alone(u)
      BY DEF PresenceInv, Single
    <2>2. Alone(u)'
      BY <1>1, <2>1, StandsFrame DEF Alone
    <2>3. ASSUME NEW d \in Connections, On(d, u)'
          PROVE  InMap(d, u)' /\ InObject(d, u)'
      <3>1. On(d, u)
        BY <2>3, StandsFrame
      <3>2. InMap(d, u) /\ InObject(d, u)
        BY <3>1 DEF PresenceInv, Single
      <3>3. PICK k \in Loops : k = conn[d] /\ k = conn'[d]
        BY <1>1, <3>1 DEF On, PresenceInv, PresenceTypes
      <3>4. (Serves(k, u)' <=> Serves(k, u)) /\ At(k)' = At(k) /\ Entry(k, u)' = Entry(k, u)
        BY StandsFrame
      <3>5. InMap(d, u)' <=> Entry(k, u)' = d \/ (At(k)' = 1 /\ Serves(k, u)')
        BY <3>3 DEF InMap, Entry, At, Serves, User
      <3>6. InMap(d, u)'
        BY <3>2, <3>3, <3>4, <3>5 DEF InMap
      <3>7. InObject(d, u)'
        BY <1>1, <3>2, <3>3, <3>4 DEF InObject, Shown, Clean
      <3> QED BY <3>6, <3>7
    <2> QED BY <2>2, <2>3
  <1>6. ASSUME NEW o \in owed'
        PROVE  Owed(o[1], o[2])'
    <2>1. PICK d \in Connections, u \in Users : o[1] = d /\ o[2] = u /\ Owed(d, u)
      BY <1>1, <1>6, OwedPair
    <2>2. conn[d] # NoSocket /\ conn[d] \in Loops /\ d \in DOMAIN owner /\ owner[d] # u
      BY <2>1, OwnerIs DEF Owed
    <2>3. owner'[d] = owner[d]
      BY <1>1, <2>2
    <2>4. Reachable(d)' <=> Reachable(d)
      BY <1>1, <2>3 DEF Reachable, Entry
    <2>5. \A k \in Loops : StillTells(k, d)' <=> StillTells(k, d)
      BY <1>1, <2>3, StandsFrame DEF StillTells
    <2>6. Presently(u)' = Presently(u) /\ Presently(u) \in Statuses /\ "Offline" \in Statuses
      BY StandsFrame DEF Presently, Statuses
    <2>7. Hears(d, u, Presently(u)) => Hears(d, u, Presently(u))'
      BY <2>2, <2>6 DEF Hears
    <2>8. Hears(d, u, "Offline") => Hears(d, u, "Offline")'
      BY <2>2, <2>6
    <2>9. OwedStatus(d, u) => OwedStatus(d, u)'
      BY <2>5, <2>7, StandsFrame DEF OwedStatus
    <2>10. OwedOffline(d, u) => OwedOffline(d, u)'
      BY <2>5, <2>8, StandsFrame DEF OwedOffline
    <2> QED BY <1>1, <2>1, <2>2, <2>3, <2>4, <2>9, <2>10 DEF Owed
  <1> QED BY <1>2, <1>3, <1>4, <1>5, <1>6

\* The stop stays where it is, and so does what waits to be closed.
LEMMA StandsStopping ==
  ASSUME PresenceInv, Stands, stop' = stop, NEW k \in Loops,
         \A u \in Users : Entry(k, u) # NoConnection /\ Closes(tasks[k], Entry(k, u)) => Closes(tasks'[k], Entry(k, u))
  PROVE  Stopping(k)'
  BY StandsFrame DEF Stands, PresenceInv, Copied, Closes, Stopping

LEMMA AcceptKeeps ==
  ASSUME PresenceInv, NEW l \in Loops, NEW u \in Users, Accept(l, u)
  PROVE  PresenceInv'
  <1>1. /\ l \in listening /\ Len(owner) < MaxConnections /\ owner' = Append(owner, u)
        /\ accepted' = [accepted EXCEPT ![Len(owner')] = l]
    BY DEF Accept
  <1>2. /\ conn' = conn /\ UserIdToWebSocketPtrMap' = UserIdToWebSocketPtrMap /\ tasks' = tasks /\ listening' = listening
        /\ ended' = ended /\ objects' = objects /\ listed' = listed /\ handler' = handler /\ stop' = stop /\ told' = told
        /\ owed' = owed /\ overlapped' = overlapped /\ torn' = torn /\ unheard' = unheard /\ late' = late /\ pc' = pc
    BY DEF Accept, presenceHistory
  <1>3. PICK s \in Seq(Users) : s = owner
    BY DEF PresenceInv, PresenceTypes
  <1>4. PICK n \in Nat : n = Len(s) /\ DOMAIN s = 1..n
    BY <1>3
  <1>5. PICK r : r = owner'
    OBVIOUS
  <1>6. r \in Seq(Users) /\ DOMAIN r = 1..n + 1 /\ Len(r) = n + 1 /\ \A i \in 1..n : r[i] = s[i]
    BY <1>1, <1>3, <1>4, <1>5
  <1>7. n + 1 \in Connections /\ n + 1 <= MaxConnections
    BY <1>1, <1>3, <1>4, LoopsAre
  <1>8. accepted' = [accepted EXCEPT ![n + 1] = l]
    BY <1>1, <1>5, <1>6
  <1>9. /\ accepted' \in [Connections -> Loops \cup {NoSocket}] /\ accepted'[n + 1] = l
        /\ \A d \in Connections : d # n + 1 => accepted'[d] = accepted[d]
    BY <1>7, <1>8 DEF PresenceInv, PresenceTypes
  <1>10. PresenceTypes'
    BY <1>2, <1>5, <1>6, <1>7, <1>9 DEF PresenceInv, PresenceTypes
  <1>11. Stands
    BY <1>2, <1>3, <1>4, <1>5, <1>6, <1>7, LoopsAre DEF Stands
  <1>12. SocketsOK'
    BY <1>1, <1>2, <1>3, <1>4, <1>5, <1>6, <1>7, <1>9, <1>11, LoopsAre DEF PresenceInv, SocketsOK,
       PresenceTypes, Stands, Entry
  <1>13. TasksOK'
    BY <1>2, <1>11 DEF TaskOK, Stands, PresenceInv, TasksOK
  <1>14. \A k \in Loops : Stopping(k)'
    BY <1>2, <1>11, StandsStopping
  <1>15. \A d \in Connections, w \in Users, st \in Statuses : Hears(d, w, st) => Hears(d, w, st)'
    BY <1>2 DEF Hears
  <1>16. (stop.phase = "running" => stop.loop = 0)'
    BY <1>2 DEF PresenceInv
  <1> QED BY <1>2, <1>10, <1>11, <1>12, <1>13, <1>14, <1>15, <1>16, StandsKeeps DEF PresenceInv


LEMMA RefuseKeeps ==
  ASSUME PresenceInv, NEW l \in Loops, NEW d \in Connections, Refuse(l, d)
  PROVE  PresenceInv'
  <1>1. accepted[d] = l /\ accepted' = [accepted EXCEPT ![d] = NoSocket]
    BY DEF Refuse
  <1>2. /\ owner' = owner /\ conn' = conn /\ UserIdToWebSocketPtrMap' = UserIdToWebSocketPtrMap /\ tasks' = tasks
        /\ listening' = listening /\ ended' = ended /\ objects' = objects /\ listed' = listed /\ handler' = handler
        /\ stop' = stop /\ told' = told /\ owed' = owed /\ overlapped' = overlapped /\ torn' = torn /\ unheard' = unheard
        /\ late' = late /\ pc' = pc
    BY DEF Refuse, presenceHistory
  <1>3. /\ accepted' \in [Connections -> Loops \cup {NoSocket}]
        /\ \A e \in Connections : accepted'[e] = accepted[e] \/ accepted'[e] = NoSocket
    BY <1>1 DEF PresenceInv, PresenceTypes
  <1>4. PresenceTypes'
    BY <1>2, <1>3 DEF PresenceInv, PresenceTypes
  <1>5. Stands
    BY <1>2, DomainIs DEF Stands, PresenceInv
  <1>6. SocketsOK'
    BY <1>2, <1>3, LoopsAre DEF PresenceInv, PresenceTypes, SocketsOK, Entry
  <1>7. TasksOK' /\ (stop.phase = "running" => stop.loop = 0)'
    BY <1>2 DEF PresenceInv, TasksOK, TaskOK
  <1>8. \A k \in Loops : Stopping(k)'
    BY <1>2, <1>5, StandsStopping
  <1>9. \A e \in Connections, w \in Users, st \in Statuses : Hears(e, w, st) => Hears(e, w, st)'
    BY <1>2 DEF Hears
  <1> QED BY <1>2, <1>4, <1>5, <1>6, <1>7, <1>8, <1>9, StandsKeeps DEF PresenceInv

LEMMA EndLoopKeeps ==
  ASSUME PresenceInv, NEW l \in Loops, EndLoop(l)
  PROVE  PresenceInv'
  <1>1. /\ ~Busy(l) /\ l \notin listening /\ (\A d \in Connections : conn[d] # l /\ accepted[d] # l)
        /\ ended' = ended \cup {l}
    BY DEF EndLoop
  <1>2. /\ owner' = owner /\ accepted' = accepted /\ conn' = conn /\ UserIdToWebSocketPtrMap' = UserIdToWebSocketPtrMap
        /\ tasks' = tasks /\ listening' = listening /\ objects' = objects /\ listed' = listed /\ handler' = handler
        /\ stop' = stop /\ told' = told /\ owed' = owed /\ overlapped' = overlapped /\ torn' = torn /\ unheard' = unheard
        /\ late' = late /\ pc' = pc
    BY DEF EndLoop, presenceHistory
  <1>3. PresenceTypes'
    BY <1>1, <1>2 DEF PresenceInv, PresenceTypes
  <1>4. Stands
    BY <1>2, DomainIs DEF Stands, PresenceInv
  <1>5. SocketsOK'
    BY <1>1, <1>2 DEF PresenceInv, SocketsOK, Entry
  <1>6. TasksOK' /\ (stop.phase = "running" => stop.loop = 0)'
    BY <1>2 DEF PresenceInv, TasksOK, TaskOK
  <1>7. \A k \in Loops : Stopping(k)'
    BY <1>2, <1>4, StandsStopping
  <1>8. \A e \in Connections, w \in Users, st \in Statuses : Hears(e, w, st) => Hears(e, w, st)'
    BY <1>2 DEF Hears
  <1>9. \A k \in Loops : k \in ended' => k \in ended \/ At(k) = 0
    BY <1>1, BusyIs DEF PresenceInv
  <1> QED BY <1>3, <1>4, <1>5, <1>6, <1>7, <1>8, <1>9, StandsKeeps DEF PresenceInv

(***************************************************************************)
(* The steps of the stop.                                                  *)
(***************************************************************************)
StopMoves ==
    /\ owner' = owner /\ accepted' = accepted /\ conn' = conn /\ UserIdToWebSocketPtrMap' = UserIdToWebSocketPtrMap
    /\ ended' = ended /\ objects' = objects /\ listed' = listed /\ handler' = handler
    /\ told' = told /\ owed' = owed /\ overlapped' = overlapped /\ torn' = torn /\ unheard' = unheard
    /\ late' = late /\ pc' = pc

LEMMA StopKeeps ==
  ASSUME PresenceInv, StopMoves, tasks' = tasks, listening' \subseteq listening,
         stop' \in [phase : {"running", "listener", "copy", "close", "join", "stopped"}, loop : Loops, left : SUBSET Users],
         stop'.phase # "running", \A k \in Loops : Stopping(k)'
  PROVE  PresenceInv'
  <1>1. PresenceTypes'
    BY DEF StopMoves, PresenceInv, PresenceTypes
  <1>2. Stands
    BY DomainIs DEF Stands, StopMoves, PresenceInv
  <1>3. SocketsOK' /\ TasksOK'
    BY DEF StopMoves, PresenceInv, SocketsOK, Entry, TasksOK, TaskOK
  <1>4. \A e \in Connections, w \in Users, st \in Statuses : Hears(e, w, st) => Hears(e, w, st)'
    BY DEF Hears, StopMoves
  <1>5. ended' = ended
    BY DEF StopMoves
  <1> QED BY <1>1, <1>2, <1>3, <1>4, <1>5, StandsKeeps DEF PresenceInv

LEMMA StopIs ==
  ASSUME PresenceInv
  PROVE  /\ stop.phase \in {"running", "listener", "copy", "close", "join", "stopped"} /\ stop.loop \in Loops
         /\ stop.loop \in Int /\ stop.left \subseteq Users
         /\ stop \in [phase : {"running", "listener", "copy", "close", "join", "stopped"}, loop : Loops, left : SUBSET Users]
  BY LoopsAre DEF PresenceInv, PresenceTypes

\* The maps that are not newly copied are as they were.
LEMMA StopStopping ==
  ASSUME PresenceInv, StopMoves, tasks' = tasks, NEW k \in Loops,
         Copied(k)' => Copied(k),
         stop.phase = "close" /\ stop.loop = k => stop.left = {} \/ stop' = stop
  PROVE  Stopping(k)'
  BY DomainIs, StandsFrame DEF PresenceInv, Stands, StopMoves, Closes, Stopping

LEMMA BeginStopKeeps ==
  ASSUME PresenceInv, BeginStop
  PROVE  PresenceInv'
  BY StopIs, PresenceAssumption, LoopsAre, StopKeeps DEF BeginStop, PresenceInv, StopMoves, sockets,
     presenceHistory, Copied, Stopping

LEMMA CloseListenerKeeps ==
  ASSUME PresenceInv, CloseListener
  PROVE  PresenceInv'
  BY StopIs, StopStopping, StopKeeps DEF CloseListener, StopMoves, presenceHistory, Copied

LEMMA CopyMapKeeps ==
  ASSUME PresenceInv, CopyMap
  PROVE  PresenceInv'
  BY StopIs, StopStopping, StopKeeps DEF CopyMap, StopMoves, sockets, presenceHistory, Entry,
     Stopping, Copied

LEMMA NextLoopKeeps ==
  ASSUME PresenceInv, NextLoop
  PROVE  PresenceInv'
  <1>1. /\ stop.phase = "close" /\ stop.left = {}
        /\ stop' = IF stop.loop + 1 \in Loops THEN [stop EXCEPT !.phase = "listener", !.loop = @ + 1]
                                              ELSE [stop EXCEPT !.phase = "join"]
    BY DEF NextLoop
  <1>2. StopMoves /\ tasks' = tasks /\ listening' = listening
    BY DEF NextLoop, StopMoves, sockets, presenceHistory
  <1>3. \A k \in Loops : k \in Int
    BY LoopsAre
  <1>4. CASE stop.loop + 1 \in Loops
    <2>1. stop' = [stop EXCEPT !.phase = "listener", !.loop = stop.loop + 1]
      BY <1>1, <1>4
    <2>2. /\ stop' \in [phase : {"running", "listener", "copy", "close", "join", "stopped"}, loop : Loops, left : SUBSET Users]
          /\ stop'.phase = "listener" /\ stop'.loop = stop.loop + 1
      BY <1>4, <2>1, StopIs
    <2>3. \A k \in Loops : Copied(k)' => Copied(k)
      BY <1>1, <1>3, <2>2, StopIs DEF Copied
    <2>4. \A k \in Loops : Stopping(k)'
      BY <1>1, <1>2, <2>3, StopStopping
    <2> QED BY <1>2, <2>2, <2>4, StopKeeps
  <1>5. CASE stop.loop + 1 \notin Loops
    BY <1>1, <1>2, <1>3, <1>5, StopIs, LoopsAre, StopStopping, StopKeeps DEF Copied
  <1> QED BY <1>4, <1>5

LEMMA JoinKeeps ==
  ASSUME PresenceInv, Join
  PROVE  PresenceInv'
  BY StopIs, StopStopping, StopKeeps DEF Join, StopMoves, sockets, presenceHistory, Copied

LEMMA DeferCloseKeeps ==
  ASSUME PresenceInv, NEW u \in Users, DeferClose(u)
  PROVE  PresenceInv'
  <1>1. /\ stop.phase = "close" /\ u \in stop.left /\ stop' = [stop EXCEPT !.left = @ \ {u}]
        /\ tasks' = Deferred(stop.loop, u, CloseTask)
    BY DEF DeferClose
  <1>2. StopMoves /\ listening' = listening
    BY DEF DeferClose, StopMoves, presenceHistory
  <1>3. /\ stop' \in [phase : {"running", "listener", "copy", "close", "join", "stopped"}, loop : Loops, left : SUBSET Users]
        /\ stop'.phase = "close" /\ stop'.loop = stop.loop /\ stop'.left = stop.left \ {u}
    BY <1>1, StopIs
  <1>4. PICK to \in Loops : to = stop.loop
    BY StopIs
  <1>5. Stands
    BY <1>2, DomainIs DEF Stands, StopMoves, PresenceInv
  <1>6. \A k \in Loops : Copied(k)' <=> Copied(k)
    BY <1>1, <1>3 DEF Copied
  <1>7. \A k \in Loops, w \in Users : Entry(k, w)' = Entry(k, w) /\ (Removing(k, w)' <=> Removing(k, w))
    BY <1>5, StandsFrame
  <1>8. late' = late /\ owner' = owner /\ ended' = ended /\ conn' = conn /\ told' = told
    BY <1>2 DEF StopMoves
  <1>9. SocketsOK'
    BY <1>2 DEF StopMoves, PresenceInv, SocketsOK, Entry
  <1>10. \A k \in Loops : Stopping(k)
    BY DEF PresenceInv
  <1>11. CASE Entry(to, u) = NoConnection
    <2>1. tasks' = tasks
      BY <1>1, <1>4, <1>11 DEF Deferred
    <2>2. PresenceTypes'
      BY <1>2, <1>3, <2>1 DEF StopMoves, PresenceInv, PresenceTypes
    <2>3. TasksOK'
      BY <1>8, <2>1 DEF PresenceInv, TasksOK, TaskOK
    <2>4. ASSUME NEW k \in Loops
          PROVE  Stopping(k)'
      BY <1>3, <1>4, <1>6, <1>7, <1>8, <1>10, <1>11, <2>1 DEF Closes, Stopping
    <2>5. \A e \in Connections, w \in Users, st \in Statuses : Hears(e, w, st) => Hears(e, w, st)'
      BY <1>8, <2>1 DEF Hears
    <2>6. (stop.phase = "running" => stop.loop = 0)'
      BY <1>3
    <2> QED BY <1>5, <1>8, <1>9, <2>2, <2>3, <2>4, <2>5, <2>6, StandsKeeps DEF PresenceInv
  <1>12. CASE Entry(to, u) # NoConnection
    <2>1. PICK d \in Connections : d = Entry(to, u)
      BY <1>12, DomainIs DEF PresenceInv, SocketsOK
    <2>2. PICK sent \in Closings : sent = [to |-> d, about |-> NoConnection, status |-> "close"]
      BY DEF Closings
    <2>3. sent = [CloseTask EXCEPT !.to = Entry(to, u)]
      BY <2>1, <2>2 DEF CloseTask
    <2>4. sent.to = d /\ sent.status = "close"
      BY <2>2
    <2>5. sent \in TaskTypes
      BY DEF TaskTypes
    <2>6. PICK q \in Seq(TaskTypes) : q = tasks[to]
      BY DEF PresenceInv, PresenceTypes, TaskTypes
    <2>7. /\ tasks' \in [Loops -> Seq(TaskTypes)] /\ (\A k \in Loops \ {to} : tasks'[k] = tasks[k])
          /\ tasks'[to] = Append(q, sent)
      BY <1>1, <1>4, <1>12, <2>3, <2>5, <2>6, DeferredIs
    <2>8. PresenceTypes'
      BY <1>2, <1>3, <2>7 DEF StopMoves, PresenceInv, PresenceTypes, TaskTypes
    <2>9. TasksOK'
      <3> SUFFICES ASSUME NEW k \in Loops, NEW i \in DOMAIN tasks'[k]
                   PROVE  TaskOK(tasks'[k][i])
        BY <1>8 DEF TasksOK, TaskOK
      <3>1. CASE k # to
        BY <2>7, <3>1 DEF PresenceInv, TasksOK
      <3>2. CASE k = to
        BY <1>12, <2>1, <2>4, <2>5, <2>6, <2>7, <3>2, AppendedAre DEF PresenceInv, SocketsOK,
           TaskOK, TasksOK
      <3> QED BY <3>1, <3>2
    <2>10. ASSUME NEW k \in Loops
           PROVE  Stopping(k)'
      <3>1. \A w \in Users : Closes(tasks[k], Entry(k, w)) => Closes(tasks[k], Entry(k, w))'
        <4> SUFFICES ASSUME NEW w \in Users, Closes(tasks[k], Entry(k, w))
                     PROVE  Closes(tasks[k], Entry(k, w))'
          OBVIOUS
        <4>1. CASE k # to
          BY <1>7, <2>7, <4>1 DEF Closes
        <4>2. CASE k = to
          <5>1. Closes(Append(q, sent), Entry(k, w))
            BY <2>5, <2>6, <4>2, ClosesAppended
          <5> QED BY <1>7, <2>7, <4>2, <5>1 DEF Closes
        <4> QED BY <4>1, <4>2
      <3>2. k = to => Closes(tasks[k], Entry(k, u))'
        BY <1>7, <2>1, <2>4, <2>5, <2>7, ClosesAppended DEF Closes
      <3> QED BY <1>3, <1>4, <1>6, <1>7, <1>8, <1>10, <3>1, <3>2 DEF Stopping
    <2>11. ASSUME NEW e \in Connections, NEW w \in Users, NEW st \in Statuses, conn[e] # NoSocket, Hears(e, w, st)
           PROVE  Hears(e, w, st)'
      BY <1>8, <2>4, <2>5, <2>6, <2>7, <2>11, OwnerIs, HearsAppended DEF Hears, About
    <2>12. (stop.phase = "running" => stop.loop = 0)'
      BY <1>3
    <2> QED BY <1>5, <1>8, <1>9, <2>8, <2>9, <2>10, <2>11, <2>12, StandsKeeps DEF PresenceInv
  <1> QED BY <1>11, <1>12

(***************************************************************************)
(* Tasks that are run.                                                     *)
(***************************************************************************)
\* A loop takes the first of its tasks.
Takes(l, task, q) ==
    /\ At(l) = 0 /\ q = tasks[l] /\ q # <<>> /\ task = Head(q) /\ task.to \in Connections
    /\ tasks' \in [Loops -> Seq(TaskTypes)] /\ tasks'[l] = Tail(q) /\ \A k \in Loops \ {l} : tasks'[k] = tasks[k]

LEMMA TakenTypes ==
  ASSUME PresenceInv, NEW l \in Loops, NEW task \in TaskTypes, NEW q \in Seq(TaskTypes), Takes(l, task, q), owner' = owner
  PROVE  TasksOK' /\ TaskOK(task)
  <1>1. DOMAIN Tail(q) = 1..Len(q) - 1 /\ DOMAIN q = 1..Len(q) /\ Len(q) \in Nat /\ Len(q) > 0
        /\ (\A i \in 1..Len(q) - 1 : Tail(q)[i] = q[i + 1]) /\ Head(q) = q[1]
    BY TailIs DEF Takes
  <1>2. \A i \in DOMAIN q : TaskOK(q[i])
    BY DEF PresenceInv, TasksOK, Takes
  <1>3. TaskOK(task)
    <2>1. task = q[1] /\ 1 \in DOMAIN q
      BY <1>1 DEF Takes
    <2> QED BY <1>2, <2>1
  <1>4. TasksOK'
    <2> SUFFICES ASSUME NEW k \in Loops, NEW i \in DOMAIN tasks'[k]
                 PROVE  TaskOK(tasks'[k][i])
      BY DEF TasksOK, TaskOK
    <2>1. CASE k # l
      BY <2>1 DEF PresenceInv, TasksOK, Takes
    <2>2. CASE k = l
      <3>1. i \in 1..Len(q) - 1 /\ tasks'[k][i] = q[i + 1]
        BY <1>1, <2>2 DEF Takes
      <3>2. i + 1 \in DOMAIN q
        BY <1>1, <3>1
      <3> QED BY <1>2, <3>1, <3>2
    <2> QED BY <2>1, <2>2
  <1> QED BY <1>3, <1>4

\* What closes stays, but for what is taken.
LEMMA TakenCloses ==
  ASSUME PresenceInv, NEW l \in Loops, NEW task \in TaskTypes, NEW q \in Seq(TaskTypes), Takes(l, task, q),
         NEW k \in Loops, NEW d, Closes(tasks[k], d)
  PROVE  Closes(tasks'[k], d) \/ (k = l /\ task.to = d /\ task.status = "close")
  BY ClosesTail DEF Takes

\* Who hears of somebody hears of him when it is told what is taken.
LEMMA TakenHears ==
  ASSUME PresenceInv, NEW l \in Loops, NEW task \in TaskTypes, NEW q \in Seq(TaskTypes), Takes(l, task, q),
         NEW e \in Connections, NEW w \in Users, NEW st \in Statuses, conn[e] # NoSocket, Hears(e, w, st), conn'[e] = conn[e],
         conn[e] = l /\ About(task, e, w) => told'[e][w] = task.status,
         ~(conn[e] = l /\ About(task, e, w)) => told'[e][w] = told[e][w]
  PROVE  Hears(e, w, st)'
  <1>1. conn[e] \in Loops
    BY OwnerIs
  <1>2. CASE conn[e] # l
    BY <1>1, <1>2 DEF Hears, Takes
  <1>3. CASE conn[e] = l
    <2>1. HearsLast(q, told[e][w], e, w, st) /\ q # <<>> /\ task = Head(q)
      BY <1>3 DEF Hears, Takes
    <2>2. HearsLast(Tail(q), told'[e][w], e, w, st)
      BY <1>3, <2>1, HearsDelivered
    <2> QED BY <1>3, <2>2 DEF Hears, Takes
  <1> QED BY <1>2, <1>3

\* A task that does not close anything.
LEMMA DeliversKeeps ==
  ASSUME PresenceInv, NEW l \in Loops, NEW task \in TaskTypes, NEW q \in Seq(TaskTypes), Takes(l, task, q),
         owner' = owner, accepted' = accepted, UserIdToWebSocketPtrMap' = UserIdToWebSocketPtrMap,
         listening' = listening, ended' = ended, objects' = objects, listed' = listed, stop' = stop,
         overlapped' = overlapped, torn' = torn, unheard' = unheard, late' = late,
         conn' = conn, handler' = handler, owed' = owed, pc' = pc,
         \/ /\ conn[task.to] = l /\ task.status # "close"
            /\ told' = [told EXCEPT ![task.to][task.about[1]] = task.status]
         \/ conn[task.to] # l /\ told' = told
  PROVE  PresenceInv'
  <1>1. TasksOK' /\ TaskOK(task)
    BY TakenTypes
  <1>2. tasks' \in [Loops -> Seq(TaskTypes)] /\ At(l) = 0 /\ task.to \in Connections
    BY DEF Takes
  <1>3. /\ told' \in [Connections -> [Users -> Statuses \cup {Unknown}]]
        /\ \A e \in Connections, w \in Users :
               /\ conn[e] = l /\ About(task, e, w) => told'[e][w] = task.status
               /\ ~(conn[e] = l /\ About(task, e, w)) => told'[e][w] = told[e][w]
    <2>1. told \in [Connections -> [Users -> Statuses \cup {Unknown}]]
      BY DEF PresenceInv, PresenceTypes
    <2>2. CASE /\ conn[task.to] = l /\ task.status # "close"
               /\ told' = [told EXCEPT ![task.to][task.about[1]] = task.status]
      BY <2>1, <2>2 DEF TaskTypes, Closings, Notices, About
    <2>3. CASE conn[task.to] # l /\ told' = told
      BY <2>1, <2>3 DEF About
    <2> QED BY <2>2, <2>3
  <1>4. PresenceTypes'
    BY <1>2, <1>3 DEF PresenceInv, PresenceTypes, TaskTypes
  <1>5. Stands
    BY DomainIs DEF Stands, PresenceInv
  <1>6. SocketsOK' /\ (stop.phase = "running" => stop.loop = 0)'
    BY DEF PresenceInv, SocketsOK, Entry
  <1>7. ASSUME NEW k \in Loops
        PROVE  Stopping(k)'
    BY <1>2, <1>5, TakenCloses, StandsStopping DEF PresenceInv, Entries, Removing
  <1>8. \A e \in Connections, w \in Users, st \in Statuses : conn[e] # NoSocket /\ Hears(e, w, st) => Hears(e, w, st)'
    BY <1>3, TakenHears
  <1> QED BY <1>1, <1>4, <1>5, <1>6, <1>7, <1>8, StandsKeeps DEF PresenceInv

(***************************************************************************)
(* The end of a handler.                                                   *)
(***************************************************************************)
LEMMA EndHandlerFrame ==
  ASSUME PresenceInv, NEW l \in Loops, EndHandler(l)
  PROVE  /\ \A k \in Loops \ {l} : /\ At(k)' = At(k) /\ User(k)' = User(k)
                                   /\ (Opening(k)' <=> Opening(k)) /\ (Closing(k)' <=> Closing(k))
                                   /\ \A u \in Users : (Serves(k, u)' <=> Serves(k, u)) /\ (Removing(k, u)' <=> Removing(k, u))
         /\ At(l) = 8 /\ At(l)' = 0 /\ ~Opening(l)' /\ ~Closing(l)' /\ User(l) \in Users
         /\ \A u \in Users : ~Serves(l, u)' /\ ~Removing(l, u)' /\ ~Removing(l, u)
         /\ \A d \in Connections, u \in Users : On(d, u)' <=> On(d, u)
         /\ \A k \in Loops, u \in Users : Entry(k, u)' = Entry(k, u)
         /\ \A u \in Users : Presently(u)' = Presently(u)
         /\ \A d \in Connections : ~StillTells(l, d)
  <1>1. /\ owner' = owner /\ conn' = conn /\ UserIdToWebSocketPtrMap' = UserIdToWebSocketPtrMap
        /\ At(l) = 8 /\ handler[l].left = {} /\ Rank(pc'[l]) = 0 /\ Kind(pc'[l]) = "none"
        /\ (\A k \in Loops \ {l} : pc'[k] = pc[k]) /\ (\A k \in Loops \ {l} : handler'[k] = handler[k])
    BY EndHandlerIs
  <1>2. ASSUME NEW k \in Loops \ {l}
        PROVE  /\ At(k)' = At(k) /\ User(k)' = User(k) /\ (Opening(k)' <=> Opening(k)) /\ (Closing(k)' <=> Closing(k))
               /\ \A u \in Users : (Serves(k, u)' <=> Serves(k, u)) /\ (Removing(k, u)' <=> Removing(k, u))
    BY <1>1 DEF At, User, Opening, Closing, Serves, Removing
  <1>3. At(l)' = 0 /\ ~Opening(l)' /\ ~Closing(l)'
    BY <1>1 DEF At, Opening, Closing
  <1>4. User(l) \in Users
    BY <1>1, UserIs
  <1>5. \A u \in Users : ~Serves(l, u)' /\ ~Removing(l, u)' /\ ~Removing(l, u)
    BY <1>1, <1>3 DEF Serves, Removing
  <1>6. \A d \in Connections, u \in Users : On(d, u)' <=> On(d, u)
    BY <1>1 DEF On
  <1>7. \A k \in Loops, u \in Users : Entry(k, u)' = Entry(k, u)
    BY <1>1 DEF Entry
  <1>8. \A u \in Users : Presently(u)' = Presently(u)
    BY <1>1 DEF Presently, Connected
  <1>9. \A d \in Connections : ~StillTells(l, d)
    BY <1>1 DEF StillTells
  <1> QED BY <1>1, <1>2, <1>3, <1>4, <1>5, <1>6, <1>7, <1>8, <1>9

\* A user stops to be one with two connections when none is left of him.
LEMMA OverlapEnds ==
  ASSUME PresenceInv, NEW l \in Loops, EndHandler(l), NEW u \in Users, u \notin overlapped'
  PROVE  \/ u \notin overlapped
         \/ /\ \A d \in Connections : ~On(d, u)
            /\ \A k \in Loops : Serves(k, u) => k = l
  BY EndHandlerIs, ConnectedIs, BusyIs DEF Serves, Serving, PresenceInv

LEMMA EndHandlerKeeps ==
  ASSUME PresenceInv, NEW l \in Loops, EndHandler(l)
  PROVE  PresenceInv'
  <1>1. /\ owner' = owner /\ accepted' = accepted /\ conn' = conn /\ UserIdToWebSocketPtrMap' = UserIdToWebSocketPtrMap
        /\ listening' = listening /\ ended' = ended /\ objects' = objects /\ listed' = listed /\ tasks' = tasks
        /\ stop' = stop /\ told' = told /\ owed' = owed /\ torn' = torn /\ unheard' = unheard /\ late' = late
        /\ pc' \in [Threads -> HandlerPlaces]
        /\ handler' \in [Loops -> Handlers] /\ handler'[l] = NoHandler
        /\ (\A k \in Loops \ {l} : handler'[k] = handler[k]) /\ overlapped' \subseteq overlapped
    BY EndHandlerIs
  <1>2. PresenceTypes'
    BY <1>1 DEF PresenceInv, PresenceTypes
  <1>3. SocketsOK' /\ TasksOK' /\ (stop.phase = "running" => stop.loop = 0)'
    BY <1>1 DEF PresenceInv, SocketsOK, Entry, TasksOK, TaskOK
  <1>4. Entries'
    BY <1>1, EndHandlerFrame DEF PresenceInv, Entries
  <1>5. ASSUME NEW k \in Loops
        PROVE  HandlerOK(k)'
    BY <1>1, EndHandlerFrame DEF HandlerOK, PresenceInv
  <1>6. ASSUME NEW k \in Loops
        PROVE  Stopping(k)'
    BY <1>1, EndHandlerFrame DEF PresenceInv, Closes, Copied, Stopping
  <1>7. ASSUME NEW u \in Users
        PROVE  SocketWritten(u)' /\ StatusWritten(u)'
    BY <1>1, EndHandlerFrame DEF PresenceInv, TakesSocketOut, TakesStatusOut, SocketWritten,
       StatusWritten
  <1>8. Single'
    <2> SUFFICES ASSUME NEW u \in Users, u \notin overlapped'
                 PROVE  Alone(u)' /\ \A d \in Connections : On(d, u)' => InMap(d, u)' /\ InObject(d, u)'
      BY DEF Single
    <2>1. CASE u \notin overlapped
      <3>1. Alone(u)
        BY <2>1 DEF PresenceInv, Single
      <3>2. Alone(u)'
        BY <1>1, <3>1, EndHandlerFrame DEF Alone
      <3>3. ASSUME NEW d \in Connections, On(d, u)'
            PROVE  InMap(d, u)' /\ InObject(d, u)'
        <4>1. On(d, u)
          BY <3>3, EndHandlerFrame
        <4>2. InMap(d, u) /\ InObject(d, u)
          BY <2>1, <4>1 DEF PresenceInv, Single
        <4>3. PICK k \in Loops : k = conn[d] /\ k = conn'[d]
          BY <1>1, <4>1 DEF On, PresenceInv, PresenceTypes
        <4>4. InMap(d, u)' <=> Entry(k, u)' = d \/ (At(k)' = 1 /\ Serves(k, u)')
          BY <4>3 DEF InMap, Entry, At, Serves, User
        <4>5. CASE k = l
          BY <1>1, <4>2, <4>3, <4>4, <4>5, EndHandlerFrame DEF InMap, InObject, Shown
        <4>6. CASE k # l
          BY <1>1, <4>2, <4>3, <4>4, <4>6, EndHandlerFrame DEF InMap, InObject, Shown, Clean
        <4> QED BY <4>5, <4>6
      <3> QED BY <3>2, <3>3
    <2>2. CASE u \in overlapped
      BY <2>2, OverlapEnds, EndHandlerFrame DEF Alone
    <2> QED BY <2>1, <2>2
  <1>9. ASSUME NEW o \in owed'
        PROVE  Owed(o[1], o[2])'
    <2>1. PICK d \in Connections, u \in Users : o[1] = d /\ o[2] = u /\ Owed(d, u)
      BY <1>1, <1>9, OwedPair
    <2>2. conn[d] # NoSocket /\ conn[d] \in Loops /\ owner[d] # u /\ owner[d] \in Users /\ On(d, owner[d])
      BY <2>1, OwnerIs DEF Owed
    <2>3. \A s : Hears(d, u, s)' <=> Hears(d, u, s)
      BY <1>1 DEF Hears
    <2>4. \A k \in Loops \ {l} : StillTells(k, d)' <=> StillTells(k, d)
      BY <1>1, EndHandlerFrame DEF StillTells
    <2>5. Reachable(d)' <=> Reachable(d)
      BY <1>1 DEF Reachable, Entry
    <2>6. ASSUME owner'[d] \notin overlapped'
          PROVE  Reachable(d)' /\ (u \notin overlapped' \cup unheard' => OwedStatus(d, u)') /\ OwedOffline(d, u)'
      BY <1>1, <2>1, <2>2, <2>3, <2>4, <2>5, <2>6, OverlapEnds, EndHandlerFrame, ConnectedIs DEF
         Owed, OwedOffline, OwedStatus, Hears
    <2> QED BY <1>1, <2>1, <2>2, <2>6 DEF Owed
  <1> QED BY <1>2, <1>3, <1>4, <1>5, <1>6, <1>7, <1>8, <1>9 DEF PresenceInv

(***************************************************************************)
(* A handler begins.                                                       *)
(***************************************************************************)
\* What begins at l, about connection d of u.
Begins(l, d, u, kind, status) ==
    /\ Begun(l, kind) /\ FirstIs(l, d, status) /\ d \in DOMAIN owner /\ owner[d] = u /\ owner' = owner
    /\ UserIdToWebSocketPtrMap' = UserIdToWebSocketPtrMap /\ objects' = objects
    /\ conn' \in [Connections -> Loops \cup {NoSocket}] /\ \A e \in Connections \ {d} : conn'[e] = conn[e]

LEMMA BeginsFrame ==
  ASSUME PresenceInv, NEW l \in Loops, NEW d \in Connections, NEW u \in Users, NEW kind, NEW status,
         Begins(l, d, u, kind, status)
  PROVE  /\ \A k \in Loops \ {l} : /\ At(k)' = At(k) /\ User(k)' = User(k) /\ handler'[k] = handler[k]
                                   /\ (Opening(k)' <=> Opening(k)) /\ (Closing(k)' <=> Closing(k))
                                   /\ \A w \in Users : (Serves(k, w)' <=> Serves(k, w)) /\ (Removing(k, w)' <=> Removing(k, w))
         /\ At(l) = 0 /\ At(l)' = 1 /\ User(l)' = u /\ Serves(l, u)'
         /\ (Opening(l)' <=> kind = "open") /\ (Closing(l)' <=> kind = "close")
         /\ \A w \in Users : ~Serves(l, w) /\ ~Removing(l, w) /\ ~TakesSocketOut(l, w) /\ ~TakesStatusOut(l, w)
         /\ \A w \in Users : w # u => ~Serves(l, w)'
         /\ \A e \in Connections, w \in Users : e # d \/ w # u => (On(e, w)' <=> On(e, w))
         /\ \A k \in Loops, w \in Users : Entry(k, w)' = Entry(k, w)
         /\ \A w \in Users : w # u => Presently(w)' = Presently(w)
         /\ \A e \in Connections : e # d => (Reachable(e)' <=> Reachable(e))
         /\ \A k \in Loops, e \in Connections : e # d /\ StillTells(k, e) /\ At(k) # 0 => StillTells(k, e)'
         /\ \A e \in Connections : StillTells(l, e)'
  <1>1. /\ owner' = owner /\ objects' = objects /\ UserIdToWebSocketPtrMap' = UserIdToWebSocketPtrMap
        /\ d \in DOMAIN owner /\ owner[d] = u /\ \A e \in Connections \ {d} : conn'[e] = conn[e]
    BY DEF Begins
  <1>2. At(l) = 0 /\ At(l)' = 1 /\ (Opening(l)' <=> kind = "open") /\ (Closing(l)' <=> kind = "close")
    BY DEF Begins, Begun, At, Opening, Closing
  <1>3. handler'[l].connection = d /\ \A k \in Loops \ {l} : handler'[k] = handler[k]
    BY DEF Begins, FirstIs
  <1>4. User(l)' = u
    BY <1>1, <1>3 DEF User
  <1>5. ASSUME NEW k \in Loops \ {l}
        PROVE  /\ At(k)' = At(k) /\ User(k)' = User(k) /\ (Opening(k)' <=> Opening(k)) /\ (Closing(k)' <=> Closing(k))
               /\ \A w \in Users : (Serves(k, w)' <=> Serves(k, w)) /\ (Removing(k, w)' <=> Removing(k, w))
    BY <1>1, <1>3 DEF Begins, Begun, At, User, Opening, Closing, Serves, Removing
  <1>6. Serves(l, u)' /\ \A w \in Users : w # u => ~Serves(l, w)'
    BY <1>2, <1>4 DEF Serves
  <1>7. \A w \in Users : ~Serves(l, w) /\ ~Removing(l, w) /\ ~TakesSocketOut(l, w) /\ ~TakesStatusOut(l, w)
    BY <1>2 DEF Serves, Removing, TakesSocketOut, TakesStatusOut
  <1>8. \A e \in Connections, w \in Users : e # d \/ w # u => (On(e, w)' <=> On(e, w))
    BY <1>1 DEF On
  <1>9. \A k \in Loops, w \in Users : Entry(k, w)' = Entry(k, w)
    BY <1>1 DEF Entry
  <1>10. ASSUME NEW w \in Users, w # u
         PROVE  Presently(w)' = Presently(w)
    BY <1>1, <1>10, DomainIs DEF PresenceInv, Connected, Presently
  <1>11. \A e \in Connections : e # d => (Reachable(e)' <=> Reachable(e))
    BY <1>1 DEF Reachable, Entry
  <1>12. ASSUME NEW k \in Loops, NEW e \in Connections, e # d, StillTells(k, e), At(k) # 0
         PROVE  StillTells(k, e)'
    BY <1>1, <1>2, <1>3, <1>5, <1>12 DEF StillTells
  <1>13. \A e \in Connections : StillTells(l, e)'
    BY <1>2 DEF StillTells
  <1> QED BY <1>2, <1>3, <1>4, <1>5, <1>6, <1>7, <1>8, <1>9, <1>10, <1>11, <1>12, <1>13

\* Of the others nothing has changed.
LEMMA BeginsOthers ==
  ASSUME PresenceInv, NEW l \in Loops, NEW d \in Connections, NEW u \in Users, NEW kind, NEW status,
         Begins(l, d, u, kind, status), NEW w \in Users, w # u, w \notin overlapped, torn' = torn
  PROVE  Alone(w)' /\ \A e \in Connections : On(e, w)' => InMap(e, w)' /\ InObject(e, w)'
  <1>1. Alone(w)
    BY DEF PresenceInv, Single
  <1>2. \A k \in Loops : Serves(k, w)' => Serves(k, w) /\ k # l
    BY BeginsFrame
  <1>3. Alone(w)'
    BY <1>1, <1>2, BeginsFrame DEF Alone
  <1>4. ASSUME NEW e \in Connections, On(e, w)'
        PROVE  InMap(e, w)' /\ InObject(e, w)'
    <2>1. On(e, w)
      BY <1>4, BeginsFrame
    <2>2. InMap(e, w) /\ InObject(e, w)
      BY <2>1 DEF PresenceInv, Single
    <2>3. e # d
      BY <2>1 DEF On, Begins
    <2>4. PICK k \in Loops : k = conn[e] /\ k = conn'[e]
      BY <2>1, <2>3 DEF On, PresenceInv, PresenceTypes, Begins
    <2>5. InMap(e, w)' <=> Entry(k, w)' = e \/ (At(k)' = 1 /\ Serves(k, w)')
      BY <2>4 DEF InMap, Entry, At, Serves, User
    <2>6. objects' = objects
      BY DEF Begins
    <2>7. CASE k = l
      BY <2>2, <2>4, <2>5, <2>6, <2>7, BeginsFrame DEF InMap, InObject, Shown
    <2>8. CASE k # l
      BY <2>2, <2>4, <2>5, <2>6, <2>8, BeginsFrame DEF InMap, InObject, Shown, Clean
    <2> QED BY <2>7, <2>8
  <1> QED BY <1>3, <1>4

\* What the others hear.
LEMMA BeginsOwed ==
  ASSUME PresenceInv, NEW l \in Loops, NEW d \in Connections, NEW u \in Users, NEW kind, NEW status,
         Begins(l, d, u, kind, status), NEW e \in Connections, NEW w \in Users, Owed(e, w), e # d,
         overlapped \subseteq overlapped', unheard' = unheard,
         \A s \in Statuses : Hears(e, w, s) => Hears(e, w, s)',
         w = u => OwedOffline(e, w)'
  PROVE  Owed(e, w)'
  BY BeginsFrame DEF Owed, Begins, Serves, OwedStatus, OwedOffline, Statuses, Presently, Hears

LEMMA UpgradeKeeps ==
  ASSUME PresenceInv, NEW l \in Loops, NEW d \in Connections, Upgrade(l, d)
  PROVE  PresenceInv'
  <1>1. /\ owner' = owner /\ UserIdToWebSocketPtrMap' = UserIdToWebSocketPtrMap /\ tasks' = tasks /\ listening' = listening
        /\ ended' = ended /\ objects' = objects /\ listed' = listed /\ stop' = stop /\ told' = told
        /\ owed' = owed /\ torn' = torn /\ unheard' = unheard /\ late' = late
        /\ accepted[d] = l /\ Begun(l, "open") /\ FirstIs(l, d, "Online")
        /\ accepted' \in [Connections -> Loops \cup {NoSocket}] /\ accepted'[d] = NoSocket
        /\ conn' \in [Connections -> Loops \cup {NoSocket}] /\ conn'[d] = l
        /\ \A e \in Connections \ {d} : accepted'[e] = accepted[e] /\ conn'[e] = conn[e]
        /\ overlapped' = IF Connected(owner[d]) # {} \/ Serving(owner[d]) # {} THEN overlapped \cup {owner[d]} ELSE overlapped
    BY UpgradeIs
  <1>2. SocketsOK
    BY DEF PresenceInv
  <1>3. d \in DOMAIN owner /\ conn[d] = NoSocket /\ l \notin ended
    BY <1>1, <1>2, LoopsAre DEF SocketsOK
  <1>4. owner \in Seq(Users)
    BY DEF PresenceInv, PresenceTypes
  <1>5. PICK u \in Users : u = owner[d]
    BY <1>3, <1>4
  <1>6. Begins(l, d, u, "open", "Online")
    BY <1>1, <1>3, <1>5 DEF Begins
  <1>7. pc' \in [Threads -> HandlerPlaces] /\ handler' \in [Loops -> Handlers]
    BY <1>1 DEF Begun, FirstIs
  <1>8. overlapped' \subseteq Users /\ overlapped \subseteq overlapped' /\ overlapped' \subseteq overlapped \cup {u}
    BY <1>1, <1>5 DEF PresenceInv, PresenceTypes
  <1>9. PresenceTypes'
    BY <1>1, <1>7, <1>8 DEF PresenceInv, PresenceTypes
  <1>10. SocketsOK'
    <2>1. NoSocket \notin ended
      BY LoopsAre DEF PresenceInv, PresenceTypes
    <2>2. ASSUME NEW e \in Connections
          PROVE  /\ conn'[e] # NoSocket \/ accepted'[e] # NoSocket => e \in DOMAIN owner
                 /\ conn'[e] = NoSocket \/ accepted'[e] = NoSocket
                 /\ conn'[e] \notin ended /\ accepted'[e] \notin ended
      BY <1>1, <1>2, <1>3, <2>1 DEF SocketsOK
    <2> QED BY <1>1, <1>2, <2>2 DEF SocketsOK, Entry
  <1>11. TasksOK' /\ (stop.phase = "running" => stop.loop = 0)'
    BY <1>1 DEF PresenceInv, TasksOK, TaskOK
  <1>12. Entries'
    <2> SUFFICES ASSUME NEW k \in Loops, NEW w \in Users, Entry(k, w) # NoConnection
                 PROVE  conn'[Entry(k, w)] = k \/ Removing(k, w)'
      BY <1>6, BeginsFrame DEF Entries
    <2>1. Removing(k, w) => Removing(k, w)'
      BY <1>6, BeginsFrame
    <2>2. conn[Entry(k, w)] = k \/ Removing(k, w)
      BY DEF PresenceInv, Entries
    <2>3. Entry(k, w) \in Connections
      BY LoopsAre DEF PresenceInv, PresenceTypes, Entry
    <2>4. k # NoSocket
      BY LoopsAre
    <2> QED BY <1>1, <1>3, <2>1, <2>2, <2>3, <2>4
  <1>13. ASSUME NEW k \in Loops
         PROVE  HandlerOK(k)'
    <2>1. CASE k = l
      BY <1>1, <1>3, <1>6, <2>1, BeginsFrame DEF FirstIs, HandlerOK
    <2>2. CASE k # l
      <3>1. HandlerOK(k)
        BY DEF PresenceInv
      <3>2. /\ At(k)' = At(k) /\ User(k)' = User(k) /\ handler'[k] = handler[k]
            /\ (Opening(k)' <=> Opening(k)) /\ (Closing(k)' <=> Closing(k))
        BY <1>6, <2>2, BeginsFrame
      <3>3. Opening(k) => conn'[handler[k].connection] = k
        BY <1>1, <1>3, OpenIsOn, LoopsAre
      <3> QED BY <1>1, <3>1, <3>2, <3>3 DEF HandlerOK
    <2> QED BY <2>1, <2>2
  <1>14. ASSUME NEW k \in Loops
         PROVE  Stopping(k)'
    BY <1>1, <1>6, BeginsFrame DEF PresenceInv, Closes, Copied, Stopping
  <1>15. ASSUME NEW w \in Users
         PROVE  SocketWritten(w)' /\ StatusWritten(w)'
    BY <1>1, <1>3, <1>6, BeginsFrame DEF PresenceInv, TakesSocketOut, TakesStatusOut, On,
       SocketWritten, StatusWritten
  <1>16. Single'
    <2> SUFFICES ASSUME NEW w \in Users, w \notin overlapped'
                 PROVE  Alone(w)' /\ \A e \in Connections : On(e, w)' => InMap(e, w)' /\ InObject(e, w)'
      BY DEF Single
    <2>1. w \notin overlapped
      BY <1>8
    <2>2. CASE w # u
      BY <1>1, <1>6, <2>1, <2>2, BeginsOthers
    <2>3. CASE w = u
      <3>1. Connected(u) = {} /\ Serving(u) = {}
        BY <1>1, <1>5, <2>3
      <3>2. \A e \in Connections : ~On(e, u)
        BY <3>1, ConnectedIs
      <3>3. \A k \in Loops : ~Serves(k, u)
        BY <3>1, BusyIs DEF Serves, Serving, PresenceInv
      <3>4. Clean(u)
        BY <3>2, <3>3 DEF PresenceInv, SocketWritten, StatusWritten, TakesSocketOut, TakesStatusOut,
           Clean
      <3>5. \A e \in Connections : On(e, u)' => e = d
        BY <1>6, <3>2, BeginsFrame
      <3>6. \A k \in Loops : Serves(k, u)' => k = l
        BY <1>6, <3>3, BeginsFrame
      <3>7. Opening(l)' /\ handler'[l].connection = d /\ At(l)' = 1 /\ Serves(l, u)'
        BY <1>1, <1>6, BeginsFrame DEF FirstIs
      <3>8. Alone(u)'
        BY <3>5, <3>6, <3>7 DEF Alone
      <3>9. InMap(d, u)'
        BY <1>1, <3>7 DEF InMap, At, Serves, User
      <3>10. InObject(d, u)'
        BY <1>1, <3>4, <3>7 DEF Clean, InObject, Serves, At, User
      <3> QED BY <2>3, <3>5, <3>8, <3>9, <3>10
    <2> QED BY <2>2, <2>3
  <1>17. ASSUME NEW o \in owed'
         PROVE  Owed(o[1], o[2])'
    <2>1. PICK e \in Connections, w \in Users : o[1] = e /\ o[2] = w /\ Owed(e, w)
      BY <1>1, <1>17, OwedPair
    <2>2. e # d
      BY <1>3, <2>1 DEF Owed
    <2>3. conn'[e] = conn[e]
      BY <1>1, <2>2
    <2>4. \A s \in Statuses : Hears(e, w, s) => Hears(e, w, s)'
      BY <1>1, <2>3 DEF Hears
    <2>5. w = u => OwedOffline(e, w)'
      BY <1>1, <1>3, <1>5, LoopsAre DEF On, OwedOffline
    <2> QED BY <1>1, <1>6, <1>8, <2>1, <2>2, <2>4, <2>5, BeginsOwed
  <1> QED BY <1>9, <1>10, <1>11, <1>12, <1>13, <1>14, <1>15, <1>16, <1>17 DEF PresenceInv

(***************************************************************************)
(* A connection closes.                                                    *)
(***************************************************************************)
\* What stays when the WebSocket of connection d closes at l; the loop may have taken the task
\* that closes it.
CloseStays(l, d) ==
    /\ owner' = owner /\ accepted' = accepted /\ UserIdToWebSocketPtrMap' = UserIdToWebSocketPtrMap
    /\ listening' = listening /\ ended' = ended /\ objects' = objects /\ listed' = listed /\ stop' = stop
    /\ overlapped' = overlapped /\ torn' = torn /\ unheard' = unheard /\ late' = late
    /\ tasks' \in [Loops -> Seq(TaskTypes)]
    /\ \A k \in Loops, e \in Connections : Closes(tasks[k], e) => Closes(tasks'[k], e) \/ (k = l /\ e = d)
    /\ \A e \in Connections, w \in Users, st \in Statuses :
           e # d /\ conn[e] # NoSocket /\ Hears(e, w, st) => Hears(e, w, st)'

LEMMA CloseKeeps ==
  ASSUME PresenceInv, NEW l \in Loops, NEW d \in Connections, Close(l, d), CloseStays(l, d), TasksOK'
  PROVE  PresenceInv'
  <1>1. /\ conn[d] = l /\ Begun(l, "close") /\ FirstIs(l, d, "Offline")
        /\ conn' \in [Connections -> Loops \cup {NoSocket}] /\ conn'[d] = NoSocket
        /\ \A e \in Connections \ {d} : conn'[e] = conn[e]
        /\ told' \in [Connections -> [Users -> Statuses \cup {Unknown}]] /\ \A e \in Connections \ {d} : told'[e] = told[e]
        /\ owed' = {o \in owed : o[1] # d}
    BY CloseIs
  <1>2. /\ owner' = owner /\ accepted' = accepted /\ UserIdToWebSocketPtrMap' = UserIdToWebSocketPtrMap
        /\ listening' = listening /\ ended' = ended /\ objects' = objects /\ listed' = listed /\ stop' = stop
        /\ overlapped' = overlapped /\ torn' = torn /\ unheard' = unheard /\ late' = late
        /\ tasks' \in [Loops -> Seq(TaskTypes)]
    BY DEF CloseStays
  <1>3. SocketsOK
    BY DEF PresenceInv
  <1>4. l # NoSocket /\ d \in DOMAIN owner /\ owner \in Seq(Users) /\ l \notin ended
    BY <1>1, <1>3, LoopsAre DEF SocketsOK, PresenceInv, PresenceTypes
  <1>5. PICK u \in Users : u = owner[d]
    BY <1>4
  <1>6. Begins(l, d, u, "close", "Offline")
    BY <1>1, <1>2, <1>4, <1>5 DEF Begins
  <1>7. At(l) = 0 /\ At(l)' = 1 /\ User(l)' = u /\ Serves(l, u)' /\ Closing(l)' /\ ~Opening(l)'
    BY <1>6, BeginsFrame
  <1>8. Removing(l, u)' /\ TakesSocketOut(l, u)' /\ TakesStatusOut(l, u)' /\ \A e \in Connections : StillTells(l, e)'
    BY <1>7 DEF Removing, TakesSocketOut, TakesStatusOut, StillTells
  <1>9. pc' \in [Threads -> HandlerPlaces] /\ handler' \in [Loops -> Handlers]
    BY <1>1 DEF Begun, FirstIs
  <1>10. PresenceTypes'
    BY <1>1, <1>2, <1>9 DEF PresenceInv, PresenceTypes, TaskTypes
  <1>11. SocketsOK' /\ (stop.phase = "running" => stop.loop = 0)'
    <2>1. NoSocket \notin ended
      BY LoopsAre DEF PresenceInv, PresenceTypes
    <2>2. ASSUME NEW e \in Connections
          PROVE  /\ conn'[e] # NoSocket \/ accepted[e] # NoSocket => e \in DOMAIN owner
                 /\ conn'[e] = NoSocket \/ accepted[e] = NoSocket
                 /\ conn'[e] \notin ended /\ accepted[e] \notin ended
      BY <1>1, <1>3, <1>4, <2>1 DEF SocketsOK
    <2>3. SocketsOK'
      BY <1>2, <1>3, <2>2 DEF SocketsOK, Entry
    <2> QED BY <1>2, <2>3 DEF PresenceInv
  <1>12. \A k \in Loops, w \in Users : /\ Entry(k, w)' = Entry(k, w) /\ (Removing(k, w) => Removing(k, w)')
                                       /\ (Entry(k, w) = d => w = u)
    BY <1>3, <1>5, <1>6, LoopsAre, BeginsFrame DEF SocketsOK
  <1>13. Entries'
    <2> SUFFICES ASSUME NEW k \in Loops, NEW w \in Users, Entry(k, w) # NoConnection
                 PROVE  conn'[Entry(k, w)] = k \/ Removing(k, w)'
      BY <1>12 DEF Entries
    <2>1. conn[Entry(k, w)] = k \/ Removing(k, w)
      BY DEF PresenceInv, Entries
    <2>2. Entry(k, w) \in Connections
      BY LoopsAre DEF PresenceInv, PresenceTypes, Entry
    <2>3. CASE Entry(k, w) = d
      BY <1>1, <1>8, <1>12, <2>1, <2>3
    <2>4. CASE Entry(k, w) # d
      BY <1>1, <1>12, <2>1, <2>2, <2>4
    <2> QED BY <2>3, <2>4
  <1>14. ASSUME NEW k \in Loops
         PROVE  HandlerOK(k)'
    <2>1. CASE k = l
      BY <1>1, <1>2, <1>4, <1>7, <2>1 DEF FirstIs, HandlerOK
    <2>2. CASE k # l
      <3>1. HandlerOK(k)
        BY DEF PresenceInv
      <3>2. /\ At(k)' = At(k) /\ User(k)' = User(k) /\ handler'[k] = handler[k]
            /\ (Opening(k)' <=> Opening(k)) /\ (Closing(k)' <=> Closing(k))
        BY <1>6, <2>2, BeginsFrame
      <3>3. Opening(k) => conn'[handler[k].connection] = k
        BY <1>1, <2>2, OpenIsOn
      <3> QED BY <1>2, <3>1, <3>2, <3>3 DEF HandlerOK
    <2> QED BY <2>1, <2>2
  <1>15. ASSUME NEW k \in Loops
         PROVE  Stopping(k)'
    <2>1. Stopping(k)
      BY DEF PresenceInv
    <2>2. ASSUME NEW w \in Users, Entry(k, w) # NoConnection, Closes(tasks[k], Entry(k, w))
          PROVE  Closes(tasks[k], Entry(k, w))' \/ Removing(k, w)'
      <3>1. PICK e \in Connections : e = Entry(k, w)
        BY <2>2, LoopsAre DEF PresenceInv, PresenceTypes, Entry
      <3>2. Closes(tasks'[k], e) \/ (k = l /\ e = d)
        BY <2>2, <3>1 DEF CloseStays
      <3>3. CASE Closes(tasks'[k], e)
        BY <1>12, <3>1, <3>3
      <3>4. CASE k = l /\ e = d
        BY <1>8, <1>12, <3>1, <3>4
      <3> QED BY <3>2, <3>3, <3>4
    <2>3. Copied(k)' <=> Copied(k)
      BY <1>2 DEF Copied
    <2> QED BY <1>2, <1>12, <2>1, <2>2, <2>3 DEF Stopping
  <1>16. ASSUME NEW w \in Users
         PROVE  SocketWritten(w)' /\ StatusWritten(w)'
    <2>1. CASE w = u
      BY <1>8, <2>1 DEF SocketWritten, StatusWritten
    <2>2. CASE w # u
      <3>1. SocketWritten(w) /\ StatusWritten(w)
        BY DEF PresenceInv
      <3>2. ASSUME NEW k \in Loops
            PROVE  (TakesSocketOut(k, w) => TakesSocketOut(k, w)') /\ (TakesStatusOut(k, w) => TakesStatusOut(k, w)')
        BY <1>6, BeginsFrame DEF TakesSocketOut, TakesStatusOut
      <3>3. \A e \in Connections : On(e, w)' <=> On(e, w)
        BY <1>6, <2>2, BeginsFrame
      <3> QED BY <1>2, <3>1, <3>2, <3>3 DEF SocketWritten, StatusWritten
    <2> QED BY <2>1, <2>2
  <1>17. Single'
    <2> SUFFICES ASSUME NEW w \in Users, w \notin overlapped
                 PROVE  Alone(w)' /\ \A e \in Connections : On(e, w)' => InMap(e, w)' /\ InObject(e, w)'
      BY <1>2 DEF Single
    <2>1. CASE w # u
      BY <1>2, <1>6, <2>1, BeginsOthers
    <2>2. CASE w = u
      BY <1>1, <1>4, <1>5, <1>6, <2>2, BeginsFrame, OwnHandler DEF On, PresenceInv, Single, Alone
    <2> QED BY <2>1, <2>2
  <1>18. ASSUME NEW o \in owed'
         PROVE  Owed(o[1], o[2])'
    BY <1>1, <1>2, <1>6, <1>7, <1>8, <1>18, OwedPair, BeginsOwed DEF CloseStays, Owed, OwedOffline
  <1> QED BY <1>10, <1>11, <1>13, <1>14, <1>15, <1>16, <1>17, <1>18 DEF PresenceInv

LEMMA PeerClosesKeeps ==
  ASSUME PresenceInv, NEW l \in Loops, NEW d \in Connections, PeerCloses(l, d)
  PROVE  PresenceInv'
  BY CloseIs, VariablesAre, CloseKeeps DEF PeerCloses, Hears, PresenceInv, TasksOK, TaskOK,
     CloseStays

LEMMA RunTaskKeeps ==
  ASSUME PresenceInv, NEW l \in Loops, RunTask(l)
  PROVE  PresenceInv'
  <1>1. PICK task \in TaskTypes, q \in Seq(TaskTypes) :
         /\ owner' = owner /\ accepted' = accepted /\ UserIdToWebSocketPtrMap' = UserIdToWebSocketPtrMap
         /\ listening' = listening /\ ended' = ended /\ objects' = objects /\ listed' = listed /\ stop' = stop
         /\ overlapped' = overlapped /\ torn' = torn /\ unheard' = unheard /\ late' = late
         /\ At(l) = 0 /\ q = tasks[l] /\ q # <<>> /\ task = Head(q) /\ task.to \in Connections
         /\ tasks' \in [Loops -> Seq(TaskTypes)] /\ tasks'[l] = Tail(q) /\ \A k \in Loops \ {l} : tasks'[k] = tasks[k]
         /\ \/ conn[task.to] = l /\ task.status = "close" /\ Close(l, task.to)
            \/ /\ conn[task.to] = l /\ task.status # "close" /\ conn' = conn /\ handler' = handler /\ owed' = owed /\ pc' = pc
               /\ told' = [told EXCEPT ![task.to][task.about[1]] = task.status]
            \/ conn[task.to] # l /\ conn' = conn /\ handler' = handler /\ owed' = owed /\ pc' = pc /\ told' = told
    BY RunTaskIs
  <1>2. Takes(l, task, q)
    BY <1>1 DEF Takes
  <1>3. CASE conn[task.to] = l /\ task.status = "close" /\ Close(l, task.to)
    <2>1. PICK d \in Connections : d = task.to
      BY <1>1
    <2>2. Close(l, d)
      BY <1>3, <2>1
    <2>3. \A e \in Connections \ {d} : conn'[e] = conn[e] /\ told'[e] = told[e]
      BY <2>2, CloseIs
    <2>4. ASSUME NEW e \in Connections, NEW w \in Users, NEW st \in Statuses, e # d, conn[e] # NoSocket, Hears(e, w, st)
          PROVE  Hears(e, w, st)'
      BY <1>2, <1>3, <2>3, <2>4, TakenHears DEF About
    <2>5. \A k \in Loops, e \in Connections : Closes(tasks[k], e) => Closes(tasks'[k], e) \/ (k = l /\ e = d)
      BY <1>2, <2>1, TakenCloses
    <2>6. CloseStays(l, d)
      BY <1>1, <2>4, <2>5 DEF CloseStays
    <2>7. TasksOK'
      BY <1>1, <1>2, TakenTypes
    <2> QED BY <2>2, <2>6, <2>7, CloseKeeps
  <1>4. CASE ~(conn[task.to] = l /\ task.status = "close" /\ Close(l, task.to))
    BY <1>1, <1>2, <1>4, DeliversKeeps
  <1> QED BY <1>3, <1>4

(***************************************************************************)
(* The invariant holds.                                                    *)
(***************************************************************************)
LEMMA PresenceInit ==
  ASSUME pc = Idle, NEW cached \in SUBSET Users, PresenceStart(cached)
  PROVE  PresenceInv
  <1>1. \A l \in Loops : At(l) = 0 /\ ~Opening(l) /\ ~Closing(l)
    BY LoopsAre, IdleRank DEF Idle, At, Opening, Closing
  <1>2. /\ owner = <<>> /\ DOMAIN owner = {} /\ listed = [u \in Users |-> "unknown"] /\ listening = Loops /\ ended = {} /\ owed = {}
        /\ overlapped = {} /\ torn = {} /\ unheard = {} /\ late = {}
        /\ stop = [phase |-> "running", loop |-> 0, left |-> {}]
        /\ accepted = [d \in Connections |-> NoSocket] /\ conn = [d \in Connections |-> NoSocket]
        /\ UserIdToWebSocketPtrMap = [l \in Loops |-> [u \in Users |-> NoConnection]]
        /\ handler = [l \in Loops |-> NoHandler] /\ tasks = [l \in Loops |-> <<>>]
        /\ told = [d \in Connections |-> [u \in Users |-> Unknown]]
        /\ objects = [u \in Users |-> IF u \in cached THEN NewObject ELSE NoObject]
    BY DEF PresenceStart
  <1>3. PresenceTypes
    <2>1. owner \in Seq(Users) /\ Len(owner) <= MaxConnections
      BY <1>2, LoopsAre
    <2>2. accepted \in [Connections -> Loops \cup {NoSocket}] /\ conn \in [Connections -> Loops \cup {NoSocket}]
      BY <1>2
    <2>3. UserIdToWebSocketPtrMap \in [Loops -> [Users -> 0..MaxConnections]]
      BY <1>2, LoopsAre
    <2>4. objects \in [Users -> Objects]
      BY <1>2, ObjectIs
    <2>5. tasks \in [Loops -> Seq(Notices \cup Closings)]
      BY <1>2
    <2>6. handler \in [Loops -> Handlers]
      BY <1>2, NoHandlerIs
    <2>7. stop \in [phase : {"running", "listener", "copy", "close", "join", "stopped"}, loop : Loops, left : SUBSET Users]
      BY <1>2, LoopsAre
    <2>8. told \in [Connections -> [Users -> Statuses \cup {Unknown}]]
      BY <1>2
    <2>9. pc \in [Threads -> HandlerPlaces]
      BY IdleRank DEF Idle
    <2>10. listed \in [Users -> Listings]
      BY <1>2 DEF Listings
    <2> QED BY <1>2, <2>1, <2>2, <2>3, <2>4, <2>5, <2>6, <2>7, <2>8, <2>9, <2>10 DEF PresenceTypes
  <1>4. \A d \in Connections : conn[d] = NoSocket /\ accepted[d] = NoSocket
    BY <1>2
  <1>5. \A l \in Loops, u \in Users : Entry(l, u) = NoConnection
    BY <1>2 DEF Entry
  <1>6. SocketsOK
    BY <1>2, <1>4, <1>5 DEF SocketsOK
  <1>7. TasksOK
    BY <1>2 DEF TasksOK
  <1>8. Entries
    BY <1>5 DEF Entries
  <1>9. Single
    BY <1>1, <1>4 DEF Single, Alone, On, Serves
  <1>10. \A l \in Loops : HandlerOK(l) /\ Stopping(l)
    BY <1>1, <1>2, <1>5 DEF HandlerOK, Stopping
  <1>11. \A u \in Users : SocketWritten(u) /\ StatusWritten(u)
    BY <1>2, ObjectIs DEF SocketWritten, StatusWritten
  <1>12. (\A o \in owed : Owed(o[1], o[2])) /\ (stop.phase = "running" => stop.loop = 0)
    BY <1>2
  <1> QED BY <1>3, <1>6, <1>7, <1>8, <1>9, <1>10, <1>11, <1>12 DEF PresenceInv

LEMMA PresenceStutters ==
  ASSUME PresenceInv, UNCHANGED <<pc, presenceVars>>
  PROVE  PresenceInv'
  <1>1. /\ StopMoves /\ tasks' = tasks /\ listening' = listening /\ stop' = stop
    BY DEF presenceVars, sockets, presenceHistory, StopMoves
  <1>2. Stands
    BY <1>1, DomainIs DEF Stands, StopMoves, PresenceInv
  <1>3. PresenceTypes'
    BY <1>1 DEF StopMoves, PresenceInv, PresenceTypes
  <1>4. SocketsOK' /\ TasksOK' /\ (stop.phase = "running" => stop.loop = 0)'
    BY <1>1 DEF StopMoves, PresenceInv, SocketsOK, Entry, TasksOK, TaskOK
  <1>5. \A k \in Loops : Stopping(k)'
    BY <1>1, <1>2, StandsStopping
  <1>6. \A e \in Connections, w \in Users, st \in Statuses : Hears(e, w, st) => Hears(e, w, st)'
    BY <1>1 DEF Hears, StopMoves
  <1>7. ended' = ended
    BY <1>1 DEF StopMoves
  <1> QED BY <1>2, <1>3, <1>4, <1>5, <1>6, <1>7, StandsKeeps DEF PresenceInv

LEMMA LoopStepKeeps ==
  ASSUME PresenceInv, NEW l \in Loops, LoopStep(l)
  PROVE  PresenceInv'
  <1>1. CASE AddSocket(l) \/ RemoveSocket(l) \/ LookUp(l) \/ EmplaceSelf(l) \/ SetSocketId(l) \/ SetUserStatus(l)
    BY <1>1, AddSocketKeeps, RemoveSocketKeeps, LookUpKeeps, EmplaceSelfKeeps, SetSocketIdKeeps, SetUserStatusKeeps
  <1>2. CASE LookUpFriends(l) \/ EmplaceFriends(l) \/ Defer(l) \/ EndHandler(l)
    BY <1>2, LookUpFriendsKeeps, EmplaceFriendsKeeps, DeferKeeps, EndHandlerKeeps
  <1>3. CASE \E w \in Users : Tell(l, w)
    BY <1>3, TellKeeps
  <1>4. CASE RunTask(l) \/ EndLoop(l)
    BY <1>4, RunTaskKeeps, EndLoopKeeps
  <1>5. CASE \E d \in Connections : Refuse(l, d) \/ Upgrade(l, d)
    BY <1>5, RefuseKeeps, UpgradeKeeps
  <1> QED BY <1>1, <1>2, <1>3, <1>4, <1>5 DEF LoopStep, HandlerStep

\* Connections, cached objects, maps, queues and what Stop has done fit together in every state.
LEMMA PresenceInvariant == PresenceSpec => []PresenceInv
  <1>1. ASSUME pc = Idle, \E cached \in SUBSET Users : PresenceStart(cached)
        PROVE  PresenceInv
    BY <1>1, PresenceInit
  <1>2. ASSUME PresenceInv, [PresenceNext \/ BeginStop \/ StopStep]_<<pc, presenceVars>>
        PROVE  PresenceInv'
    BY <1>2, PresenceStutters, LoopStepKeeps, AcceptKeeps, PeerClosesKeeps, BeginStopKeeps,
       CloseListenerKeeps, CopyMapKeeps, DeferCloseKeeps, NextLoopKeeps, JoinKeeps DEF PresenceNext,
       StopStep
  <1> QED BY <1>1, <1>2, PTL DEF PresenceSpec

(***************************************************************************)
(* What follows from it.                                                   *)
(***************************************************************************)
\* When all is quiet no handler is under way and no task waits.
LEMMA QuietIs ==
  ASSUME PresenceInv, Quiet
  PROVE  \A l \in Loops : /\ At(l) = 0 /\ tasks[l] = <<>>
                          /\ \A u \in Users : ~Serves(l, u) /\ ~Removing(l, u) /\ ~TakesSocketOut(l, u) /\ ~TakesStatusOut(l, u)
                          /\ \A d : ~Closes(tasks[l], d)
  BY BusyIs DEF Quiet, PresenceInv, Serves, Removing, TakesSocketOut, TakesStatusOut, Closes

LEMMA ConnectionIs ==
  ASSUME PresenceInv, NEW u \in Users
  PROVE  \A d \in Connected(u) : d \in Connections /\ On(d, u)
  BY DomainIs DEF Connected, On, PresenceInv

LEMMA RemovingIs ==
  ASSUME PresenceTypes, NEW l \in Loops, Closing(l), At(l) = 1
  PROVE  AtStep(l, "removeSocket")
  <1>1. PICK p \in HandlerPlaces : p = pc[l]
    BY BusyIs
  <1>2. Rank(p) = 1 /\ Kind(p) = "close"
    BY <1>1 DEF At, Closing
  <1>3. p = C1
    <2>1. p \notin OpenPlaces
      BY <1>2, OpenPlacesAre, OpenRanks DEF OpenPlaces
    <2>2. p # <<>>
      BY <1>2, IdleRank
    <2>3. p \in {C1, C2, C3, C4, C5, C6, C7, C8, C9}
      BY <2>1, <2>2 DEF HandlerPlaces, ClosePlaces
    <2>4. /\ Rank(C2) # 1 /\ Rank(C3) # 1 /\ Rank(C4) # 1 /\ Rank(C5) # 1
          /\ Rank(C6) # 1 /\ Rank(C7) # 1 /\ Rank(C8) # 1 /\ Rank(C9) # 1
      BY CloseRanks
    <2>5. p # C2 /\ p # C3 /\ p # C4 /\ p # C5 /\ p # C6 /\ p # C7 /\ p # C8 /\ p # C9
      BY <1>2, <2>4, Zenon
    <2> QED BY <2>3, <2>5, Zenon
  <1>4. p # <<>> /\ Head(p) = "removeSocket"
    BY <1>3, ClosePlacesAre, CloseRanks
  <1> QED BY <1>1, <1>4 DEF AtStep, Busy

LEMMA PresenceTypesHold ==
  ASSUME PresenceInv
  PROVE  PresenceTypeOK
  <1>1. PresenceTypes
    BY DEF PresenceInv
  <1>2. \A l \in Loops, u \in Users : Entry(l, u) \in {d \in DOMAIN owner : owner[d] = u} \cup {NoConnection}
    BY DEF PresenceInv, SocketsOK
  <1>3. ASSUME NEW l \in Loops, NEW i \in DOMAIN tasks[l]
        PROVE  /\ tasks[l][i].to \in DOMAIN owner
               /\ \/ tasks[l][i].status = "close"
                  \/ tasks[l][i].status \in Statuses /\ tasks[l][i].about[1] \in Users \ {owner[tasks[l][i].to]}
    <2>1. PICK q \in Seq(TaskTypes) : q = tasks[l]
      BY VariablesAre
    <2>2. PICK task \in TaskTypes : task = tasks[l][i]
      BY <1>3, <2>1
    <2>3. TaskOK(task)
      BY <1>3, <2>2 DEF PresenceInv, TasksOK
    <2>4. CASE task \in Notices
      BY <2>2, <2>3, <2>4 DEF Notices, TaskOK
    <2>5. CASE task \in Closings
      BY <2>2, <2>3, <2>5 DEF Closings, TaskOK
    <2> QED BY <2>4, <2>5 DEF TaskTypes
  <1>4. ASSUME NEW l \in Loops
        PROVE  handler[l].connection \in 0..Len(owner) /\ (Busy(l) => l \notin ended)
    BY <1>1, BusyIs, DomainIs, LoopsAre DEF PresenceInv, HandlerOK, NoHandler
  <1> QED BY <1>1, <1>2, <1>3, <1>4 DEF Listings, PresenceTypeOK, PresenceTypes

LEMMA ConsistentPresence ==
  ASSUME PresenceInv
  PROVE  PresenceConsistent
  <1>1. PresenceTypeOK
    BY PresenceTypesHold
  <1>2. PresenceTrue
    <2> SUFFICES ASSUME Quiet, NEW u \in Users \ overlapped
                 PROVE  /\ u \notin torn => \A d \in Connected(u) : Reachable(d)
                        /\ \A l \in Loops : Entry(l, u) \in Connected(u) \cup {NoConnection}
      BY DEF PresenceTrue
    <2>1. \A l \in Loops : At(l) = 0 /\ ~Serves(l, u) /\ ~Removing(l, u)
      BY QuietIs
    <2>2. ASSUME u \notin torn, NEW d \in Connected(u)
          PROVE  Reachable(d)
      BY <2>1, <2>2, ConnectionIs, OwnerIs, ReachableIs DEF On, PresenceInv, Single, InMap, InObject
    <2>3. ASSUME NEW l \in Loops, Entry(l, u) # NoConnection
          PROVE  Entry(l, u) \in Connected(u)
      BY <2>1, <2>3, LoopsAre DEF PresenceInv, Entries, SocketsOK, Connected
    <2> QED BY <2>2, <2>3
  <1>3. GoneIsOffline
    BY QuietIs, ConnectedIs, LoopsAre, ObjectShows DEF GoneIsOffline, PresenceInv, SocketWritten,
       StatusWritten, Clean, Entries, SocketsOK, Connected
  <1>4. EntriesOpen
    BY RemovingIs DEF EntriesOpen, PresenceInv, Entries, Removing, Serves
  <1> QED BY <1>1, <1>2, <1>3, <1>4 DEF PresenceConsistent

LEMMA ToldFriends ==
  ASSUME PresenceInv
  PROVE  FriendsHearLast
  BY OwedPair, OwnerIs, QuietIs DEF FriendsHearLast, Owed, OwedStatus, Hears, HearsLast

LEMMA StoppedCloses ==
  ASSUME PresenceInv
  PROVE  StopClosesAll
  <1> SUFFICES ASSUME Quiet, stop.phase = "join", NEW d \in DOMAIN owner \ late, conn[d] # NoSocket
               PROVE  Entry(conn[d], owner[d]) # d
    BY DEF StopClosesAll, Unreachable
  <1>1. d \in Connections
    BY DomainIs DEF PresenceInv
  <1>2. PICK l \in Loops, u \in Users : l = conn[d] /\ u = owner[d]
    BY <1>1, OwnerIs
  <1>3. Copied(l)
    BY DEF Copied
  <1>4. ~Removing(l, u) /\ \A e : ~Closes(tasks[l], e)
    BY QuietIs
  <1>5. Entry(l, u) \in {NoConnection} \cup late
    BY <1>3, <1>4 DEF PresenceInv, Stopping
  <1> QED BY <1>1, <1>2, <1>5, LoopsAre

\* OnClientConnected and OnClientDisconnected: connections, cached users and the maps of the loops
\* are consistent, whatever handlers of the loops interleave.
THEOREM PresenceStaysConsistent == PresenceSpec => []PresenceConsistent
  BY PresenceInvariant, ConsistentPresence, PTL

\* BroadcastUserStatus: whom a change of status reached, or has to reach, hears of the present one
\* last.
THEOREM FriendsHearThePresent == PresenceSpec => []FriendsHearLast
  BY PresenceInvariant, ToldFriends, PTL

\* FSocketManager::Stop: no connection that its loop can find keeps a loop from ending.
THEOREM StopLeavesNobodyReachable == PresenceSpec => []StopClosesAll
  BY PresenceInvariant, StoppedCloses, PTL
=============================================================================
