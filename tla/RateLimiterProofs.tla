-------------------------- MODULE RateLimiterProofs --------------------------
(***************************************************************************)
(* Proofs about RateLimiter for every rate, burst and minimal sleep, any   *)
(* number of goroutines, and windows of any number of calls.               *)
(***************************************************************************)
EXTENDS RateLimiter, SequenceTheorems, TLAPS

-----------------------------------------------------------------------------
(* The inductive invariant.                                                *)

\* The bucket was at most full when the i-th last call took its token; what has
\* been taken and what is left came from it and from the time since.
Accounted ==
  \A i \in DOMAIN passed :
    passed[i] < Horizon => i * Interval + tokens + since <= Full + passed[i]

IInv == TypeOK /\ Accounted /\ WithinBucket
-----------------------------------------------------------------------------
LEMMA Constants ==
  /\ Interval \in Nat \ {0} /\ Bucket \in Nat \ {0} /\ Full \in Nat
  /\ Interval <= Full /\ Horizon \in Nat
<1>1. Interval \in Nat \ {0}
  <2>1. Second >= Rps /\ Second \in Nat /\ Rps \in Nat \ {0}
    BY RateLimiterAssumption
  <2>2. QED
    BY <2>1 DEF Interval
<1>2. Bucket \in Nat \ {0}
  BY RateLimiterAssumption DEF Bucket
<1>3. Full \in Nat /\ Interval <= Full
  BY <1>1, <1>2 DEF Full
<1>4. Horizon \in Nat
  BY <1>1, RateLimiterAssumption DEF Horizon
<1>5. QED
  BY <1>1, <1>2, <1>3, <1>4

LEMMA Distribute == \A a, b, c \in Int : (a - b) * c = a * c - b * c /\ a * c \in Int
  OBVIOUS

LEMMA Numbers == TypeOK => tokens \in Int /\ since \in Int
  BY Constants DEF TypeOK

LEMMA InitIInv == Init => IInv
  BY Constants, RateLimiterAssumption
  DEF Init, IInv, TypeOK, Accounted, WithinBucket, Larger, Smaller

\* The calls after one more: it comes first, and the oldest may drop out.
LEMMA OneMore ==
  ASSUME TypeOK, NEW c \in Callers, TakeToken(c)
  PROVE  /\ passed' \in Seq(0 .. Horizon) /\ Len(passed') <= History
         /\ Len(passed') >= 1 /\ passed'[1] = 0
         /\ \A i \in DOMAIN passed' : i > 1 => i - 1 \in DOMAIN passed /\ passed'[i] = passed[i - 1]
<1> DEFINE all == <<0>> \o passed
           n == Smaller(History, Len(passed) + 1)
<1>1. /\ all \in Seq(0 .. Horizon) /\ Len(all) = Len(passed) + 1
      /\ \A i \in 1 .. Len(all) : all[i] = IF i = 1 THEN 0 ELSE passed[i - 1]
  BY Constants DEF TypeOK
<1>2. n \in 1 .. Len(all) /\ n <= History
  BY <1>1, RateLimiterAssumption DEF TypeOK, Smaller
<1>3. passed' = SubSeq(all, 1, n)
  BY DEF TakeToken
<1> HIDE DEF all, n
<1>4. /\ passed' \in Seq(0 .. Horizon) /\ Len(passed') = n
      /\ \A i \in 1 .. n : passed'[i] = all[i]
  <2>1. \A i \in 1 .. n : all[i] \in 0 .. Horizon
    <3>1. Len(all) \in Nat /\ \A i \in 1 .. Len(all) : all[i] \in 0 .. Horizon
      BY <1>1, LenProperties, ElementOfSeq
    <3>2. QED
      BY <1>2, <3>1
  <2>2. n \in Int /\ n >= 1
    BY <1>1, <1>2
  <2>3. QED
    BY <1>3, <2>1, <2>2, SubSeqProperties
<1>5. QED
  BY <1>1, <1>2, <1>4 DEF TypeOK

LEMMA TypeStep == TypeOK /\ [Next]_vars => TypeOK'
<1> SUFFICES ASSUME TypeOK, [Next]_vars PROVE TypeOK'
  OBVIOUS
<1> USE Constants, RateLimiterAssumption DEF TypeOK, Larger, Smaller
<1>1. ASSUME NEW c \in Callers, Call(c) PROVE TypeOK'
  BY <1>1 DEF Call
<1>2. ASSUME NEW c \in Callers, TakeToken(c) PROVE TypeOK'
  <2>1. passed' \in Seq(0 .. Horizon) /\ Len(passed') <= History
    BY <1>2, OneMore
  <2>2. /\ tokens' \in 0 .. Full /\ since' \in 0 .. Full
        /\ at' \in [Callers -> {"idle", "waiting", "asleep"}] /\ left' = left
    BY <1>2 DEF TakeToken, Refilled
  <2>3. QED
    BY <2>1, <2>2
<1>3. ASSUME NEW c \in Callers, Sleep(c) PROVE TypeOK'
  BY <1>3 DEF Sleep, Refilled
<1>4. CASE Tick
  <2>1. tokens' \in 0 .. Full /\ since' \in 0 .. Full /\ at' = at
    BY <1>4 DEF Tick
  <2>2. left' \in [Callers -> 0 .. Larger(MinSleep, Interval)]
    BY <1>4 DEF Tick
  <2>3. passed' \in Seq(0 .. Horizon) /\ Len(passed') = Len(passed)
    <3>1. passed' = [i \in 1 .. Len(passed) |-> Smaller(Horizon, passed[i] + 1)]
      BY <1>4 DEF Tick
    <3>2. \A i \in 1 .. Len(passed) : Smaller(Horizon, passed[i] + 1) \in 0 .. Horizon
      OBVIOUS
    <3> HIDE DEF Smaller
    <3>3. QED
      BY <3>1, <3>2, IsASeq
  <2>4. QED
    BY <2>1, <2>2, <2>3
<1>5. CASE UNCHANGED vars
  BY <1>5 DEF vars
<1>6. QED
  BY <1>1, <1>2, <1>3, <1>4, <1>5 DEF Next

LEMMA AccountedStep == TypeOK /\ Accounted /\ [Next]_vars => Accounted'
<1> SUFFICES ASSUME TypeOK, Accounted, [Next]_vars PROVE Accounted'
  OBVIOUS
<1>t. TypeOK'
  BY TypeStep
<1>1. ASSUME NEW c \in Callers, Call(c) PROVE Accounted'
  BY <1>1 DEF Call, Accounted
<1>2. ASSUME NEW c \in Callers, TakeToken(c) PROVE Accounted'
  <2> SUFFICES ASSUME NEW i \in DOMAIN passed', passed'[i] < Horizon
               PROVE  i * Interval + tokens' + since' <= Full + passed'[i]
    BY DEF Accounted
  <2>1. /\ tokens' = Refilled - Interval /\ since' = 0
        /\ Refilled <= Full /\ Refilled <= tokens + since /\ Refilled \in Int
    BY <1>2, Constants DEF TakeToken, Refilled, Smaller, TypeOK
  <2>2. i \in Nat \ {0} /\ passed'[i] \in Nat
    <3>1. passed' \in Seq(0 .. Horizon)
      BY <1>t DEF TypeOK
    <3>2. QED
      BY <3>1, LenProperties, ElementOfSeq, Constants
  <2>3. CASE i = 1
    BY <2>1, <2>2, <2>3, Constants
  <2>4. CASE i > 1
    <3>1. i - 1 \in DOMAIN passed /\ passed'[i] = passed[i - 1]
      BY <1>2, <2>4, OneMore
    <3>2. (i - 1) * Interval + tokens + since <= Full + passed'[i]
      BY <3>1 DEF Accounted
    <3>3. PICK x \in Int : x = (i - 1) * Interval /\ i * Interval = x + Interval
      BY <2>2, Constants
    <3>4. x + tokens + since <= Full + passed'[i]
      BY <3>2, <3>3
    <3>5. x + Interval + tokens' + since' <= Full + passed'[i]
      <4>1. passed'[i] \in Int /\ Full \in Int /\ Interval \in Int
        BY <2>2, Constants
      <4>2. QED
        BY <2>1, <3>3, <3>4, <4>1, Numbers
    <3>6. QED
      BY <2>1, <3>3, <3>5, Constants
  <2>5. QED
    BY <2>2, <2>3, <2>4
<1>3. ASSUME NEW c \in Callers, Sleep(c) PROVE Accounted'
  BY <1>3, Constants DEF Sleep, Refilled, Smaller, Accounted, TypeOK
<1>4. CASE Tick
  <2> SUFFICES ASSUME NEW i \in DOMAIN passed', passed'[i] < Horizon
               PROVE  i * Interval + tokens' + since' <= Full + passed'[i]
    BY DEF Accounted
  <2>1. i \in DOMAIN passed /\ i \in Nat
    BY <1>4 DEF Tick, TypeOK
  <2>2. passed[i] \in Nat /\ passed[i] < Horizon /\ passed'[i] = passed[i] + 1
    BY <1>4, <2>1, Constants DEF Tick, Smaller, TypeOK
  <2>3. PICK x \in Int : x = i * Interval
    BY <2>1, Constants
  <2>4. x + tokens + since <= Full + passed[i]
    BY <2>1, <2>2, <2>3 DEF Accounted
  <2>5. tokens' = tokens /\ since' <= since + 1 /\ since' \in Int
    BY <1>4, Constants DEF Tick, Smaller, TypeOK
  <2>6. x + tokens' + since' <= Full + passed'[i]
    BY <2>2, <2>3, <2>4, <2>5, Constants, Numbers
  <2>7. QED
    BY <2>3, <2>6
<1>5. CASE UNCHANGED vars
  BY <1>5 DEF vars, Accounted
<1>6. QED
  BY <1>1, <1>2, <1>3, <1>4, <1>5 DEF Next

LEMMA BucketStep == IInv /\ [Next]_vars => WithinBucket'
<1> SUFFICES ASSUME IInv, [Next]_vars PROVE WithinBucket'
  OBVIOUS
<1> USE DEF IInv
<1>t. TypeOK'
  BY TypeStep
<1>1. ASSUME NEW c \in Callers, Call(c) \/ Sleep(c) PROVE WithinBucket'
  BY <1>1 DEF Call, Sleep, WithinBucket
<1>2. ASSUME NEW c \in Callers, TakeToken(c) PROVE WithinBucket'
  <2> SUFFICES ASSUME NEW i \in DOMAIN passed', NEW j \in DOMAIN passed',
                      i < j, passed'[j] < Horizon
               PROVE  (j - i + 1 - Bucket) * Interval <= passed'[j] - passed'[i]
    BY DEF WithinBucket
  <2>1. i \in Nat \ {0} /\ j \in Nat \ {0} /\ passed'[1] = 0
    BY <1>2, <1>t, OneMore DEF TypeOK
  <2>2. j - 1 \in DOMAIN passed /\ passed'[j] = passed[j - 1]
    BY <1>2, <2>1, OneMore
  <2>3. CASE i = 1
    <3>1. (j - 1) * Interval + tokens + since <= Full + passed'[j]
      BY <2>2 DEF Accounted
    <3>2. Interval <= tokens + since
      BY <1>2, Constants DEF TakeToken, Refilled, Smaller, TypeOK
    <3>3. PICK x \in Int : /\ x = (j - 1) * Interval
                           /\ (j - i + 1 - Bucket) * Interval = x + Interval - Full
      <4>1. j - i + 1 - Bucket = (j - 1) - (Bucket - 1)
        BY <2>1, <2>3, Constants
      <4>2. (Bucket - 1) * Interval = Full - Interval
        BY Distribute, Constants DEF Full
      <4>3. ((j - 1) - (Bucket - 1)) * Interval = (j - 1) * Interval - (Bucket - 1) * Interval
        BY <2>1, Distribute, Constants
      <4>4. (j - 1) * Interval \in Int
        BY <2>1, Distribute, Constants
      <4>5. QED
        BY <4>1, <4>2, <4>3, <4>4, Constants
    <3>4. passed'[j] \in Int
      BY <1>t, <2>1, Constants DEF TypeOK
    <3>5. x + tokens + since <= Full + passed'[j]
      BY <3>1, <3>3
    <3>6. x + Interval - Full <= passed'[j]
      BY <3>2, <3>3, <3>4, <3>5, Constants DEF TypeOK
    <3>7. QED
      BY <2>1, <2>3, <3>3, <3>4, <3>6
  <2>4. CASE i > 1
    <3>1. i - 1 \in DOMAIN passed /\ passed'[i] = passed[i - 1]
      BY <1>2, <2>4, OneMore
    <3>2. ((j - 1) - (i - 1) + 1 - Bucket) * Interval <= passed[j - 1] - passed[i - 1]
      BY <2>1, <2>2, <3>1 DEF WithinBucket
    <3>3. (j - 1) - (i - 1) + 1 - Bucket = j - i + 1 - Bucket
      BY <2>1, Constants
    <3>4. QED
      BY <2>2, <3>1, <3>2, <3>3
  <2>5. QED
    BY <2>1, <2>3, <2>4
<1>3. CASE Tick
  <2> SUFFICES ASSUME NEW i \in DOMAIN passed', NEW j \in DOMAIN passed',
                      i < j, passed'[j] < Horizon
               PROVE  (j - i + 1 - Bucket) * Interval <= passed'[j] - passed'[i]
    BY DEF WithinBucket
  <2>1. i \in DOMAIN passed /\ j \in DOMAIN passed /\ i \in Nat /\ j \in Nat
    BY <1>3, <1>t DEF Tick, TypeOK
  <2>2. /\ passed[j] < Horizon /\ passed'[j] = passed[j] + 1 /\ passed'[i] <= passed[i] + 1
        /\ passed[i] \in Int /\ passed[j] \in Int /\ passed'[i] \in Int
    BY <1>3, <2>1, Constants DEF Tick, Smaller, TypeOK
  <2>3. (j - i + 1 - Bucket) * Interval <= passed[j] - passed[i]
    BY <2>1, <2>2 DEF WithinBucket
  <2>4. (j - i + 1 - Bucket) * Interval \in Int
    BY <2>1, Constants
  <2>5. QED
    BY <2>2, <2>3, <2>4
<1>4. CASE UNCHANGED vars
  BY <1>4 DEF vars, WithinBucket
<1>5. QED
  BY <1>1, <1>2, <1>3, <1>4 DEF Next

\* The inductive invariant holds in every reachable state.
THEOREM Invariance == Spec => []IInv
<1>1. Init => IInv
  BY InitIInv
<1>2. IInv /\ [Next]_vars => IInv'
  BY TypeStep, AccountedStep, BucketStep DEF IInv
<1>3. QED
  BY <1>1, <1>2, PTL DEF Spec

\* No token is spent before it is there: the counter stays within the bucket,
\* whoever takes r.mu between another's sleep and its next look.
THEOREM TypeCorrect == Spec => []TypeOK
  BY Invariance, PTL DEF IInv

\* send_max_rps and send_max_burst hold for every window of calls of SendQuery, however
\* many servers one of them tries: Refilled is capped when a token is taken, so
\* that a row of calls can draw on one bucket only.
THEOREM CallsWithinBucket == Spec => []WithinBucket
  BY Invariance, PTL DEF IInv
=============================================================================
