--------------------------- MODULE BandwidthProofs ---------------------------
(***************************************************************************)
(* Theorems about Bandwidth, for any number of transfers, any cap, any     *)
(* resolution of the clock and chunks of any length.                       *)
(***************************************************************************)
EXTENDS Bandwidth, FiniteSetTheorems, TLAPS

\* The part of the type invariant the rate depends on.
Typed ==
  /\ stage \in [Tasks -> Stages]
  /\ rate \in [Tasks -> Nat] /\ tokens \in [Tasks -> Nat] /\ age \in [Tasks -> Nat]
  /\ need \in [Tasks -> Nat] /\ ahead \in [Tasks -> Nat]
  /\ \A t \in Tasks : age[t] <= Ticks
RInv == Typed /\ RateInv

\* A share of the cap is a number of bytes.
LEMMA DivType ==
  ASSUME NEW m \in Nat, NEW n \in Nat \ {0}
  PROVE  m \div n \in Nat
OBVIOUS

\* One more tick refills one more tick's worth.
LEMMA OneMoreTick ==
  ASSUME NEW a \in Nat, NEW r \in Nat
  PROVE  (a + 1) * r = a * r + r /\ a * r \in Nat
OBVIOUS

\* A product of numbers is one.
LEMMA TimesType ==
  ASSUME NEW a \in Nat, NEW b \in Nat
  PROVE  a * b \in Nat /\ a * b = b * a
OBVIOUS

\* What a bucket of rate r holds after a refill, and what it may hold.
LEMMA RefillType ==
  ASSUME NEW r \in Nat, NEW k \in Nat, NEW tok \in Nat, NEW a \in Nat
  PROVE  LET held == Least(r * k, tok + a * r)
         IN  /\ r * k \in Nat /\ a * r \in Nat /\ held \in Nat /\ held <= r * k
             /\ held <= tok + a * r
             /\ held = r * k \/ held = tok + a * r
<1>1. r * k \in Nat /\ a * r \in Nat
  BY TimesType
<1> QED
  BY <1>1 DEF Least

\* The same of a task's bucket.
LEMMA BucketType ==
  ASSUME Typed
  PROVE  \A t \in Tasks : Full(t) \in Nat /\ Refilled(t) \in Nat /\ Refilled(t) <= Full(t)
BY RefillType, BandwidthAssumption DEF Typed, Full, Refilled

\* After a step.
LEMMA BucketTypeNext ==
  ASSUME Typed'
  PROVE  \A t \in Tasks : Full(t)' \in Nat /\ Refilled(t)' \in Nat /\ Refilled(t)' <= Full(t)'
BY RefillType, BandwidthAssumption DEF Typed, Full, Refilled

\* A bucket that did not change stays balanced, or gets more so.
LEMMA SameBucket ==
  ASSUME NEW t, rate'[t] = rate[t], tokens'[t] = tokens[t], age'[t] = age[t]
  PROVE  Full(t)' = Full(t) /\ Refilled(t)' = Refilled(t)
BY DEF Full, Refilled, Least

\* Nothing has been granted by a bucket that does not exist.
LEMMA InitRate == Init => RInv
<1> SUFFICES ASSUME Init PROVE RInv
  OBVIOUS
<1>1. Typed
  BY BandwidthAssumption DEF Init, Typed, Stages
<1>2. Clean
  BY DEF Init, Clean, Runs
<1>3. ASSUME NEW t \in Tasks PROVE ahead[t] + Refilled(t) <= Full(t)
  BY <1>1, BucketType DEF Init, Typed
<1> QED
  BY <1>1, <1>2, <1>3 DEF RInv, RateInv, Balanced

\* A transfer that begins gets a full bucket and has been granted nothing.
LEMMA LimitRate ==
  ASSUME RInv, NEW t \in Tasks, Limit(t)
  PROVE  RInv'
<1> DEFINE r == Budget(Cardinality(Active))
<1>1. r \in Nat
  <2>1. Cardinality(Active) \in Nat
    BY FS_Subset, FS_CardinalityType, BandwidthAssumption DEF Active
  <2>2. (IF Cardinality(Active) = 0 THEN 1 ELSE Cardinality(Active)) \in Nat \ {0}
    BY <2>1
  <2> QED
    BY <2>2, DivType, BandwidthAssumption DEF Budget
<1> HIDE DEF r
<1>2. r * Ticks \in Nat
  BY <1>1, TimesType, BandwidthAssumption
<1>3. /\ stage' = [stage EXCEPT ![t] = "running"]
      /\ rate' = [rate EXCEPT ![t] = r] /\ tokens' = [tokens EXCEPT ![t] = r * Ticks]
      /\ age' = [age EXCEPT ![t] = 0] /\ need' = need /\ ahead' = ahead
      /\ stage[t] = "active"
  BY DEF Limit, call, r
<1>4. Typed'
  BY <1>1, <1>2, <1>3, BandwidthAssumption DEF RInv, Typed, Stages
<1>5. Clean'
  BY <1>3 DEF RInv, RateInv, Clean, Typed, Runs
<1>6. ASSUME NEW u \in Tasks PROVE (ahead[u] + Refilled(u) <= Full(u))'
  <2>1. CASE u = t
    <3>1. ahead'[u] = 0
      BY <1>3, <2>1 DEF RInv, RateInv, Clean, Runs
    <3>2. Full(u)' \in Nat /\ Refilled(u)' \in Nat /\ Refilled(u)' <= Full(u)'
      BY <1>4, BucketTypeNext
    <3> QED
      BY <3>1, <3>2
  <2>2. CASE u # t
    BY <1>3, <2>2, SameBucket DEF RInv, RateInv, Balanced, Typed
  <2> QED
    BY <2>1, <2>2
<1> QED
  BY <1>4, <1>5, <1>6 DEF RInv, RateInv, Balanced

\* A tick refills the bucket by as much as it takes off what is ahead.
LEMMA TickRate ==
  ASSUME RInv, Tick
  PROVE  RInv'
<1>1. /\ UNCHANGED <<stage, rate, tokens, need>>
      /\ age' = [t \in Tasks |-> IF rate[t] > 0 THEN Least(Ticks, age[t] + 1) ELSE 0]
      /\ ahead' = [t \in Tasks |-> IF ahead[t] > rate[t] THEN ahead[t] - rate[t] ELSE 0]
  BY DEF Tick
<1>2. Typed'
  BY <1>1, BandwidthAssumption DEF RInv, Typed, Least
<1>3. Clean'
  BY <1>1 DEF RInv, RateInv, Clean, Typed, Runs
<1>4. ASSUME NEW t \in Tasks PROVE ahead'[t] + Refilled(t)' <= Full(t)'
  <2> DEFINE R == rate[t]  A == age[t]  T == tokens[t]  F == R * Ticks
  <2>1. /\ R \in Nat /\ A \in Nat /\ T \in Nat /\ F \in Nat /\ ahead[t] \in Nat
        /\ A * R \in Nat /\ (A + 1) * R = A * R + R /\ A <= Ticks /\ Ticks \in Nat
        /\ Ticks * R = F
    BY TimesType, OneMoreTick, BandwidthAssumption DEF RInv, Typed
  <2>2. ahead[t] + Least(F, T + A * R) <= F
    BY DEF RInv, RateInv, Balanced, Refilled, Full
  <2>3. /\ ahead'[t] = IF ahead[t] > R THEN ahead[t] - R ELSE 0
        /\ Refilled(t)' = Least(F, T + age'[t] * R) /\ Full(t)' = F
        /\ age'[t] = IF R > 0 THEN Least(Ticks, A + 1) ELSE 0
    BY <1>1 DEF Refilled, Full
  <2>4. Refilled(t)' \in Nat /\ Refilled(t)' <= F /\ ahead'[t] \in Nat
    BY <1>2, <2>3, BucketTypeNext DEF Typed
  <2>5. CASE ahead[t] <= R
    BY <2>1, <2>3, <2>4, <2>5
  <2>6. CASE ahead[t] > R /\ A = Ticks
    <3>1. Least(F, T + A * R) = F
      BY <2>1, <2>6 DEF Least
    <3> QED
      BY <2>1, <2>2, <2>6, <3>1
  <2>7. CASE ahead[t] > R /\ A # Ticks /\ R > 0
    <3>1. age'[t] = A + 1
      BY <2>1, <2>3, <2>7 DEF Least
    <3>2. Refilled(t)' = Least(F, T + A * R + R)
      BY <2>1, <2>3, <3>1
    <3> HIDE DEF F
    <3> DEFINE P == A * R
    <3>3. P \in Nat /\ ahead[t] + Least(F, T + P) <= F /\ Refilled(t)' = Least(F, T + P + R)
      BY <2>1, <2>2, <3>2
    <3> HIDE DEF P
    <3> QED
      BY <2>1, <2>3, <2>7, <3>3 DEF Least
  <2>8. CASE R = 0
    <3>a. 0 * Ticks = 0
      BY <2>1
    <3>1. F = 0
      BY <2>8, <3>a
    <3> HIDE DEF F
    <3> DEFINE P == A * R
    <3>b. P \in Nat /\ ahead[t] + Least(F, T + P) <= F
      BY <2>1, <2>2
    <3> HIDE DEF P
    <3>2. ahead[t] <= R
      BY <2>1, <2>8, <3>1, <3>b DEF Least
    <3> QED
      BY <2>5, <3>2
  <2> QED
    BY <2>1, <2>5, <2>6, <2>7, <2>8
<1> QED
  BY <1>2, <1>3, <1>4 DEF RInv, RateInv, Balanced

\* A round of acquire grants what it takes out of the bucket, or nothing.
LEMMA TryRate ==
  ASSUME RInv, NEW t \in Tasks, Try(t)
  PROVE  RInv'
<1> DEFINE N == need[t] * Ticks
<1>1. /\ stage' = stage /\ rate' = rate /\ age' = [age EXCEPT ![t] = 0] /\ need[t] > 0
  BY DEF Try
<1>2. /\ rate[t] \in Nat /\ age[t] \in Nat /\ tokens[t] \in Nat /\ ahead[t] \in Nat
      /\ N \in Nat /\ Runs(t)
      /\ Full(t) \in Nat /\ Refilled(t) \in Nat /\ Refilled(t) <= Full(t)
      /\ ahead[t] + Refilled(t) <= Full(t)
  <2>1. need[t] \in Nat
    BY DEF RInv, Typed
  <2>2. Runs(t)
    BY <1>1, <2>1 DEF RInv, RateInv, Clean
  <2> QED
    BY <2>1, <2>2, TimesType, BucketType, BandwidthAssumption
       DEF RInv, RateInv, Balanced, Typed
<1> HIDE DEF N
<1>3. \/ /\ Refilled(t) >= N
         /\ tokens' = [tokens EXCEPT ![t] = Refilled(t) - N]
         /\ ahead' = [ahead EXCEPT ![t] = ahead[t] + N]
         /\ need' = [need EXCEPT ![t] = 0]
      \/ /\ tokens' = [tokens EXCEPT ![t] = Refilled(t)]
         /\ ahead' = ahead /\ need' = need
  BY DEF Try, Take, GoToSleep, Enough, N
<1>4. /\ tokens'[t] \in Nat /\ ahead'[t] \in Nat
      /\ tokens'[t] + ahead'[t] = Refilled(t) + ahead[t]
  BY <1>2, <1>3 DEF RInv, Typed
<1>5. Typed'
  BY <1>1, <1>2, <1>3, <1>4, BandwidthAssumption DEF RInv, Typed
<1>6. Clean'
  BY <1>1, <1>2, <1>3 DEF RInv, RateInv, Clean, Typed, Runs
<1>7. ASSUME NEW u \in Tasks PROVE ahead'[u] + Refilled(u)' <= Full(u)'
  <2>1. CASE u = t
    <3>1. age'[t] = 0 /\ rate'[t] = rate[t] /\ Full(t)' = Full(t)
      BY <1>1 DEF RInv, Typed, Full
    <3>2. Refilled(t)' <= tokens'[t] /\ Refilled(t)' \in Nat
      <4>1. 0 * rate[t] = 0
        BY <1>2
      <4>2. Refilled(t)' = Least(Full(t), tokens'[t] + 0 * rate[t])
        BY <3>1 DEF Refilled
      <4>3. Refilled(t)' = Least(Full(t), tokens'[t])
        BY <1>4, <4>1, <4>2
      <4> QED
        BY <1>2, <1>4, <4>3 DEF Least
    <3> QED
      BY <1>2, <1>4, <2>1, <3>1, <3>2
  <2>2. CASE u # t
    <3>1. /\ rate'[u] = rate[u] /\ tokens'[u] = tokens[u] /\ age'[u] = age[u]
          /\ ahead'[u] = ahead[u]
      BY <1>1, <1>3, <2>2 DEF RInv, Typed
    <3> QED
      BY <3>1, SameBucket DEF RInv, RateInv, Balanced
  <2> QED
    BY <2>1, <2>2
<1> QED
  BY <1>5, <1>6, <1>7 DEF RInv, RateInv, Balanced

\* The transfer leaves and its bucket with it.
LEMMA LeaveRate ==
  ASSUME RInv, NEW t \in Tasks, Leave(t)
  PROVE  RInv'
<1>1. /\ stage' = [stage EXCEPT ![t] = "off"] /\ rate' = [rate EXCEPT ![t] = 0]
      /\ tokens' = [tokens EXCEPT ![t] = 0] /\ age' = [age EXCEPT ![t] = 0]
      /\ need' = [need EXCEPT ![t] = 0] /\ ahead' = [ahead EXCEPT ![t] = 0]
  BY DEF Leave
<1>2. Typed'
  BY <1>1, BandwidthAssumption DEF RInv, Typed, Stages
<1>3. Clean'
  BY <1>1 DEF RInv, RateInv, Clean, Typed, Runs
<1>4. ASSUME NEW u \in Tasks PROVE ahead'[u] + Refilled(u)' <= Full(u)'
  <2>1. CASE u = t
    <3>1. ahead'[u] = 0
      BY <1>1, <2>1 DEF RInv, Typed
    <3> QED
      BY <1>2, <3>1, BucketTypeNext
  <2>2. CASE u # t
    <3>1. /\ rate'[u] = rate[u] /\ tokens'[u] = tokens[u] /\ age'[u] = age[u]
          /\ ahead'[u] = ahead[u]
      BY <1>1, <2>2 DEF RInv, Typed
    <3> QED
      BY <3>1, SameBucket DEF RInv, RateInv, Balanced
  <2> QED
    BY <2>1, <2>2
<1> QED
  BY <1>2, <1>3, <1>4 DEF RInv, RateInv, Balanced

\* A step that touches no bucket and grants nothing keeps the balance.
LEMMA CalmRate ==
  ASSUME RInv, UNCHANGED <<bucket, ahead>>, Typed', Clean'
  PROVE  RInv'
<1>1. ASSUME NEW t \in Tasks PROVE ahead'[t] + Refilled(t)' <= Full(t)'
  BY SameBucket DEF bucket, RInv, RateInv, Balanced
<1> QED
  BY <1>1 DEF RInv, RateInv, Balanced

\* RInv is inductive.
LEMMA NextRate == RInv /\ [Next]_vars => RInv'
<1> SUFFICES ASSUME RInv, [Next]_vars PROVE RInv'
  OBVIOUS
<1>1. ASSUME NEW t \in Tasks, Admit(t) PROVE RInv'
  BY <1>1, CalmRate DEF Admit, bucket, call, RInv, RateInv, Typed, Clean, Stages, Runs
<1>2. ASSUME NEW t \in Tasks, NEW n \in 1..MaxNeed, Ask(t, n) PROVE RInv'
  BY <1>2, CalmRate, BandwidthAssumption DEF Ask, bucket, RInv, RateInv, Typed, Clean, Runs
<1>3. CASE UNCHANGED vars
  BY <1>3, CalmRate DEF vars, bucket, call, RInv, RateInv, Typed, Clean, Runs
<1>4. ASSUME NEW t \in Tasks, Withdraw(t) PROVE RInv'
  BY <1>4, CalmRate DEF Withdraw, bucket, call, RInv, RateInv, Typed, Clean, Stages, Runs
<1> QED
  BY <1>1, <1>2, <1>3, <1>4, LimitRate, LeaveRate, TryRate, TickRate DEF Next

\* The balance bounds what was granted ahead.
LEMMA BalanceBounds == RInv => WithinRate
<1> SUFFICES ASSUME RInv, NEW t \in Tasks PROVE ahead[t] <= Full(t)
  BY DEF WithinRate
<1> QED
  BY BucketType DEF RInv, RateInv, Balanced, Typed

\* Whatever the rates, the lengths of the chunks and the times at which a
\* transfer asks and is polled: in no stretch of time is it granted more than
\* its rate times that time and one second's worth.
THEOREM RateRespected == Spec => []WithinRate
BY InitRate, NextRate, BalanceBounds, PTL DEF Spec

(***************************************************************************)
(* The shares.  A share is fixed when its transfer begins, from the number *)
(* of downloads counted then; only Limit gives one out.                    *)
(***************************************************************************)

\* A share is at most the cap, and of two transfers that are counted one has a
\* share of half the cap at most.
Counted(t) == stage[t] = "running"
HalfShares ==
  /\ \A t \in Tasks : rate[t] <= Cap
  /\ \A t, u \in Tasks : t # u /\ Counted(t) /\ Counted(u) =>
       rate[t] <= Cap \div 2 \/ rate[u] <= Cap \div 2
ShareInv == RInv /\ HalfShares /\ SharesLimit

\* A share of n or more downloads is at most the n-th part; one of no more
\* downloads than there are bytes is a byte at least.
LEMMA ShareBounds ==
  ASSUME NEW m \in Nat, NEW n \in Nat \ {0}
  PROVE  /\ m \div n \in Nat /\ m \div n <= m
         /\ n >= 2 => m \div n <= m \div 2
         /\ n <= m => m \div n >= 1
<1> DEFINE q == m \div n  h == m \div 2
<1>1. /\ q \in Nat /\ h \in Nat
      /\ n * q <= m /\ m < n * (q + 1)
      /\ 2 * h <= m /\ m < 2 * (h + 1)
  OBVIOUS
<1> HIDE DEF q, h
<1>2. ASSUME NEW a \in Nat, NEW b \in Nat, a <= b PROVE a * q <= b * q
  BY <1>1, <1>2
<1>3. q <= m
  BY <1>1, <1>2
<1>4. ASSUME n >= 2 PROVE q <= h
  <2>1. 2 * q <= n * q
    BY <1>2, <1>4
  <2>2. n * q \in Nat
    BY <1>1, TimesType
  <2> QED
    BY <1>1, <2>1, <2>2
<1>5. ASSUME n <= m PROVE q >= 1
  <2>1. CASE q = 0
    BY <1>1, <1>5, <2>1
  <2> QED
    BY <1>1, <2>1
<1> QED
  BY <1>1, <1>3, <1>4, <1>5 DEF q, h

\* The share a transfer begins with: at most the cap, half of it when another
\* is counted, and a byte when there are not more transfers than bytes.
LEMMA NewShare ==
  ASSUME NEW t \in Tasks, stage[t] = "active"
  PROVE  LET r == Budget(Cardinality(Active))
         IN  /\ r \in Nat /\ r <= Cap
             /\ (\E u \in Tasks : u # t /\ Counted(u)) => r <= Cap \div 2
             /\ Cardinality(Tasks) <= Cap => r >= 1
<1> DEFINE n == Cardinality(Active)
<1>1. /\ IsFiniteSet(Active) /\ n \in Nat /\ n <= Cardinality(Tasks)
      /\ Cardinality(Tasks) \in Nat
  BY FS_Subset, FS_CardinalityType, BandwidthAssumption DEF Active
<1>2. t \in Active
  BY DEF Active
<1>3. n # 0
  BY <1>1, <1>2, FS_EmptySet
<1>4. Budget(n) = Cap \div n
  BY <1>3 DEF Budget
<1>5. ASSUME NEW u \in Tasks, u # t, Counted(u) PROVE n >= 2
  <2>1. {t, u} \subseteq Active
    BY <1>2, <1>5 DEF Active, Counted
  <2>2. Cardinality({t, u}) = 2
    <3>1. IsFiniteSet({t}) /\ Cardinality({t}) = 1
      BY FS_Singleton
    <3>2. Cardinality({t} \cup {u}) = Cardinality({t}) + 1
      BY <1>5, <3>1, FS_AddElement
    <3>3. {t, u} = {t} \cup {u}
      OBVIOUS
    <3> QED
      BY <3>1, <3>2, <3>3
  <2> QED
    BY <1>1, <2>1, <2>2, FS_Subset
<1> HIDE DEF n
<1>6. /\ Cap \div n \in Nat /\ Cap \div n <= Cap
      /\ n >= 2 => Cap \div n <= Cap \div 2
      /\ n <= Cap => Cap \div n >= 1
  BY <1>1, <1>3, ShareBounds, BandwidthAssumption
<1>7. n <= Cap \/ ~(Cardinality(Tasks) <= Cap)
  BY <1>1, BandwidthAssumption
<1> QED
  BY <1>4, <1>5, <1>6, <1>7 DEF n

\* Nobody has a share in the beginning.
LEMMA InitShares == Init => ShareInv
<1> SUFFICES ASSUME Init PROVE ShareInv
  OBVIOUS
<1>1. RInv
  BY InitRate
<1> QED
  BY <1>1, BandwidthAssumption DEF Init, ShareInv, HalfShares, SharesLimit, Counted, Runs

\* A step that gives no share out and lets nobody begin.
LEMMA SameShares ==
  ASSUME ShareInv, RInv',
         \A t \in Tasks : \/ rate'[t] = rate[t] /\ (Runs(t)' => Runs(t))
                             /\ (Counted(t)' => Counted(t))
                          \/ rate'[t] = 0 /\ ~Runs(t)' /\ ~Counted(t)'
  PROVE  ShareInv'
<1>1. HalfShares'
  BY BandwidthAssumption DEF ShareInv, HalfShares
<1>2. SharesLimit'
  BY DEF ShareInv, SharesLimit
<1> QED
  BY <1>1, <1>2 DEF ShareInv

\* ShareInv is inductive.
LEMMA NextShares == ShareInv /\ [Next]_vars => ShareInv'
<1> SUFFICES ASSUME ShareInv, [Next]_vars PROVE ShareInv'
  OBVIOUS
<1>0. RInv' /\ Typed
  BY NextRate DEF ShareInv, RInv
<1>1. ASSUME NEW t \in Tasks, Limit(t) PROVE ShareInv'
  <2> DEFINE r == Budget(Cardinality(Active))
  <2>1. /\ stage' = [stage EXCEPT ![t] = "running"] /\ rate' = [rate EXCEPT ![t] = r]
        /\ stage[t] = "active"
    BY <1>1 DEF Limit
  <2>2. /\ r \in Nat /\ r <= Cap
        /\ (\E u \in Tasks : u # t /\ Counted(u)) => r <= Cap \div 2
        /\ Cardinality(Tasks) <= Cap => r >= 1
    BY <2>1, NewShare
  <2> HIDE DEF r
  <2>3. /\ rate'[t] = r
        /\ \A u \in Tasks : u # t =>
             rate'[u] = rate[u] /\ (Counted(u)' <=> Counted(u)) /\ (Runs(u)' <=> Runs(u))
    BY <1>0, <2>1 DEF Typed, Counted, Runs
  <2>4. HalfShares'
    BY <2>2, <2>3 DEF ShareInv, HalfShares
  <2>5. SharesLimit'
    BY <2>2, <2>3 DEF ShareInv, SharesLimit
  <2> QED
    BY <1>0, <2>4, <2>5 DEF ShareInv
<1>2. ASSUME NEW t \in Tasks, Leave(t) PROVE ShareInv'
  BY <1>0, <1>2, SameShares DEF Leave, Typed, Counted, Runs
<1>3. ASSUME NEW t \in Tasks, Admit(t) \/ Withdraw(t) PROVE ShareInv'
  BY <1>0, <1>3, SameShares DEF Admit, Withdraw, bucket, Typed, Counted, Runs
<1>4. ASSUME UNCHANGED <<stage, rate>> PROVE ShareInv'
  BY <1>0, <1>4, SameShares DEF Counted, Runs
<1> QED
  BY <1>1, <1>2, <1>3, <1>4 DEF Next, Ask, Try, Tick, vars, bucket

\* What the shares of two transfers add up to.
LEMMA SharesAddUp == ShareInv => SharesOverlap
<1> SUFFICES ASSUME ShareInv, NEW t \in Tasks, NEW u \in Tasks,
                    t # u, Counted(t), Counted(u)
             PROVE  rate[t] + rate[u] <= Cap + Cap \div 2
  BY DEF SharesOverlap, Counted
<1>1. Cap \div 2 \in Nat
  BY DivType, BandwidthAssumption
<1>2. rate[t] \in Nat /\ rate[u] \in Nat /\ rate[t] <= Cap /\ rate[u] <= Cap
  BY DEF ShareInv, HalfShares, RInv, Typed
<1>3. rate[t] <= Cap \div 2 \/ rate[u] <= Cap \div 2
  BY DEF ShareInv, HalfShares
<1> QED
  BY <1>1, <1>2, <1>3, BandwidthAssumption

\* However many downloads there are and whenever they come and go: the shares of
\* any two that count add up to one and a half times the cap at most.
THEOREM OverlapBounded == Spec => []SharesOverlap
BY InitShares, NextShares, SharesAddUp, PTL DEF Spec

\* A cap of a byte a second for each download is never taken for no cap.
THEOREM CapApplies == Spec => []SharesLimit
<1>1. ShareInv => SharesLimit
  BY DEF ShareInv
<1> QED
  BY <1>1, InitShares, NextShares, PTL DEF Spec

\* Both together, as they are checked: limiter_for's share of the cap.
THEOREM SharesHold == Spec => []SharesFit
<1>1. SharesOverlap /\ SharesLimit => SharesFit
  BY DEF SharesFit
<1> QED
  BY <1>1, OverlapBounded, CapApplies, PTL

(***************************************************************************)
(* Types.                                                                  *)
(***************************************************************************)
\* What acquire counts; only a transfer with a limiter acquires.
Waits ==
  /\ \A t \in Tasks : tokens[t] <= Full(t) /\ (need[t] > 0 => rate[t] > 0)
  /\ need \in [Tasks -> 0..MaxNeed]
  /\ sleep \in [Tasks -> Nat] /\ sleeps \in [Tasks -> 0..2]

LEMMA WaitType ==
  ASSUME ShareInv, Waits, NEW t \in Tasks, need[t] > 0, ~Enough(t)
  PROVE  Wait(t) \in Nat
<1>1. /\ rate[t] \in Nat \ {0} /\ need[t] * Ticks \in Nat /\ Refilled(t) \in Nat
      /\ need[t] * Ticks > Refilled(t)
  <2>1. need[t] \in Nat /\ rate[t] \in Nat
    BY DEF ShareInv, RInv, Typed
  <2> QED
    BY <2>1, TimesType, BucketType, BandwidthAssumption DEF ShareInv, RInv, Waits, Enough
<1>2. need[t] * Ticks - Refilled(t) + rate[t] - 1 \in Nat
  BY <1>1
<1> QED
  BY <1>1, <1>2, DivType DEF Wait

\* A step that leaves the buckets and what is acquired alone.
LEMMA WaitsKept ==
  ASSUME Waits, UNCHANGED <<rate, tokens, need>>, sleep' \in [Tasks -> Nat], sleeps' \in [Tasks -> 0..2]
  PROVE  Waits'
BY DEF Waits, Full

LEMMA WaitsNext == ShareInv /\ Waits /\ [Next]_vars => Waits'
<1> SUFFICES ASSUME ShareInv, Waits, [Next]_vars PROVE Waits'
  OBVIOUS
<1>0. Typed /\ RInv
  BY DEF ShareInv, RInv
<1>1. ASSUME NEW t \in Tasks, Admit(t) \/ Withdraw(t) PROVE Waits'
  BY <1>1, WaitsKept DEF Admit, Withdraw, bucket, call, Waits
<1>2. CASE UNCHANGED vars
  BY <1>2, WaitsKept DEF vars, bucket, call, Waits
<1>3. CASE Tick
  <2>1. sleep' \in [Tasks -> Nat]
    BY <1>3 DEF Tick, Waits
  <2> QED
    BY <1>3, <2>1, WaitsKept DEF Tick, Waits
<1>4. ASSUME NEW t \in Tasks, Limit(t) PROVE Waits'
  <2> DEFINE r == Budget(Cardinality(Active))
  <2>1. r \in Nat /\ rate' = [rate EXCEPT ![t] = r] /\ tokens' = [tokens EXCEPT ![t] = r * Ticks]
        /\ UNCHANGED <<need, sleep, sleeps>> /\ need[t] = 0
    BY <1>0, <1>4, NewShare DEF Limit, call, RInv, RateInv, Clean, Runs
  <2>2. r * Ticks \in Nat
    BY <2>1, TimesType, BandwidthAssumption
  <2> HIDE DEF r
  <2> QED
    BY <1>0, <2>1, <2>2 DEF Waits, Full, Typed
<1>5. ASSUME NEW t \in Tasks, Leave(t) PROVE Waits'
  <2>1. 0 * Ticks = 0
    BY BandwidthAssumption
  <2> QED
    BY <1>0, <1>5, <2>1, BandwidthAssumption DEF Leave, Waits, Full, Typed
<1>6. ASSUME NEW t \in Tasks, NEW n \in 1..MaxNeed, Ask(t, n) PROVE Waits'
  BY <1>0, <1>6, BandwidthAssumption DEF Ask, bucket, Waits, Full, Typed
<1>7. ASSUME NEW t \in Tasks, Try(t) PROVE Waits'
  <2> DEFINE N == need[t] * Ticks
  <2>1. /\ need[t] \in Nat /\ N \in Nat /\ Refilled(t) \in Nat /\ Full(t) \in Nat
        /\ Refilled(t) <= Full(t) /\ rate' = rate /\ need[t] > 0
    BY <1>0, <1>7, TimesType, BucketType, BandwidthAssumption DEF Try, Typed
  <2>2. CASE Enough(t)
    <3>1. /\ tokens' = [tokens EXCEPT ![t] = Refilled(t) - N] /\ need' = [need EXCEPT ![t] = 0]
          /\ sleep' = sleep /\ sleeps' = [sleeps EXCEPT ![t] = 0] /\ Refilled(t) >= N
      BY <1>7, <2>2 DEF Try, Take, Enough
    <3> HIDE DEF N
    <3>2. \A u \in Tasks : tokens'[u] <= Full(u)
      BY <1>0, <2>1, <3>1 DEF Waits, Typed
    <3> QED
      BY <1>0, <2>1, <3>1, <3>2, BandwidthAssumption DEF Waits, Full, Typed
  <2>3. CASE ~Enough(t)
    <3>1. /\ tokens' = [tokens EXCEPT ![t] = Refilled(t)] /\ need' = need
          /\ sleep' = [sleep EXCEPT ![t] = Wait(t)]
          /\ sleeps' = [sleeps EXCEPT ![t] = Least(2, sleeps[t] + 1)]
      BY <1>7, <2>3 DEF Try, GoToSleep
    <3>2. Wait(t) \in Nat
      BY <2>1, <2>3, WaitType
    <3>3. Least(2, sleeps[t] + 1) \in 0..2
      BY DEF Least, Waits
    <3>4. \A u \in Tasks : tokens'[u] <= Full(u)
      BY <1>0, <2>1, <3>1 DEF Waits, Typed
    <3> QED
      BY <1>0, <2>1, <3>1, <3>2, <3>3, <3>4 DEF Waits, Full, Typed
  <2> QED
    BY <2>2, <2>3
<1> QED
  BY <1>1, <1>2, <1>3, <1>4, <1>5, <1>6, <1>7 DEF Next

\* A bucket never holds more than a second's worth, and an acquire never waits
\* for a negative time.
THEOREM TypeCorrect == Spec => []TypeOK
<1>1. Init => Waits
  <2>1. 0 * Ticks = 0
    BY BandwidthAssumption
  <2> QED
    BY <2>1, BandwidthAssumption DEF Init, Waits, Full
<1>2. ShareInv /\ Waits => TypeOK
  BY BandwidthAssumption DEF ShareInv, HalfShares, RInv, Typed, Waits, TypeOK
<1> QED
  BY <1>1, <1>2, InitShares, NextShares, WaitsNext, PTL DEF Spec

(***************************************************************************)
(* One sleep is enough.                                                    *)
(***************************************************************************)
\* While an acquire within the rate sleeps, the bucket holds by the time it
\* wakes what it needs.
Provided(t) == tokens[t] + (age[t] + sleep[t]) * rate[t] >= need[t] * Ticks
Rested ==
  \A t \in Tasks :
    /\ sleeps[t] = 0 => sleep[t] = 0
    /\ need[t] = 0 => sleeps[t] = 0
    /\ need[t] <= rate[t] /\ sleeps[t] # 0 => sleeps[t] = 1 /\ Provided(t)
SleepInv == ShareInv /\ Waits /\ Rested

\* A division that rounds up is enough.
LEMMA RoundsUp ==
  ASSUME NEW d \in Nat, NEW r \in Nat \ {0}
  PROVE  ((d + r - 1) \div r) * r >= d
<1> DEFINE q == (d + r - 1) \div r
<1>1. q \in Nat /\ d + r - 1 < r * (q + 1)
  OBVIOUS
<1> HIDE DEF q
<1>2. r * (q + 1) = q * r + r /\ q * r \in Nat
  BY <1>1, OneMoreTick
<1>3. q * r >= d
  BY <1>1, <1>2
<1> QED
  BY <1>3 DEF q

\* The longer factor, the larger product.
LEMMA TimesMore ==
  ASSUME NEW a \in Nat, NEW b \in Nat, NEW r \in Nat, a <= b
  PROVE  a * r <= b * r /\ a * r \in Nat /\ b * r \in Nat
<1>1. a * r \in Nat /\ b * r \in Nat /\ (b - a) * r \in Nat
  BY TimesType
<1>2. b * r = a * r + (b - a) * r
  OBVIOUS
<1> QED
  BY <1>1, <1>2

\* An acquire that goes to sleep sleeps long enough.
LEMMA WaitEnough ==
  ASSUME ShareInv, Waits, NEW t \in Tasks, need[t] > 0, ~Enough(t)
  PROVE  Refilled(t) + Wait(t) * rate[t] >= need[t] * Ticks
<1> DEFINE N == need[t] * Ticks  R == Refilled(t)  r == rate[t]
<1>1. r \in Nat \ {0} /\ N \in Nat /\ R \in Nat /\ R < N
  <2>1. need[t] \in Nat /\ rate[t] \in Nat
    BY DEF ShareInv, RInv, Typed
  <2> QED
    BY <2>1, TimesType, BucketType, BandwidthAssumption DEF ShareInv, RInv, Waits, Enough
<1>2. Wait(t) = (N - R + r - 1) \div r
  BY DEF Wait
<1> HIDE DEF N, R, r
<1> DEFINE d == N - R
<1>3. d \in Nat
  BY <1>1
<1>4. Wait(t) = (d + r - 1) \div r
  BY <1>2
<1> HIDE DEF d
<1>5. Wait(t) * r >= d /\ Wait(t) * r \in Nat
  <2>1. d + r - 1 \in Nat
    BY <1>1, <1>3
  <2>2. Wait(t) \in Nat
    BY <1>1, <1>4, <2>1, DivType
  <2> QED
    BY <1>1, <1>3, <1>4, <2>2, RoundsUp, TimesType
<1>6. R + Wait(t) * r >= N
  BY <1>1, <1>5 DEF d
<1> QED
  BY <1>6 DEF N, R, r

\* Time that passes brings tokens as it takes off the sleep.
LEMMA TickRested ==
  ASSUME SleepInv, Tick
  PROVE  Rested'
<1> SUFFICES ASSUME NEW t \in Tasks
             PROVE  /\ sleeps'[t] = 0 => sleep'[t] = 0
                    /\ need'[t] = 0 => sleeps'[t] = 0
                    /\ need'[t] <= rate'[t] /\ sleeps'[t] # 0 => sleeps'[t] = 1 /\ Provided(t)'
  BY DEF Rested
<1> DEFINE r == rate[t]  A == age[t]  S == sleep[t]  N == need[t] * Ticks
<1>1. /\ rate'[t] = r /\ tokens'[t] = tokens[t] /\ need'[t] = need[t] /\ sleeps'[t] = sleeps[t]
      /\ age'[t] = IF r > 0 THEN Least(Ticks, A + 1) ELSE 0
      /\ sleep'[t] = IF S > 0 THEN S - 1 ELSE 0
  BY DEF Tick
<1>2. /\ r \in Nat /\ A \in Nat /\ A <= Ticks /\ S \in Nat /\ need[t] \in Nat /\ tokens[t] \in Nat
      /\ Ticks \in Nat
  BY BandwidthAssumption DEF SleepInv, ShareInv, RInv, Typed, Waits
<1>3. ASSUME need[t] <= r, sleeps[t] # 0 PROVE sleeps[t] = 1 /\ Provided(t)'
  <2>1. sleeps[t] = 1 /\ tokens[t] + (A + S) * r >= N /\ need[t] # 0 /\ r > 0
    BY <1>2, <1>3 DEF SleepInv, Rested, Provided
  <2> DEFINE B == age'[t] + sleep'[t]
  <2>2. B \in Nat /\ (B >= A + S \/ B >= Ticks)
    BY <1>1, <1>2, <2>1 DEF Least
  <2>3. N \in Nat /\ N <= Ticks * r
    BY <1>2, <1>3, TimesMore, TimesType
  <2>4. Provided(t)' = (tokens[t] + B * r >= N)
    BY <1>1 DEF Provided
  <2> HIDE DEF B, N
  <2>5. CASE B >= A + S
    <3>1. (A + S) * r <= B * r /\ (A + S) * r \in Nat /\ B * r \in Nat
      BY <1>2, <2>2, <2>5, TimesMore
    <3>2. tokens[t] + (A + S) * r >= N /\ tokens[t] \in Nat /\ N \in Nat
      BY <1>2, <2>1, <2>3
    <3> DEFINE X == (A + S) * r  Y == B * r
    <3> HIDE DEF X, Y
    <3>3. tokens[t] + Y >= N
      BY <3>1, <3>2 DEF X, Y
    <3> QED
      BY <2>1, <2>4, <3>3 DEF Y
  <2>6. CASE B >= Ticks
    <3>1. Ticks * r <= B * r /\ Ticks * r \in Nat /\ B * r \in Nat
      BY <1>2, <2>2, <2>6, TimesMore
    <3> DEFINE X == Ticks * r  Y == B * r
    <3> HIDE DEF X, Y
    <3>2. tokens[t] + Y >= N
      BY <1>2, <2>3, <3>1 DEF X, Y
    <3> QED
      BY <2>1, <2>4, <3>2 DEF Y
  <2> QED
    BY <2>2, <2>5, <2>6
<1> QED
  BY <1>1, <1>2, <1>3 DEF SleepInv, Rested

\* A round of acquire takes what it needs, or has not slept yet.
LEMMA TryRested ==
  ASSUME SleepInv, NEW t \in Tasks, Try(t)
  PROVE  Rested'
<1> SUFFICES ASSUME NEW u \in Tasks
             PROVE  /\ sleeps'[u] = 0 => sleep'[u] = 0
                    /\ need'[u] = 0 => sleeps'[u] = 0
                    /\ need'[u] <= rate'[u] /\ sleeps'[u] # 0 => sleeps'[u] = 1 /\ Provided(u)'
  BY DEF Rested
<1>0. Typed /\ ShareInv /\ Waits /\ Rested
  BY DEF SleepInv, ShareInv, RInv
<1>1. rate' = rate /\ age' = [age EXCEPT ![t] = 0] /\ need[t] > 0 /\ sleep[t] = 0
  BY DEF Try
<1>2. CASE u # t
  <2>1. /\ rate'[u] = rate[u] /\ age'[u] = age[u] /\ need'[u] = need[u] /\ tokens'[u] = tokens[u]
        /\ sleep'[u] = sleep[u] /\ sleeps'[u] = sleeps[u]
    BY <1>0, <1>1, <1>2 DEF Try, Take, GoToSleep, Typed, Waits
  <2> QED
    BY <1>0, <2>1 DEF Rested, Provided
<1>3. CASE u = t /\ Enough(t)
  <2>1. need'[t] = 0 /\ sleeps'[t] = 0 /\ sleep'[t] = 0
    BY <1>0, <1>1, <1>3 DEF Try, Take, Waits
  <2> QED
    BY <1>3, <2>1
<1>4. CASE u = t /\ ~Enough(t)
  <2>1. /\ need'[t] = need[t] /\ rate'[t] = rate[t] /\ age'[t] = 0
        /\ tokens'[t] = Refilled(t) /\ sleep'[t] = Wait(t)
        /\ sleeps'[t] = Least(2, sleeps[t] + 1)
    BY <1>0, <1>1, <1>4 DEF Try, GoToSleep, Typed, Waits
  <2>2. sleeps[t] \in 0..2 /\ need[t] \in Nat
    BY <1>0 DEF Waits, Typed
  <2>3. sleeps'[t] # 0 /\ (sleeps[t] = 0 => sleeps'[t] = 1)
    BY <2>1, <2>2 DEF Least
  <2>4. ASSUME need[t] <= rate[t] PROVE sleeps[t] = 0
    <3> DEFINE N == need[t] * Ticks  P == age[t] * rate[t]  F == Full(t)
    <3>1. N \in Nat /\ N <= F /\ F \in Nat /\ P \in Nat /\ tokens[t] \in Nat /\ rate[t] \in Nat
      BY <1>0, <2>2, <2>4, TimesMore, TimesType, BandwidthAssumption DEF Typed, Full
    <3>2. SUFFICES ASSUME sleeps[t] # 0 PROVE FALSE
      OBVIOUS
    <3>3. tokens[t] + P >= N
      <4>1. age[t] + sleep[t] = age[t]
        BY <1>0, <1>1 DEF Typed
      <4> QED
        BY <1>0, <2>4, <3>2, <4>1 DEF Rested, Provided
    <3>4. Refilled(t) < N /\ Refilled(t) = Least(F, tokens[t] + P)
      <4>1. Refilled(t) \in Nat
        BY <1>0, BucketType
      <4> QED
        BY <1>4, <3>1, <4>1 DEF Enough, Refilled
    <3> HIDE DEF N, P, F
    <3> QED
      BY <3>1, <3>3, <3>4 DEF Least
  <2>5. Provided(t)'
    <3>1. Refilled(t) + Wait(t) * rate[t] >= need[t] * Ticks /\ Wait(t) \in Nat
      BY <1>0, <1>1, <1>4, WaitEnough, WaitType
    <3>2. age'[t] + sleep'[t] = Wait(t)
      BY <2>1, <3>1
    <3> QED
      BY <2>1, <3>1, <3>2 DEF Provided
  <2> QED
    BY <1>1, <1>4, <2>1, <2>2, <2>3, <2>4, <2>5
<1> QED
  BY <1>2, <1>3, <1>4

\* Nobody else's step wakes or delays an acquire.
LEMMA NextRested == SleepInv /\ [Next]_vars => Rested'
<1> SUFFICES ASSUME SleepInv, [Next]_vars PROVE Rested'
  OBVIOUS
<1>0. Typed /\ Clean /\ Waits /\ Rested
  BY DEF SleepInv, ShareInv, RInv, RateInv
<1>1. ASSUME UNCHANGED <<bucket, call>> PROVE Rested'
  BY <1>0, <1>1 DEF bucket, call, Rested, Provided
<1>2. ASSUME NEW t \in Tasks, Admit(t) \/ Withdraw(t) PROVE Rested'
  BY <1>1, <1>2 DEF Admit, Withdraw
<1>3. ASSUME NEW t \in Tasks, Limit(t) PROVE Rested'
  <2>1. need[t] = 0 /\ need' = need /\ sleep' = sleep /\ sleeps' = sleeps /\ sleeps[t] = 0
    BY <1>0, <1>3 DEF Limit, call, Clean, Runs, Rested
  <2>2. \A u \in Tasks : u # t =>
          rate'[u] = rate[u] /\ tokens'[u] = tokens[u] /\ age'[u] = age[u]
    BY <1>0, <1>3 DEF Limit, Typed
  <2> QED
    BY <1>0, <2>1, <2>2 DEF Rested, Provided
<1>4. ASSUME NEW t \in Tasks, Leave(t) PROVE Rested'
  <2>1. need'[t] = 0 /\ sleep'[t] = 0 /\ sleeps'[t] = 0
    BY <1>0, <1>4 DEF Leave, Typed, Waits
  <2>2. \A u \in Tasks : u # t =>
          /\ rate'[u] = rate[u] /\ tokens'[u] = tokens[u] /\ age'[u] = age[u]
          /\ need'[u] = need[u] /\ sleep'[u] = sleep[u] /\ sleeps'[u] = sleeps[u]
    BY <1>0, <1>4 DEF Leave, Typed, Waits
  <2> QED
    BY <1>0, <2>1, <2>2 DEF Rested, Provided
<1>5. ASSUME NEW t \in Tasks, NEW n \in 1..MaxNeed, Ask(t, n) PROVE Rested'
  <2>1. /\ need' = [need EXCEPT ![t] = n] /\ need[t] = 0 /\ UNCHANGED <<rate, tokens, age, sleep, sleeps>>
        /\ sleeps[t] = 0
    BY <1>0, <1>5 DEF Ask, bucket, Rested
  <2>2. \A u \in Tasks : u # t => need'[u] = need[u]
    BY <1>0, <2>1 DEF Typed
  <2> QED
    BY <1>0, <2>1, <2>2 DEF Rested, Provided
<1>6. ASSUME NEW t \in Tasks, Try(t) PROVE Rested'
  BY <1>6, TryRested
<1>7. CASE Tick
  BY <1>7, TickRested
<1>8. CASE UNCHANGED vars
  BY <1>1, <1>8 DEF vars
<1> QED
  BY <1>2, <1>3, <1>4, <1>5, <1>6, <1>7, <1>8 DEF Next

\* The wait acquire computes is long enough for every rate, chunk and clock: an
\* acquire within the rate sleeps once at most.
THEOREM OneSleep == Spec => []SleepsOnce
<1>1. Init => SleepInv
  <2>1. 0 * Ticks = 0
    BY BandwidthAssumption
  <2>2. Init => Waits /\ Rested
    BY <2>1, BandwidthAssumption DEF Init, Waits, Full, Rested
  <2> QED
    BY <2>2, InitShares DEF SleepInv
<1>2. SleepInv /\ [Next]_vars => SleepInv'
  BY NextShares, WaitsNext, NextRested DEF SleepInv
<1>3. SleepInv => SleepsOnce
  <2> SUFFICES ASSUME SleepInv, NEW t \in Tasks, need[t] <= rate[t] PROVE sleeps[t] <= 1
    BY DEF SleepsOnce
  <2> QED
    BY DEF SleepInv, Rested
<1> QED
  BY <1>1, <1>2, <1>3, PTL DEF Spec

=============================================================================
