------------------------------ MODULE Bandwidth ------------------------------
(***************************************************************************)
(* The bandwidth policy and the token bucket it gives each transfer        *)
(* (crates/download-manager/src/bandwidth.rs), with run_download, which    *)
(* asks for a limiter once, when the transfer begins.  Time is counted in  *)
(* ticks, Ticks of them a second; tokens in bytes times Ticks, so that the *)
(* code's fractions are integers here.  Only one task acquires from a      *)
(* bucket.                                                                 *)
(***************************************************************************)
EXTENDS Naturals, FiniteSets

CONSTANTS
  Tasks,    \* the transfers
  Cap,      \* max_bytes_per_sec, 0 without a cap
  Ticks,    \* ticks in a second
  MaxNeed   \* the longest chunk a transfer acquires for

ASSUME BandwidthAssumption ==
  /\ IsFiniteSet(Tasks)
  /\ Cap \in Nat /\ Ticks \in Nat \ {0} /\ MaxNeed \in Nat \ {0}

VARIABLES
  stage,   \* "off", "active" (counted by count_active), "running" (counted too)
           \* or "stopping" (removed: still running and not counted)
  rate,    \* TokenBucket.rate, 0 for no limiter
  tokens,  \* TokenBucket.tokens
  age,     \* ticks since TokenBucket.last; a second is as good as an hour
  need,    \* bytes being acquired, 0 when not acquiring
  sleep,   \* ticks the acquire still sleeps
  sleeps,  \* how often this acquire slept (bound: counted up to 2)
  ahead    \* bytes granted ahead of the rate, for the properties

bucket == <<rate, tokens, age>>
call == <<need, sleep, sleeps>>
vars == <<stage, bucket, call, ahead>>

Least(m, n) == IF m < n THEN m ELSE n

Stages == {"off", "active", "running", "stopping"}
Active == {t \in Tasks : stage[t] \in {"active", "running"}}
Runs(t) == stage[t] \in {"running", "stopping"}

\* Mutant: a download does not count itself.
BudgetOfOthers(active) == Cap \div (IF active <= 1 THEN 1 ELSE active - 1)
\* per_download_budget, and limiter_for: a budget of 0 is no limiter.
Budget(active) == Cap \div (IF active = 0 THEN 1 ELSE active)

Full(t) == rate[t] * Ticks

Init ==
  /\ stage = [t \in Tasks |-> "off"]
  /\ rate = [t \in Tasks |-> 0]
  /\ tokens = rate /\ age = rate /\ need = rate /\ sleep = rate
  /\ sleeps = rate /\ ahead = rate

\* begin_download: the download is Starting, and counted from now on.
Admit(t) ==
  /\ stage[t] = "off"
  /\ stage' = [stage EXCEPT ![t] = "active"]
  /\ UNCHANGED <<bucket, call, ahead>>

\* run_download: limiter_for(count_active()), a bucket that starts full.
Limit(t) ==
  LET r == Budget(Cardinality(Active))
  IN  /\ stage[t] = "active"
      /\ stage' = [stage EXCEPT ![t] = "running"]
      /\ rate' = [rate EXCEPT ![t] = r]
      /\ tokens' = [tokens EXCEPT ![t] = r * Ticks]
      /\ age' = [age EXCEPT ![t] = 0]
      /\ UNCHANGED <<call, ahead>>

\* remove() gives the slot back; the transfer goes on until it hears its signal.
Withdraw(t) ==
  /\ stage[t] = "running"
  /\ stage' = [stage EXCEPT ![t] = "stopping"]
  /\ UNCHANGED <<bucket, call, ahead>>

\* The transfer ends or is dropped, or finds on its first poll that it has lost
\* its slot; its bucket goes with it.
Leave(t) ==
  /\ stage[t] # "off"
  /\ stage' = [stage EXCEPT ![t] = "off"]
  /\ rate' = [rate EXCEPT ![t] = 0] /\ tokens' = [tokens EXCEPT ![t] = 0]
  /\ age' = [age EXCEPT ![t] = 0] /\ need' = [need EXCEPT ![t] = 0]
  /\ sleep' = [sleep EXCEPT ![t] = 0] /\ sleeps' = [sleeps EXCEPT ![t] = 0]
  /\ ahead' = [ahead EXCEPT ![t] = 0]

\* acquire(n) is called; without a limiter nothing is acquired.
Ask(t, n) ==
  /\ Runs(t) /\ rate[t] > 0 /\ need[t] = 0
  /\ need' = [need EXCEPT ![t] = n]
  /\ UNCHANGED <<stage, bucket, sleep, sleeps, ahead>>

\* Mutant: the balance is not capped.
RefilledNoCap(t) == tokens[t] + age[t] * rate[t]
\* The balance after a refill, at most a second's worth.
Refilled(t) == Least(Full(t), tokens[t] + age[t] * rate[t])

\* Mutant: the wait is rounded down.
WaitFloor(t) == (need[t] * Ticks - Refilled(t)) \div rate[t]
\* sleep(deficit / rate): at least as long as the missing tokens take.
Wait(t) == (need[t] * Ticks - Refilled(t) + rate[t] - 1) \div rate[t]

\* One round of acquire's loop.
Take(t) ==
  /\ tokens' = [tokens EXCEPT ![t] = Refilled(t) - need[t] * Ticks]
  /\ need' = [need EXCEPT ![t] = 0]
  /\ sleeps' = [sleeps EXCEPT ![t] = 0]
  /\ ahead' = [ahead EXCEPT ![t] = @ + need[t] * Ticks]
  /\ UNCHANGED sleep
GoToSleep(t) ==
  /\ sleep' = [sleep EXCEPT ![t] = Wait(t)]
  /\ sleeps' = [sleeps EXCEPT ![t] = Least(2, @ + 1)]
  /\ UNCHANGED <<need, ahead>>

Enough(t) == Refilled(t) >= need[t] * Ticks

\* Mutant: a round that goes to sleep forgets the tokens it has refilled.
TryForgetful(t) ==
  /\ need[t] > 0 /\ sleep[t] = 0
  /\ age' = [age EXCEPT ![t] = 0]
  /\ IF Enough(t) THEN Take(t) ELSE GoToSleep(t) /\ UNCHANGED tokens
  /\ UNCHANGED <<stage, rate>>
Try(t) ==
  /\ need[t] > 0 /\ sleep[t] = 0
  /\ age' = [age EXCEPT ![t] = 0]
  /\ IF Enough(t) THEN Take(t)
     ELSE GoToSleep(t) /\ tokens' = [tokens EXCEPT ![t] = Refilled(t)]
  /\ UNCHANGED <<stage, rate>>

\* A tick passes for everybody; a sleeper wakes then or later.
Tick ==
  /\ age' = [t \in Tasks |-> IF rate[t] > 0 THEN Least(Ticks, age[t] + 1) ELSE 0]
  /\ sleep' = [t \in Tasks |-> IF sleep[t] > 0 THEN sleep[t] - 1 ELSE 0]
  /\ ahead' = [t \in Tasks |-> IF ahead[t] > rate[t] THEN ahead[t] - rate[t] ELSE 0]
  /\ UNCHANGED <<stage, rate, tokens, need, sleeps>>

Next ==
  \/ \E t \in Tasks : \/ Admit(t) \/ Limit(t) \/ Withdraw(t) \/ Leave(t) \/ Try(t)
                      \/ \E n \in 1..MaxNeed : Ask(t, n)
  \/ Tick

Spec == Init /\ [][Next]_vars

\* Time passes and a task that is ready is polled.
FairSpec == Spec /\ WF_vars(Tick) /\ \A t \in Tasks : WF_vars(Try(t))

(***************************************************************************)
(* Properties.                                                             *)
(***************************************************************************)

\* Type invariant: a bucket holds at most a second's worth of tokens.
TypeOK ==
  /\ stage \in [Tasks -> Stages]
  /\ rate \in [Tasks -> 0..Cap]
  /\ tokens \in [Tasks -> Nat]
  /\ \A t \in Tasks : tokens[t] <= Full(t)
  /\ age \in [Tasks -> 0..Ticks]
  /\ need \in [Tasks -> 0..MaxNeed]
  /\ sleep \in [Tasks -> Nat]
  /\ sleeps \in [Tasks -> 0..2]
  /\ ahead \in [Tasks -> Nat]

\* In any stretch of time a transfer is granted at most its rate times that
\* time and a second's worth more, however it pauses, asks and oversleeps.
WithinRate == \A t \in Tasks : ahead[t] <= Full(t)

\* Why: what was granted ahead of the rate is missing from the bucket, and a
\* transfer that does not run has asked for nothing.
Balanced == \A t \in Tasks : ahead[t] + Refilled(t) <= Full(t)
Clean ==
  \A t \in Tasks : ~Runs(t) =>
    rate[t] = 0 /\ tokens[t] = 0 /\ age[t] = 0 /\ need[t] = 0 /\ ahead[t] = 0
RateInv == Balanced /\ Clean

\* The wait is long enough: an acquire within the rate sleeps at most once.
SleepsOnce == \A t \in Tasks : need[t] <= rate[t] => sleeps[t] <= 1

\* An acquire within the rate waits until there is enough and then returns.
\* (One beyond the rate never does: the balance is capped at the rate.)
AcquireReturns ==
  \A t \in Tasks : (need[t] > 0 /\ need[t] <= rate[t]) ~> (need[t] = 0)

\* A share is never taken back from a transfer that runs already, so the shares
\* of two of them overshoot the cap, by half of it at most: the later one has
\* counted the earlier.  (One that was removed and still runs does not count.)
SharesOverlap ==
  \A t, u \in Tasks : t # u /\ stage[t] = "running" /\ stage[u] = "running" =>
    rate[t] + rate[u] <= Cap + Cap \div 2

\* A cap of at least a byte a second for each download is never mistaken for no
\* cap: a share is 0, which means no limiter, only below that.
SharesLimit ==
  0 < Cap /\ Cardinality(Tasks) <= Cap => \A t \in Tasks : Runs(t) => rate[t] > 0

\* The shares that coexist fit the cap, as far as shares computed once can.
SharesFit == SharesOverlap /\ SharesLimit
=============================================================================
