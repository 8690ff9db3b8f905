---------------------------- MODULE RateLimiter ----------------------------
(***************************************************************************)
(* The token bucket of rate_limiter.go, which Clickhouse.SendQuery asks    *)
(* once per call: the worker, the replay loop, /debug/replay-failed and    *)
(* synchronous inserts share it.  What is counted here is calls let        *)
(* through.  A call whose server is down goes on to the next server        *)
(* without another token, so that POSTs are bounded by the calls only up   *)
(* to the number of servers (NoServerTwice in Clickhouse).                 *)
(*                                                                         *)
(* Wait gives r.mu up only to sleep, so what it does between two sleeps is *)
(* one step.  Time is relative: a tick ages the last refill, the sleeps    *)
(* and the recorded calls, and nothing but the age matters.  Tokens are    *)
(* counted in ticks of refill, Interval of them to a token, exactly.  A    *)
(* goroutine may run as late as it likes.  A limiter with rps <= 0 is nil  *)
(* and lets everyone pass; it is not modelled.                             *)
(***************************************************************************)
EXTENDS Integers, Sequences

CONSTANTS
  Callers,   \* the goroutines that call Wait
  Rps, Burst, \* send_max_rps and send_max_burst
  Second,    \* ticks in a second
  MinSleep,  \* ticks in a millisecond
  History    \* how many of the last calls are recorded

\* The larger and the smaller of two numbers.
Larger(m, n) == IF m > n THEN m ELSE n
Smaller(m, n) == IF m < n THEN m ELSE n

ASSUME RateLimiterAssumption ==
  /\ Second \in Nat \ {0} /\ Rps \in 1 .. Second
  /\ Burst \in Int /\ MinSleep \in Nat \ {0} /\ History \in Nat \ {0}

\* newSendRateLimiter.
Interval == Second \div Rps
Bucket == IF Burst <= 0 THEN Rps ELSE Burst
Full == Bucket * Interval

\* No two calls older than this tell a longer window from a shorter one.
Horizon == History * Interval

VARIABLES
  tokens,   \* r.tokens, in ticks
  since,    \* ticks since r.last
  at,       \* where each goroutine is
  left,     \* what is left of its sleep
  passed     \* history: the ages of the last returns of Wait, the latest first

vars == <<tokens, since, at, left, passed>>

Init ==
  /\ tokens = Full /\ since = 0
  /\ at = [c \in Callers |-> "idle"] /\ left = [c \in Callers |-> 0]
  /\ passed = <<>>

Call(c) ==
  /\ at[c] = "idle"
  /\ at' = [at EXCEPT ![c] = "waiting"]
  /\ UNCHANGED <<tokens, since, left, passed>>

\* Mutant: an idle limiter saves up more than its burst.
RefilledUncapped == tokens + since

Refilled == Smaller(Full, tokens + since)

Slept(c) == at[c] = "waiting" \/ (at[c] = "asleep" /\ left[c] = 0)

\* Mutant: a sleeper does not look again, its token may be another's by now.
TakeTokenSlept(c) ==
  /\ Slept(c) /\ (Refilled >= Interval \/ at[c] = "asleep")
  /\ tokens' = Refilled - Interval /\ since' = 0
  /\ at' = [at EXCEPT ![c] = "idle"]
  /\ passed' = SubSeq(<<0>> \o passed, 1, Smaller(History, Len(passed) + 1))
  /\ UNCHANGED left

\* c holds r.mu and finds a token.
TakeToken(c) ==
  /\ Slept(c) /\ Refilled >= Interval
  /\ tokens' = Refilled - Interval /\ since' = 0
  /\ at' = [at EXCEPT ![c] = "idle"]
  /\ passed' = SubSeq(<<0>> \o passed, 1, Smaller(History, Len(passed) + 1))
  /\ UNCHANGED left

\* Mutant: the refill found too small is not kept.
SleepForgets(c) ==
  /\ Slept(c) /\ Refilled < Interval
  /\ since' = 0
  /\ at' = [at EXCEPT ![c] = "asleep"]
  /\ left' = [left EXCEPT ![c] = Larger(MinSleep, Interval - Refilled)]
  /\ UNCHANGED <<tokens, passed>>

\* c finds less, and gives r.mu up to sleep until the rest should be there.
Sleep(c) ==
  /\ Slept(c) /\ Refilled < Interval
  /\ tokens' = Refilled /\ since' = 0
  /\ at' = [at EXCEPT ![c] = "asleep"]
  /\ left' = [left EXCEPT ![c] = Larger(MinSleep, Interval - Refilled)]
  /\ UNCHANGED passed

Tick ==
  /\ since' = Smaller(Full, since + 1)
  /\ left' = [c \in Callers |-> Larger(0, left[c] - 1)]
  /\ passed' = [i \in DOMAIN passed |-> Smaller(Horizon, passed[i] + 1)]
  /\ UNCHANGED <<tokens, at>>

Next == Tick \/ \E c \in Callers : Call(c) \/ TakeToken(c) \/ Sleep(c)

Spec == Init /\ [][Next]_vars

\* Time passes, and a goroutine whose sleep is over runs.
Fairness == WF_vars(Tick) /\ \A c \in Callers : WF_vars(TakeToken(c) \/ Sleep(c))

LiveSpec == Spec /\ Fairness
-----------------------------------------------------------------------------
\* No token is spent before it is there, whoever overtakes whom.
TypeOK ==
  /\ tokens \in 0 .. Full /\ since \in 0 .. Full
  /\ at \in [Callers -> {"idle", "waiting", "asleep"}]
  /\ left \in [Callers -> 0 .. Larger(MinSleep, Interval)]
  /\ passed \in Seq(0 .. Horizon) /\ Len(passed) <= History

\* What the bucket promises with send_max_rps and send_max_burst: any n calls of
\* SendQuery let through in a row are spread over the time it takes to refill
\* all of their tokens but a bucket of them.
WithinBucket ==
  \A i, j \in DOMAIN passed :
    i < j /\ passed[j] < Horizon =>
      (j - i + 1 - Bucket) * Interval <= passed[j] - passed[i]

Waiting(c) == at[c] # "idle"

\* A sleeper may be overtaken for as long as others come; when they stop, it
\* gets its token.
EveryoneGetsThrough ==
  \A c \in Callers :
    (<>[][\A d \in Callers \ {c} : ~Call(d)]_vars) => (Waiting(c) ~> ~Waiting(c))
=============================================================================
