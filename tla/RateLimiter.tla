------------------------------ MODULE RateLimiter ------------------------------
(***************************************************************************)
(* The token bucket before every SovGuard scan (src/sovguard.ts,           *)
(* RateLimiter), shared by all calls in flight.  A caller that finds no    *)
(* token sleeps until one should be there and then takes it unchecked, so  *)
(* callers that sleep at the same time drive the bucket below zero.        *)
(*                                                                         *)
(* A token is counted in the milliseconds it takes to refill: the bucket   *)
(* gains 1 per millisecond and a scan costs Cost (100 in the code, for 10  *)
(* scans a second).                                                        *)
(***************************************************************************)
EXTENDS Integers, FiniteSets

CONSTANTS
  Caller,   \* the calls that may be scanning at the same time
  Cost,     \* milliseconds per token: 1 / refillRate
  Burst,    \* maxTokens
  MaxTime   \* the length of the behaviours considered

ASSUME LimiterAssumption ==
  /\ IsFiniteSet(Caller) /\ Caller # {}
  /\ Cost \in Nat \ {0} /\ Burst \in Nat \ {0} /\ MaxTime \in Nat

VARIABLES
  now,         \* Date.now(), since the limiter was made
  lastRefill,
  credit,      \* tokens, in milliseconds
  waiting,     \* the callers whose timer is set
  due,         \* when it fires at the earliest
  since,       \* where the window of time begins that granted counts in
  granted      \* scans let through since then

limiterVars == <<now, lastRefill, credit, waiting, due, since, granted>>

LimiterInit ==
  /\ now = 0 /\ lastRefill = 0
  /\ credit = Cost * Burst
  /\ waiting = {} /\ due = [c \in Caller |-> 0]
  /\ since \in 0..MaxTime /\ granted = 0

\* Mutant: an idle bucket fills beyond the burst.
Unbounded(bound, n) == n

AtMost(bound, n) == IF n > bound THEN bound ELSE n

\* refill: what the bucket holds at time t.
CreditAt(t) == AtMost(Cost * Burst, credit + (t - lastRefill))

Refill == CreditAt(now)

\* A scan is let through.
Grant == granted' = IF now >= since THEN granted + 1 ELSE granted

\* A token is there: the caller takes it at once.
AcquireNow(c) ==
  /\ c \notin waiting /\ Refill >= Cost
  /\ credit' = Refill - Cost /\ lastRefill' = now
  /\ Grant
  /\ UNCHANGED <<now, waiting, due, since>>

\* Mutant: the wait is computed for one token, whatever is owed.
WaitForOne == Cost

\* How long until a token is there.
WaitMs == Cost - Refill

AcquireLater(c) ==
  /\ c \notin waiting /\ Refill < Cost
  /\ credit' = Refill /\ lastRefill' = now
  /\ waiting' = waiting \cup {c}
  /\ due' = [due EXCEPT ![c] = now + WaitMs]
  /\ UNCHANGED <<now, since, granted>>

\* The timer fires, on time or late: the token is taken unchecked.
Wake(c) ==
  /\ c \in waiting /\ now >= due[c]
  /\ credit' = Refill - Cost /\ lastRefill' = now
  /\ waiting' = waiting \ {c}
  /\ Grant
  /\ UNCHANGED <<now, due, since>>

Tick ==
  /\ now < MaxTime /\ now' = now + 1
  /\ UNCHANGED <<lastRefill, credit, waiting, due, since, granted>>

LimiterNext == Tick \/ \E c \in Caller : AcquireNow(c) \/ AcquireLater(c) \/ Wake(c)

LimiterSpec == LimiterInit /\ [][LimiterNext]_limiterVars

-----------------------------------------------------------------------------
LimiterTypeOK ==
  /\ now \in 0..MaxTime /\ lastRefill \in 0..now
  /\ credit \in Int /\ credit <= Cost * Burst
  /\ waiting \subseteq Caller /\ due \in [Caller -> Nat]
  /\ since \in 0..MaxTime /\ granted \in Nat

Others == Cardinality(Caller) - 1

\* However the sleeps of concurrent callers overlap and however late their
\* timers fire, the bucket owes at most one token for every other caller ...
DebtBounded == credit >= -(Cost * Others)

\* ... and in every window of time the scans let through exceed the advertised
\* rate and burst by no more than that (acquire decrements after its sleep
\* without looking).
RateBounded ==
  now >= since => Cost * granted <= (now - since) + Cost * (Burst + Others)

\* What the window's scans took was in the bucket when the window began, came
\* in since, or is owed.
Paid ==
  IF lastRefill < since
  THEN granted = 0
  ELSE credit + Cost * granted <= Cost * Burst + (lastRefill - since)

\* Why the debt is bounded: at every time to come, the bucket refilled until
\* then can pay all but Others of the sleepers due by then.
DueBy(t) == {c \in waiting : due[c] <= t}

LimiterInv ==
  /\ LimiterTypeOK
  /\ DebtBounded
  /\ Paid
  /\ \A t \in Nat : t >= now =>
       CreditAt(t) >= Cost * (Cardinality(DueBy(t)) - Others)
================================================================================
