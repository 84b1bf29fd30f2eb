----------------------------- MODULE RateLimiter -----------------------------
(***************************************************************************)
(* The token bucket of guardrails/rate_limiter.py, shared by several       *)
(* coroutines of one event loop.                                           *)
(*                                                                         *)
(* time.monotonic() is the variable now.  The float token count is kept in *)
(* integer fractions of a token: one token is One fractions, and Rate      *)
(* fractions are added per unit of time, so every burst, rate and wait of  *)
(* the code is some choice of the constants.  A coroutine runs without     *)
(* interruption between two awaits; acquire awaits only in asyncio.sleep.  *)
(***************************************************************************)
EXTENDS Integers, Sequences

CONSTANTS
    Callers,        \* the coroutines that call acquire()
    Burst,          \* __init__: burst
    Rate,           \* __init__: rate, in fractions of a token per time unit
    One,            \* fractions in one token
    MaxWait,        \* __init__: max_wait_sec
    Poll,           \* the 0.05 s between two attempts
    Lag,            \* the latest the event loop resumes a coroutine after its wake-up time
    MaxTime         \* bound of the model checker on now

\* RateLimiter.__init__ raises ValueError unless the first line and Rate > 0 hold.
ASSUME RateLimiterAssumption ==
    /\ Burst \in Nat /\ MaxWait \in Nat
    /\ Rate \in Nat \ {0} /\ One \in Nat \ {0}
    /\ Poll \in Nat \ {0} /\ Lag \in Nat /\ MaxTime \in Nat

VARIABLES
    now,            \* time.monotonic()
    tokens,         \* _tokens
    lastRefill,     \* _last_refill
    waiting,        \* the callers asleep inside acquire()
    deadline,       \* deadline[c]: the local of acquire()
    wakeAt,         \* wakeAt[c]: when the sleep of c ends
    grants          \* history: when tokens were handed out since the last reset()

vars == <<now, tokens, lastRefill, waiting, deadline, wakeAt, grants>>

Least(a, b) == IF a <= b THEN a ELSE b

Capacity == Burst * One

-----------------------------------------------------------------------------
(* _refill(): the content of the bucket once time has been accounted for.  *)

MutRefilledNoCap == tokens + (now - lastRefill) * Rate

Refilled == Least(Capacity, tokens + (now - lastRefill) * Rate)

Init ==
    /\ now = 0
    /\ tokens = Capacity
    /\ lastRefill = 0
    /\ waiting = {}
    /\ deadline = [c \in Callers |-> 0]
    /\ wakeAt = [c \in Callers |-> 0]
    /\ grants = << >>

MutGrantKeepsRefillTime ==
    /\ Refilled >= One
    /\ tokens' = Refilled - One
    /\ lastRefill' = lastRefill
    /\ grants' = Append(grants, now)

MutGrantDropsRefill ==
    /\ Refilled >= One
    /\ tokens' = tokens - One
    /\ lastRefill' = now
    /\ grants' = Append(grants, now)

\* A token is taken out of the refilled bucket.
Grant ==
    /\ Refilled >= One
    /\ tokens' = Refilled - One
    /\ lastRefill' = now
    /\ grants' = Append(grants, now)

MutRefuseLosesTime ==
    /\ Refilled < One
    /\ tokens' = tokens
    /\ lastRefill' = now
    /\ UNCHANGED grants

\* No token to take: the refill is kept all the same.
Refuse ==
    /\ Refilled < One
    /\ tokens' = Refilled
    /\ lastRefill' = now
    /\ UNCHANGED grants

MutSleepFullPoll(c, until) ==
    /\ waiting' = waiting \cup {c}
    /\ wakeAt' = [wakeAt EXCEPT ![c] = now + Poll]

\* Sleep until the next poll, or until the deadline if it is nearer.
Sleep(c, until) ==
    /\ waiting' = waiting \cup {c}
    /\ wakeAt' = [wakeAt EXCEPT ![c] = now + Least(until - now, Poll)]

-----------------------------------------------------------------------------
(* acquire(): the first pass of the loop runs in the caller's own step.    *)

Acquire(c) ==
    /\ c \notin waiting
    /\ deadline' = [deadline EXCEPT ![c] = now + MaxWait]
    /\ \/ Grant /\ UNCHANGED <<waiting, wakeAt>>
       \/ Refuse /\ MaxWait = 0 /\ UNCHANGED <<waiting, wakeAt>>
       \/ Refuse /\ MaxWait > 0 /\ Sleep(c, now + MaxWait)
    /\ UNCHANGED now

\* A later pass, after asyncio.sleep has returned.
Retry(c) ==
    /\ c \in waiting
    /\ now >= wakeAt[c]
    /\ \/ Grant /\ waiting' = waiting \ {c} /\ UNCHANGED wakeAt
       \/ Refuse /\ now >= deadline[c] /\ waiting' = waiting \ {c} /\ UNCHANGED wakeAt
       \/ Refuse /\ now < deadline[c] /\ Sleep(c, deadline[c])
    /\ UNCHANGED <<now, deadline>>

TryAcquire(c) ==
    /\ c \notin waiting
    /\ Grant \/ Refuse
    /\ UNCHANGED <<now, waiting, deadline, wakeAt>>

\* The property available refills the bucket as a side effect.
ReadAvailable ==
    /\ tokens' = Refilled
    /\ lastRefill' = now
    /\ UNCHANGED <<now, waiting, deadline, wakeAt, grants>>

Reset ==
    /\ tokens' = Capacity
    /\ lastRefill' = now
    /\ grants' = << >>
    /\ UNCHANGED <<now, waiting, deadline, wakeAt>>

(***************************************************************************)
(* Time passes.  The event loop may resume a sleeper late, by at most Lag. *)
(***************************************************************************)
Elapse ==
    /\ now < MaxTime
    /\ \A c \in waiting : now < wakeAt[c] + Lag
    /\ now' = now + 1
    /\ UNCHANGED <<tokens, lastRefill, waiting, deadline, wakeAt, grants>>

Next ==
    \/ \E c \in Callers : Acquire(c) \/ Retry(c) \/ TryAcquire(c)
    \/ ReadAvailable
    \/ Reset
    \/ Elapse

Spec == Init /\ [][Next]_vars

-----------------------------------------------------------------------------
TypeOK ==
    /\ now \in Nat
    /\ tokens \in 0..Capacity
    /\ lastRefill \in 0..now
    /\ waiting \subseteq Callers
    /\ deadline \in [Callers -> Nat]
    /\ wakeAt \in [Callers -> Nat]
    /\ grants \in Seq(0..now)

(***************************************************************************)
(* The promise of a token bucket, whoever the callers are and however they *)
(* interleave: between any two grants i and j, no more tokens were handed  *)
(* out than the burst plus what the rate allows for the time between them. *)
(* (reset() gives the burst back, so the history starts again with it.)    *)
(***************************************************************************)
WindowBound ==
    \A i, j \in 1..Len(grants) :
        i <= j => (j - i + 1) * One <= Capacity + (grants[j] - grants[i]) * Rate

(***************************************************************************)
(* "the caller will wait up to that duration": nobody is still asleep      *)
(* inside acquire() later than max_wait after the call, but for one delay  *)
(* of the event loop.  The poll interval must not stretch the wait.        *)
(***************************************************************************)
WaitBounded == \A c \in waiting : now <= deadline[c] + Lag

(***************************************************************************)
(* No token is wasted on a waiter: when a caller gives up after a wait     *)
(* long enough for the rate to produce a token, some other caller was      *)
(* handed one during that wait.  Polling, the lazy refill and the refills  *)
(* made by other callers lose none of the time that has passed.            *)
(***************************************************************************)
GaveUp(c) == c \in waiting /\ c \notin waiting' /\ grants' = grants

OnlyStarvedByOthers ==
    [][\A c \in Callers :
          (GaveUp(c) /\ Burst > 0 /\ MaxWait * Rate >= One)
              => \E i \in 1..Len(grants) : grants[i] >= deadline[c] - MaxWait]_vars

(***************************************************************************)
(* The lazy bucket, refilled only when somebody looks, behaves as the      *)
(* bucket that is filled continuously.                                     *)
(***************************************************************************)
Bucket == INSTANCE TokenBucket WITH credit <- Refilled

ImplementsBucket == Bucket!Spec
=============================================================================
