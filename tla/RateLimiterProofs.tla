-------------------------- MODULE RateLimiterProofs --------------------------
(***************************************************************************)
(* What RateLimiter promises, for any callers, burst, rate, wait and poll  *)
(* interval.  The bound of the model checker on time plays no part.        *)
(***************************************************************************)
EXTENDS RateLimiter, TLAPS

(***************************************************************************)
(* The arithmetic of the refill.  Products of two variables are out of     *)
(* reach of the solver inside larger goals; these facts are all that the   *)
(* proofs below use of them.                                               *)
(***************************************************************************)

\* A product of naturals is a natural.
LEMMA ProductNat ==
    ASSUME NEW a \in Nat, NEW b \in Nat
    PROVE  a * b \in Nat
  OBVIOUS

\* The refill of a span is the sum of the refills of its parts.
LEMMA RefillAdds ==
    ASSUME NEW a \in Int, NEW b \in Int, NEW r \in Int
    PROVE  (a + b) * r = a * r + b * r
  OBVIOUS

\* A longer span refills at least as much.
LEMMA RefillMonotone ==
    ASSUME NEW a \in Nat, NEW b \in Nat, NEW r \in Nat, a <= b
    PROVE  a * r <= b * r
  <1>1. b - a \in Nat
    OBVIOUS
  <1>2. (b - a) * r \in Nat
    BY <1>1, ProductNat
  <1>3. ((b - a) + a) * r = (b - a) * r + a * r
    BY <1>1, RefillAdds
  <1>4. a * r \in Nat /\ b * r \in Nat
    BY ProductNat
  <1> QED
    BY <1>1, <1>2, <1>3, <1>4

LEMMA CapacityNat == Capacity \in Nat
  BY RateLimiterAssumption, ProductNat DEF Capacity

\* The refilled bucket holds what it held and what the rate has added, cut off
\* at the capacity.
LEMMA RefilledFacts ==
    ASSUME TypeOK
    PROVE  /\ (now - lastRefill) * Rate \in Nat
           /\ Refilled \in 0..Capacity
           /\ Refilled <= tokens + (now - lastRefill) * Rate
           /\ Refilled = Capacity \/ Refilled = tokens + (now - lastRefill) * Rate
  <1>1. now - lastRefill \in Nat
    BY DEF TypeOK
  <1>2. (now - lastRefill) * Rate \in Nat
    BY <1>1, ProductNat, RateLimiterAssumption
  <1>3. tokens \in 0..Capacity
    BY DEF TypeOK
  <1> QED
    BY <1>2, <1>3, CapacityNat DEF Refilled, Least

-----------------------------------------------------------------------------
(* Type correctness                                                        *)

LEMMA InitTypeOK == Init => TypeOK
  BY CapacityNat, RateLimiterAssumption DEF Init, TypeOK

LEMMA NextTypeOK == TypeOK /\ [Next]_vars => TypeOK'
  <1> SUFFICES ASSUME TypeOK, [Next]_vars
               PROVE  TypeOK'
    OBVIOUS
  <1> USE RateLimiterAssumption, CapacityNat
  <1>1. Refilled \in 0..Capacity
    BY RefilledFacts
  <1>2. grants \in Seq(0..now) /\ now \in Nat
    BY DEF TypeOK
  <1>3. ASSUME Grant \/ Refuse, now' = now
        PROVE  tokens' \in 0..Capacity /\ lastRefill' \in 0..now' /\ grants' \in Seq(0..now')
    <2>1. CASE Grant
      <3>1. now \in 0..now
        BY <1>2
      <3> QED
        BY <1>1, <1>2, <1>3, <2>1, <3>1 DEF Grant, TypeOK
    <2>2. CASE Refuse
      BY <1>1, <1>2, <1>3, <2>2 DEF Refuse, TypeOK
    <2> QED
      BY <1>3, <2>1, <2>2
  <1>4. ASSUME NEW c \in Callers, Acquire(c)
        PROVE  TypeOK'
    <2>1. now' = now /\ (Grant \/ Refuse)
      BY <1>4 DEF Acquire
    <2>2. waiting' \subseteq Callers /\ deadline' \in [Callers -> Nat]
      BY <1>4 DEF Acquire, Sleep, TypeOK
    <2>3. wakeAt' \in [Callers -> Nat]
      BY <1>4 DEF Acquire, Sleep, TypeOK, Least
    <2> QED
      BY <2>1, <2>2, <2>3, <1>3, <1>2 DEF TypeOK
  <1>5. ASSUME NEW c \in Callers, Retry(c)
        PROVE  TypeOK'
    <2>1. now' = now /\ deadline' = deadline /\ (Grant \/ Refuse)
      BY <1>5 DEF Retry
    <2>2. waiting' \subseteq Callers
      BY <1>5 DEF Retry, Sleep, TypeOK
    <2>3. wakeAt' \in [Callers -> Nat]
      <3>1. CASE wakeAt' = wakeAt
        BY <3>1 DEF TypeOK
      <3>2. CASE now < deadline[c] /\ Sleep(c, deadline[c])
        <4>1. deadline[c] \in Nat /\ now \in Nat
          BY DEF TypeOK
        <4>2. now + Least(deadline[c] - now, Poll) \in Nat
          BY <3>2, <4>1 DEF Least
        <4> QED
          BY <3>2, <4>2 DEF Sleep, TypeOK
      <3> QED
        BY <1>5, <3>1, <3>2 DEF Retry
    <2> QED
      BY <2>1, <2>2, <2>3, <1>3, <1>2 DEF TypeOK
  <1>6. ASSUME NEW c \in Callers, TryAcquire(c)
        PROVE  TypeOK'
    BY <1>6, <1>3 DEF TryAcquire, TypeOK
  <1>7. CASE ReadAvailable
    BY <1>7, <1>1 DEF ReadAvailable, TypeOK
  <1>8. CASE Reset
    BY <1>8 DEF Reset, TypeOK
  <1>9. CASE Elapse
    <2>1. now' \in Nat /\ 0..now \subseteq 0..now'
      BY <1>9, <1>2 DEF Elapse
    <2>2. grants' \in Seq(0..now')
      BY <1>9, <1>2, <2>1 DEF Elapse
    <2> QED
      BY <1>9, <2>1, <2>2 DEF Elapse, TypeOK
  <1>10. CASE UNCHANGED vars
    BY <1>10 DEF vars, TypeOK
  <1> QED
    BY <1>4, <1>5, <1>6, <1>7, <1>8, <1>9, <1>10 DEF Next

\* Every variable keeps its type, and the bucket is never below zero or above
\* its capacity.
THEOREM TypeCorrect == Spec => []TypeOK
  BY InitTypeOK, NextTypeOK, PTL DEF Spec

-----------------------------------------------------------------------------
(* The wait                                                                *)

\* A sleeper is woken by its deadline, and the event loop is never more than
\* Lag late.
WakeOK == \A c \in waiting : wakeAt[c] <= deadline[c] /\ now <= wakeAt[c] + Lag

LEMMA SleepWakeOK ==
    ASSUME TypeOK, NEW c \in Callers, NEW until \in Nat, now < until,
           Sleep(c, until), deadline'[c] = until, now' = now
    PROVE  wakeAt'[c] <= deadline'[c] /\ now' <= wakeAt'[c] + Lag
  <1>1. now \in Nat
    BY DEF TypeOK
  <1>2. wakeAt'[c] = now + Least(until - now, Poll)
    BY DEF Sleep, TypeOK
  <1>3. Least(until - now, Poll) \in 0..(until - now)
    BY <1>1, RateLimiterAssumption DEF Least
  <1> QED
    BY <1>1, <1>2, <1>3, RateLimiterAssumption

LEMMA NextWakeOK == TypeOK /\ WakeOK /\ [Next]_vars => WakeOK'
  <1> SUFFICES ASSUME TypeOK, WakeOK, [Next]_vars
               PROVE  WakeOK'
    OBVIOUS
  <1> USE RateLimiterAssumption
  <1>1. ASSUME NEW c \in Callers, Acquire(c)
        PROVE  WakeOK'
    <2>1. now' = now /\ now \in Nat /\ deadline' = [deadline EXCEPT ![c] = now + MaxWait]
      BY <1>1 DEF Acquire, TypeOK
    <2>2. CASE waiting' = waiting /\ wakeAt' = wakeAt
      BY <1>1, <2>1, <2>2 DEF Acquire, WakeOK, TypeOK
    <2>3. CASE MaxWait > 0 /\ Sleep(c, now + MaxWait)
      <3>1. deadline'[c] = now + MaxWait /\ now + MaxWait \in Nat /\ now < now + MaxWait
        BY <2>1, <2>3 DEF TypeOK
      <3>2. wakeAt'[c] <= deadline'[c] /\ now' <= wakeAt'[c] + Lag
        BY <2>1, <2>3, <3>1, SleepWakeOK
      <3>3. \A d \in waiting' : d = c \/ (d \in waiting /\ d # c)
        BY <2>3 DEF Sleep
      <3>4. \A d \in waiting : d # c => wakeAt'[d] = wakeAt[d] /\ deadline'[d] = deadline[d]
        BY <2>1, <2>3 DEF Sleep, TypeOK
      <3> QED
        BY <2>1, <3>2, <3>3, <3>4 DEF WakeOK
    <2> QED
      BY <1>1, <2>2, <2>3 DEF Acquire
  <1>2. ASSUME NEW c \in Callers, Retry(c)
        PROVE  WakeOK'
    <2>1. now' = now /\ now \in Nat /\ deadline' = deadline
      BY <1>2 DEF Retry, TypeOK
    <2>2. CASE waiting' = waiting \ {c} /\ wakeAt' = wakeAt
      BY <2>1, <2>2 DEF WakeOK
    <2>3. CASE now < deadline[c] /\ Sleep(c, deadline[c])
      <3>1. deadline[c] \in Nat
        BY DEF TypeOK
      <3>2. wakeAt'[c] <= deadline'[c] /\ now' <= wakeAt'[c] + Lag
        BY <2>1, <2>3, <3>1, SleepWakeOK
      <3>3. \A d \in waiting' : d = c \/ (d \in waiting /\ d # c)
        BY <2>3 DEF Sleep
      <3>4. \A d \in waiting : d # c => wakeAt'[d] = wakeAt[d]
        BY <2>3 DEF Sleep, TypeOK
      <3> QED
        BY <2>1, <3>2, <3>3, <3>4 DEF WakeOK
    <2> QED
      BY <1>2, <2>2, <2>3 DEF Retry
  <1>3. CASE Elapse
    <2>1. \A c \in waiting : wakeAt[c] \in Nat /\ deadline[c] \in Nat
      BY DEF TypeOK
    <2>2. now \in Nat
      BY DEF TypeOK
    <2> QED
      BY <1>3, <2>1, <2>2 DEF Elapse, WakeOK
  <1>4. ASSUME UNCHANGED <<now, waiting, deadline, wakeAt>>
        PROVE  WakeOK'
    BY <1>4 DEF WakeOK
  <1>5. CASE (\E c \in Callers : TryAcquire(c)) \/ ReadAvailable \/ Reset \/ UNCHANGED vars
    BY <1>4, <1>5 DEF TryAcquire, ReadAvailable, Reset, vars
  <1> QED
    BY <1>1, <1>2, <1>3, <1>5 DEF Next

\* Nobody sleeps in acquire() longer than max_wait and one delay of the loop.
THEOREM WaitIsBounded == Spec => []WaitBounded
  <1>1. Init => WakeOK
    BY DEF Init, WakeOK
  <1>2. TypeOK /\ WakeOK => WaitBounded
    <2> SUFFICES ASSUME TypeOK, WakeOK, NEW c \in waiting
                 PROVE  now <= deadline[c] + Lag
      BY DEF WaitBounded
    <2>1. now \in Nat /\ wakeAt[c] \in Nat /\ deadline[c] \in Nat
      BY DEF TypeOK
    <2> QED
      BY <2>1, RateLimiterAssumption DEF WakeOK
  <1> QED
    BY <1>1, <1>2, InitTypeOK, NextTypeOK, NextWakeOK, PTL DEF Spec

-----------------------------------------------------------------------------
(* The rate                                                                *)

(***************************************************************************)
(* The bound on the grants from i to j is not inductive: a bucket that     *)
(* were too full could break it at the next grant.  The strengthening      *)
(* counts the tokens still in the bucket with those handed out since i.    *)
(***************************************************************************)
GrantsPast == \A i \in 1..Len(grants) : grants[i] \in 0..lastRefill

SpentAndLeft ==
    \A i \in 1..Len(grants) :
        (Len(grants) - i + 1) * One + tokens <= Capacity + (lastRefill - grants[i]) * Rate

RateInv == TypeOK /\ GrantsPast /\ SpentAndLeft /\ WindowBound

\* Once time is accounted for, the same holds of the refilled bucket.
LEMMA RefilledAccount ==
    ASSUME RateInv, NEW i \in 1..Len(grants)
    PROVE  /\ (Len(grants) - i + 1) * One \in Nat
           /\ (now - grants[i]) * Rate \in Nat
           /\ (Len(grants) - i + 1) * One + Refilled <= Capacity + (now - grants[i]) * Rate
  <1> USE RateLimiterAssumption
  <1>1. now \in Nat /\ lastRefill \in 0..now /\ tokens \in 0..Capacity /\ Len(grants) \in Nat
    BY DEF RateInv, TypeOK
  <1>2. grants[i] \in 0..lastRefill
    BY DEF RateInv, GrantsPast
  <1>3. Len(grants) - i + 1 \in Nat /\ now - grants[i] \in Nat
    BY <1>1, <1>2
  <1>4. (Len(grants) - i + 1) * One \in Nat /\ (now - grants[i]) * Rate \in Nat
    BY <1>3, ProductNat
  <1>5. lastRefill - grants[i] \in Nat /\ now - lastRefill \in Nat
    BY <1>1, <1>2
  <1>6. ((lastRefill - grants[i]) + (now - lastRefill)) * Rate
          = (lastRefill - grants[i]) * Rate + (now - lastRefill) * Rate
    BY <1>5, RefillAdds
  <1>7. (lastRefill - grants[i]) + (now - lastRefill) = now - grants[i]
    BY <1>1, <1>2
  <1>8. (lastRefill - grants[i]) * Rate \in Nat /\ (now - lastRefill) * Rate \in Nat
    BY <1>5, ProductNat
  <1>9. (Len(grants) - i + 1) * One + tokens <= Capacity + (lastRefill - grants[i]) * Rate
    BY DEF RateInv, SpentAndLeft
  <1>10. Refilled <= tokens + (now - lastRefill) * Rate /\ Refilled \in 0..Capacity
    BY RefilledFacts DEF RateInv
  <1> QED
    BY <1>1, <1>4, <1>6, <1>7, <1>8, <1>9, <1>10, CapacityNat

LEMMA GrantRateInv ==
    ASSUME RateInv, TypeOK', Grant, now' = now
    PROVE  RateInv'
  <1> USE RateLimiterAssumption, CapacityNat
  <1> DEFINE n == Len(grants)
  <1>1. n \in Nat /\ now \in Nat /\ lastRefill \in 0..now
    BY DEF RateInv, TypeOK
  <1>2. Len(grants') = n + 1 /\ grants'[n + 1] = now /\ \A i \in 1..n : grants'[i] = grants[i]
    BY <1>1 DEF Grant, RateInv, TypeOK
  <1>3. tokens' = Refilled - One /\ lastRefill' = now /\ Refilled >= One
    BY DEF Grant
  <1>4. Refilled \in 0..Capacity /\ tokens' \in Nat
    BY <1>3, RefilledFacts DEF RateInv
  <1>5. ASSUME NEW i \in 1..n
        PROVE  /\ (n + 1 - i + 1) * One = (n - i + 1) * One + One
               /\ (n - i + 1) * One + Refilled <= Capacity + (now - grants[i]) * Rate
               /\ (n - i + 1) * One \in Nat /\ (now - grants[i]) * Rate \in Nat
    <2>1. n - i + 1 \in Int /\ n + 1 - i + 1 = (n - i + 1) + 1
      BY <1>1
    <2>2. ((n - i + 1) + 1) * One = (n - i + 1) * One + 1 * One
      BY <2>1, RefillAdds
    <2> QED
      BY <2>1, <2>2, RefilledAccount
  <1>6. GrantsPast'
    BY <1>1, <1>2, <1>3 DEF RateInv, GrantsPast
  <1>7. SpentAndLeft'
    <2> SUFFICES ASSUME NEW i \in 1..(n + 1)
                 PROVE  (n + 1 - i + 1) * One + tokens'
                          <= Capacity + (now - grants'[i]) * Rate
      BY <1>2, <1>3 DEF SpentAndLeft, Capacity
    <2>1. CASE i \in 1..n
      BY <2>1, <1>2, <1>3, <1>4, <1>5
    <2>2. CASE i = n + 1
      <3>1. n + 1 - i + 1 = 1 /\ now - grants'[i] = 0
        BY <1>1, <1>2, <2>2
      <3>2. 1 * One = One /\ 0 * Rate = 0
        OBVIOUS
      <3> QED
        BY <3>1, <3>2, <1>3, <1>4
    <2> QED
      BY <1>1, <2>1, <2>2
  <1>8. WindowBound'
    <2> SUFFICES ASSUME NEW i \in 1..(n + 1), NEW j \in 1..(n + 1), i <= j
                 PROVE  (j - i + 1) * One <= Capacity + (grants'[j] - grants'[i]) * Rate
      BY <1>2 DEF WindowBound, Capacity
    <2>1. CASE j \in 1..n
      <3>1. i \in 1..n
        BY <1>1, <2>1
      <3> QED
        BY <1>2, <2>1, <3>1 DEF RateInv, WindowBound
    <2>2. CASE j = n + 1 /\ i \in 1..n
      BY <2>2, <1>2, <1>3, <1>4, <1>5
    <2>3. CASE j = n + 1 /\ i = n + 1
      <3>1. j - i + 1 = 1 /\ grants'[j] - grants'[i] = 0
        BY <1>1, <1>2, <2>3
      <3>2. 1 * One = One /\ 0 * Rate = 0
        OBVIOUS
      <3> QED
        BY <3>1, <3>2, <1>3, <1>4
    <2> QED
      BY <1>1, <2>1, <2>2, <2>3
  <1> QED
    BY <1>6, <1>7, <1>8 DEF RateInv

LEMMA RefillRateInv ==
    ASSUME RateInv, TypeOK', tokens' = Refilled, lastRefill' = now, grants' = grants,
           now' = now
    PROVE  RateInv'
  <1>1. now \in Nat /\ lastRefill \in 0..now
    BY DEF RateInv, TypeOK
  <1>2. GrantsPast'
    BY <1>1 DEF RateInv, GrantsPast
  <1>3. SpentAndLeft'
    BY RefilledAccount DEF SpentAndLeft, Capacity
  <1>4. WindowBound'
    BY DEF RateInv, WindowBound, Capacity
  <1> QED
    BY <1>2, <1>3, <1>4 DEF RateInv

LEMMA NextRateInv == RateInv /\ [Next]_vars => RateInv'
  <1> SUFFICES ASSUME RateInv, [Next]_vars
               PROVE  RateInv'
    OBVIOUS
  <1>1. TypeOK'
    BY NextTypeOK DEF RateInv
  <1>2. ASSUME Grant \/ Refuse, now' = now
        PROVE  RateInv'
    <2>1. CASE Grant
      BY <1>1, <1>2, <2>1, GrantRateInv
    <2>2. CASE Refuse
      BY <1>1, <1>2, <2>2, RefillRateInv DEF Refuse
    <2> QED
      BY <1>2, <2>1, <2>2
  <1>3. CASE \E c \in Callers : Acquire(c) \/ Retry(c) \/ TryAcquire(c)
    BY <1>2, <1>3 DEF Acquire, Retry, TryAcquire
  <1>4. CASE ReadAvailable
    BY <1>1, <1>4, RefillRateInv DEF ReadAvailable
  <1>5. CASE Reset
    <2>1. Len(grants') = 0
      BY <1>5 DEF Reset
    <2> QED
      BY <1>1, <2>1 DEF RateInv, GrantsPast, SpentAndLeft, WindowBound
  <1>6. CASE Elapse \/ UNCHANGED vars
    BY <1>1, <1>6 DEF Elapse, vars, RateInv, GrantsPast, SpentAndLeft, WindowBound, Capacity
  <1> QED
    BY <1>3, <1>4, <1>5, <1>6 DEF Next

\* Between any two grants no more tokens were handed out than the burst and what
\* the rate allows for the time between them.
THEOREM RateIsBounded == Spec => []WindowBound
  <1>1. Init => RateInv
    <2> SUFFICES ASSUME Init
                 PROVE  RateInv
      OBVIOUS
    <2>1. Len(grants) = 0
      BY DEF Init
    <2> QED
      BY <2>1, InitTypeOK DEF RateInv, GrantsPast, SpentAndLeft, WindowBound
  <1>2. RateInv => WindowBound
    BY DEF RateInv
  <1> QED
    BY <1>1, <1>2, NextRateInv, PTL DEF Spec

-----------------------------------------------------------------------------
(* No token is wasted on a waiter                                          *)

(***************************************************************************)
(* While c waits: since its call either a token was handed out, or the     *)
(* bucket holds all that the rate has produced since.                      *)
(***************************************************************************)
Since(c) == deadline[c] - MaxWait

GrantedSince(c) == \E i \in 1..Len(grants) : grants[i] >= Since(c)

SavedUpFor(c) ==
    /\ Since(c) \in 0..now
    /\ GrantedSince(c) \/ Refilled >= Least(Capacity, (now - Since(c)) * Rate)

NoTimeLost == \A c \in waiting : SavedUpFor(c)

\* What the step leaves in the bucket, once refilled, when no time passes.
LEMMA RefilledAfter ==
    ASSUME TypeOK, now' = now, lastRefill' = now, tokens' \in 0..Capacity
    PROVE  Refilled' = tokens'
  <1>1. now \in Nat
    BY DEF TypeOK
  <1>2. (now - now) * Rate = 0
    BY <1>1, RateLimiterAssumption
  <1> QED
    BY <1>2, CapacityNat DEF Refilled, Least, Capacity

\* A step of a caller that keeps the deadline of c keeps what is saved up for c.
LEMMA StillSavedUp ==
    ASSUME TypeOK, NEW c \in Callers, SavedUpFor(c), Grant \/ Refuse,
           now' = now, deadline'[c] = deadline[c]
    PROVE  SavedUpFor(c)'
  <1>1. now \in Nat /\ grants \in Seq(0..now) /\ Refilled \in 0..Capacity
    BY RefilledFacts DEF TypeOK
  <1>2. Since(c)' = Since(c) /\ Since(c) \in 0..now
    BY DEF Since, SavedUpFor
  <1>3. CASE Grant
    <2>1. Len(grants) + 1 \in 1..Len(grants') /\ grants'[Len(grants) + 1] = now
      BY <1>1, <1>3 DEF Grant
    <2>2. GrantedSince(c)'
      BY <1>1, <1>2, <2>1 DEF GrantedSince
    <2> QED
      BY <1>2, <2>2 DEF SavedUpFor
  <1>4. CASE Refuse
    <2>1. Refilled' = Refilled /\ grants' = grants
      BY <1>1, <1>4, RefilledAfter DEF Refuse
    <2> QED
      BY <1>2, <2>1 DEF SavedUpFor, GrantedSince, Capacity
  <1> QED
    BY <1>3, <1>4

LEMMA NextNoTimeLost == TypeOK /\ NoTimeLost /\ [Next]_vars => NoTimeLost'
  <1> SUFFICES ASSUME TypeOK, NoTimeLost, [Next]_vars
               PROVE  NoTimeLost'
    OBVIOUS
  <1> USE RateLimiterAssumption, CapacityNat
  <1>1. now \in Nat /\ waiting \subseteq Callers /\ Refilled \in 0..Capacity
    BY RefilledFacts DEF TypeOK
  <1>2. ASSUME NEW c \in Callers, Acquire(c)
        PROVE  NoTimeLost'
    <2>1. now' = now /\ deadline' = [deadline EXCEPT ![c] = now + MaxWait] /\ c \notin waiting
      BY <1>2 DEF Acquire
    <2>2. ASSUME NEW d \in waiting
          PROVE  SavedUpFor(d)'
      <3>1. deadline'[d] = deadline[d]
        BY <1>1, <2>1, <2>2 DEF TypeOK
      <3> QED
        BY <1>1, <1>2, <2>1, <2>2, <3>1, StillSavedUp DEF Acquire, NoTimeLost
    <2>3. CASE waiting' = waiting
      BY <2>2, <2>3 DEF NoTimeLost
    <2>4. CASE Refuse /\ Sleep(c, now + MaxWait)
      <3>1. Since(c)' = now
        BY <1>1, <2>1 DEF Since, TypeOK
      <3>2. (now - now) * Rate = 0
        BY <1>1
      <3>3. Refilled' = Refilled
        BY <1>1, <2>1, <2>4, RefilledAfter DEF Refuse
      <3>4. SavedUpFor(c)'
        BY <1>1, <2>1, <3>1, <3>2, <3>3 DEF SavedUpFor, Least
      <3> QED
        BY <2>2, <2>4, <3>4 DEF NoTimeLost, Sleep
    <2> QED
      BY <1>2, <2>3, <2>4 DEF Acquire
  <1>3. ASSUME NEW c \in Callers, Retry(c)
        PROVE  NoTimeLost'
    <2>1. ASSUME NEW d \in waiting
          PROVE  SavedUpFor(d)'
      BY <1>1, <1>3, <2>1, StillSavedUp DEF Retry, NoTimeLost
    <2>2. waiting' \subseteq waiting
      BY <1>3 DEF Retry, Sleep
    <2> QED
      BY <2>1, <2>2 DEF NoTimeLost
  <1>4. ASSUME NEW c \in Callers, TryAcquire(c)
        PROVE  NoTimeLost'
    BY <1>1, <1>4, StillSavedUp DEF TryAcquire, NoTimeLost
  <1>5. CASE ReadAvailable
    <2>1. Refilled' = Refilled
      BY <1>1, <1>5, RefilledAfter DEF ReadAvailable
    <2> QED
      BY <1>5, <2>1 DEF ReadAvailable, NoTimeLost, SavedUpFor, GrantedSince, Since, Capacity
  <1>6. CASE Reset
    <2>1. Refilled' = Capacity /\ Capacity' = Capacity
      BY <1>6, RefilledAfter DEF Reset, Capacity
    <2> SUFFICES ASSUME NEW d \in waiting
                 PROVE  SavedUpFor(d)'
      BY <1>6 DEF Reset, NoTimeLost
    <2>2. Since(d)' = Since(d) /\ Since(d) \in 0..now /\ now' = now
      BY <1>6 DEF Reset, NoTimeLost, SavedUpFor, Since
    <2>3. now - Since(d) \in Nat
      BY <1>1, <2>2
    <2>4. (now - Since(d)) * Rate \in Nat
      BY <2>3, ProductNat
    <2> QED
      BY <2>1, <2>2, <2>4 DEF SavedUpFor, Least
  <1>7. CASE Elapse
    <2> SUFFICES ASSUME NEW d \in waiting
                 PROVE  SavedUpFor(d)'
      BY <1>7 DEF Elapse, NoTimeLost
    <2>1. now' = now + 1 /\ lastRefill' = lastRefill /\ tokens' = tokens /\ grants' = grants
      BY <1>7 DEF Elapse
    <2>2. SavedUpFor(d) /\ Since(d)' = Since(d) /\ Since(d) \in 0..now /\ Since(d)' \in 0..now'
      BY <1>1, <1>7, <2>1 DEF Elapse, NoTimeLost, SavedUpFor, Since
    <2>3. CASE GrantedSince(d)
      BY <2>1, <2>2, <2>3 DEF SavedUpFor, GrantedSince
    <2>4. CASE Refilled >= Least(Capacity, (now - Since(d)) * Rate)
      <3> DEFINE saved == (now - Since(d)) * Rate
                 added == (now - lastRefill) * Rate
      <3>1. now - Since(d) \in Nat /\ now - lastRefill \in Nat
        BY <1>1, <2>2 DEF TypeOK
      <3>2. saved \in Nat /\ added \in Nat
        BY <3>1, ProductNat
      <3>3. ((now - Since(d)) + 1) * Rate = saved + 1 * Rate
        BY <3>1, RefillAdds
      <3>4. ((now - lastRefill) + 1) * Rate = added + 1 * Rate
        BY <3>1, RefillAdds
      <3>5. 1 * Rate = Rate
        OBVIOUS
      <3>6. (now - Since(d)) + 1 = now' - Since(d)' /\ (now - lastRefill) + 1 = now' - lastRefill'
        BY <1>1, <2>1, <2>2 DEF TypeOK
      <3>7. (now' - Since(d)') * Rate = saved + Rate
        BY <3>3, <3>5, <3>6
      <3>8. (now' - lastRefill') * Rate = added + Rate
        BY <3>4, <3>5, <3>6
      <3>9. tokens \in 0..Capacity
        BY DEF TypeOK
      <3>10. Least(Capacity, tokens + added) >= Least(Capacity, saved)
        BY <2>4 DEF Refilled
      <3>11. Least(Capacity, tokens + (added + Rate)) >= Least(Capacity, saved + Rate)
        <4> HIDE DEF saved, added
        <4> QED
          BY <3>2, <3>9, <3>10 DEF Least
      <3>12. Refilled' >= Least(Capacity, (now' - Since(d)') * Rate)
        BY <2>1, <3>7, <3>8, <3>11 DEF Refilled, Capacity
      <3> QED
        BY <2>2, <3>12 DEF SavedUpFor, Capacity
    <2> QED
      BY <2>2, <2>3, <2>4 DEF SavedUpFor
  <1>8. CASE UNCHANGED vars
    BY <1>8 DEF vars, NoTimeLost, SavedUpFor, GrantedSince, Since, Refilled, Capacity
  <1> QED
    BY <1>2, <1>3, <1>4, <1>5, <1>6, <1>7, <1>8 DEF Next

\* A caller that has waited long enough for a token and gives up has lost it to
\* another caller.
THEOREM NoTokenWasted == Spec => OnlyStarvedByOthers
  <1> DEFINE Starved(c) ==
               GaveUp(c) /\ Burst > 0 /\ MaxWait * Rate >= One
                 => \E i \in 1..Len(grants) : grants[i] >= deadline[c] - MaxWait
  <1>1. Init => NoTimeLost
    BY DEF Init, NoTimeLost
  <1>2. ASSUME TypeOK, NoTimeLost, [Next]_vars, NEW c \in Callers
        PROVE  Starved(c)
    <2> SUFFICES ASSUME GaveUp(c), Burst > 0, MaxWait * Rate >= One
                 PROVE  GrantedSince(c)
      BY DEF GrantedSince, Since
    <2>1. c \in waiting /\ c \notin waiting' /\ grants' = grants
      BY DEF GaveUp
    <2>2. Refuse /\ now >= deadline[c]
      <3>1. ~ UNCHANGED vars /\ ~ Elapse /\ ~ Reset /\ ~ ReadAvailable
        BY <2>1 DEF vars, Elapse, Reset, ReadAvailable
      <3>2. ~ Grant
        BY <2>1 DEF Grant, TypeOK
      <3>3. \A d \in Callers : ~ Acquire(d) /\ ~ TryAcquire(d)
        BY <2>1 DEF Acquire, TryAcquire, Sleep
      <3>4. \A d \in Callers : Retry(d) => d = c
        BY <2>1 DEF Retry, Sleep
      <3>5. Retry(c)
        BY <1>2, <3>1, <3>3, <3>4 DEF Next
      <3> QED
        BY <2>1, <3>2, <3>5 DEF Retry, Sleep
    <2>3. SavedUpFor(c)
      BY <1>2, <2>1 DEF NoTimeLost
    <2>4. CASE Refilled >= Least(Capacity, (now - Since(c)) * Rate)
      <3>1. now \in Nat /\ deadline[c] \in Nat
        BY <1>2 DEF TypeOK
      <3>2. MaxWait \in Nat /\ now - Since(c) \in Nat /\ MaxWait <= now - Since(c)
        BY <2>2, <2>3, <3>1, RateLimiterAssumption DEF SavedUpFor, Since
      <3>3. MaxWait * Rate <= (now - Since(c)) * Rate
        BY <3>2, RefillMonotone, RateLimiterAssumption
      <3>4. MaxWait * Rate \in Nat /\ (now - Since(c)) * Rate \in Nat
        BY <3>2, ProductNat, RateLimiterAssumption
      <3>5. Capacity >= One
        <4>1. 1 * One <= Burst * One
          BY RefillMonotone, RateLimiterAssumption
        <4> QED
          BY <4>1, CapacityNat, RateLimiterAssumption DEF Capacity
      <3>6. Refilled < One
        BY <2>2 DEF Refuse
      <3> QED
        BY <1>2, <2>4, <3>3, <3>4, <3>5, <3>6, RefilledFacts, CapacityNat, RateLimiterAssumption
           DEF Least
    <2> QED
      BY <2>3, <2>4 DEF SavedUpFor
  <1>3. TypeOK /\ NoTimeLost /\ [Next]_vars => [\A c \in Callers : Starved(c)]_vars
    BY <1>2
  <1> QED
    BY <1>1, <1>3, InitTypeOK, NextTypeOK, NextNoTimeLost, PTL DEF Spec, OnlyStarvedByOthers

-----------------------------------------------------------------------------
(* Refinement                                                              *)

LEMMA BucketInit == Init => Bucket!Init
  <1> SUFFICES ASSUME Init
               PROVE  now = 0 /\ Refilled = Capacity
    BY DEF Bucket!Init
  <1>1. (0 - 0) * Rate = 0
    BY RateLimiterAssumption
  <1> QED
    BY <1>1, CapacityNat DEF Init, Refilled, Least

LEMMA BucketNext == TypeOK /\ TypeOK' /\ [Next]_vars => [Bucket!Next]_<<now, Refilled>>
  <1> SUFFICES ASSUME TypeOK, TypeOK', [Next]_vars
               PROVE  Bucket!Next \/ (now' = now /\ Refilled' = Refilled)
    OBVIOUS
  <1> USE RateLimiterAssumption, CapacityNat
  <1>1. now \in Nat /\ Refilled \in 0..Capacity /\ tokens' \in 0..Capacity
    BY RefilledFacts DEF TypeOK, Capacity
  <1>2. ASSUME Grant, now' = now
        PROVE  Bucket!Take
    <2>1. Refilled' = Refilled - One
      BY <1>1, <1>2, RefilledAfter DEF Grant
    <2> QED
      BY <1>2, <2>1 DEF Grant, Bucket!Take
  <1>3. ASSUME Refuse \/ ReadAvailable, now' = now
        PROVE  Refilled' = Refilled
    BY <1>1, <1>3, RefilledAfter DEF Refuse, ReadAvailable
  <1>4. CASE \E c \in Callers : Acquire(c) \/ Retry(c) \/ TryAcquire(c)
    <2>1. now' = now /\ (Grant \/ Refuse)
      BY <1>4 DEF Acquire, Retry, TryAcquire
    <2> QED
      BY <1>2, <1>3, <2>1 DEF Bucket!Next
  <1>5. CASE ReadAvailable
    BY <1>3, <1>5 DEF ReadAvailable
  <1>6. CASE Reset
    <2>1. Refilled' = Capacity
      BY <1>1, <1>6, RefilledAfter DEF Reset
    <2> QED
      BY <1>6, <2>1 DEF Reset, Bucket!Fill, Bucket!Next
  <1>7. CASE Elapse
    <2> DEFINE added == (now - lastRefill) * Rate
    <2>1. now - lastRefill \in Nat /\ now' = now + 1
      BY <1>7 DEF Elapse, TypeOK
    <2>2. added \in Nat /\ tokens \in 0..Capacity
      BY <2>1, ProductNat DEF TypeOK
    <2>3. ((now - lastRefill) + 1) * Rate = added + 1 * Rate /\ 1 * Rate = Rate
      BY <2>1, RefillAdds
    <2>4. (now - lastRefill) + 1 = (now + 1) - lastRefill
      BY <1>1, <2>1 DEF TypeOK
    <2>5. Refilled' = Least(Capacity, tokens + (added + Rate))
      BY <1>7, <2>3, <2>4 DEF Elapse, Refilled, Capacity
    <2>6. Refilled = Least(Capacity, tokens + added)
      BY DEF Refilled
    <2>7. Refilled' = IF Refilled + Rate <= Capacity THEN Refilled + Rate ELSE Capacity
      <3> HIDE DEF added
      <3> QED
        BY <2>2, <2>5, <2>6 DEF Least
    <2> QED
      BY <2>1, <2>7 DEF Bucket!Elapse, Bucket!Next
  <1>8. CASE UNCHANGED vars
    BY <1>8 DEF vars, Refilled, Capacity
  <1> QED
    BY <1>4, <1>5, <1>6, <1>7, <1>8 DEF Next

\* Refilling the bucket only when it is looked at cannot be told from filling it
\* all the time.
THEOREM LazyBucketImplementsBucket == Spec => ImplementsBucket
  BY BucketInit, BucketNext, InitTypeOK, NextTypeOK, PTL DEF Spec, ImplementsBucket, Bucket!Spec
=============================================================================
