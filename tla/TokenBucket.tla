----------------------------- MODULE TokenBucket -----------------------------
(***************************************************************************)
(* What a token bucket promises, with no polling, no lazy accounting and   *)
(* no callers: credit grows with time, never beyond the capacity, a token  *)
(* costs One, and an empty bucket hands out nothing.  RateLimiter is shown *)
(* to implement it.                                                        *)
(***************************************************************************)
EXTENDS Integers

CONSTANTS Capacity, Rate, One

VARIABLES now, credit

TypeOK == now \in Nat /\ credit \in 0..Capacity

Init == now = 0 /\ credit = Capacity

Take ==
    /\ credit >= One
    /\ credit' = credit - One
    /\ UNCHANGED now

Fill ==
    /\ credit' = Capacity
    /\ UNCHANGED now

Elapse ==
    /\ now' = now + 1
    /\ credit' = IF credit + Rate <= Capacity THEN credit + Rate ELSE Capacity

Next == Take \/ Fill \/ Elapse

Spec == Init /\ [][Next]_<<now, credit>>
=============================================================================
