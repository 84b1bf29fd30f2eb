----------------------------- MODULE Accumulator -----------------------------
(***************************************************************************)
(* Accumulator of strategy/accum.py: a ladder of buys below a ratchet that *)
(* only falls, suspended when the price collapses.  Each method is an      *)
(* operator on its state.  Prices are in half ticks, and _align() rounds a *)
(* price between two ticks either way (its quotient is a float).           *)
(***************************************************************************)
EXTENDS Integers, FiniteSets, FiniteSetsExt

CONSTANTS
    LadderRungs,    \* ladder_rungs
    RungSpacing,    \* rung_spacing_ticks, in half ticks
    StartOffset,    \* start_offset_ticks, in half ticks
    CollapsePct,    \* collapse_threshold_pct
    RecoveryPct     \* collapse_recovery_pct

ASSUME AccumulatorAssumption ==
    /\ LadderRungs \in Nat \ {0}
    /\ RungSpacing \in Nat /\ StartOffset \in Nat
    /\ CollapsePct \in 0..100 /\ RecoveryPct \in Nat

\* ref and spike are the last update_market(), trigger _suspend_trigger, and
\* recovered _just_recovered.
NewAccumulator ==
    [ref |-> 0, spike |-> FALSE, ratchet |-> 0, suspended |-> FALSE, trigger |-> 0,
     recovered |-> FALSE]

Aligned(price, up) == IF price % 2 = 0 THEN price ELSE IF up THEN price + 1 ELSE price - 1

\* _compute_ladder(): rungs at or below zero are left out.
Ladder(ratchet, up) ==
    {p \in {Aligned(ratchet - i * RungSpacing, up) : i \in 0..(LadderRungs - 1)} : p > 0}

\* The price is further below the lowest rung than the threshold.
Collapsed(ref, rungs) == rungs # {} /\ ref * 100 < Min(rungs) * (100 - CollapsePct)

HasRecovered(a) == a.ref * 100 >= a.trigger * (100 + RecoveryPct)

MutDesired(a, up) ==
    IF a.ref <= 0 \/ (a.suspended /\ ~HasRecovered(a)) THEN [state |-> a, orders |-> {}]
    ELSE LET woken == [a EXCEPT !.suspended = FALSE,
                                !.recovered = @ \/ a.suspended]
             set == [woken EXCEPT !.ratchet = IF @ <= 0 THEN a.ref - StartOffset ELSE @]
             rungs == Ladder(set.ratchet, up)
         IN  IF a.spike THEN [state |-> woken, orders |-> {}]
             ELSE IF ~woken.recovered /\ Collapsed(a.ref, rungs)
             THEN [state |-> [set EXCEPT !.suspended = TRUE, !.trigger = a.ref],
                   orders |-> {}]
             ELSE [state |-> set, orders |-> rungs]

MutReanchored(a, up) ==
    LET rungs == Ladder(a.ref - StartOffset, up)
    IN  [state |-> IF a.suspended \/ a.ref <= 0 THEN a
                   ELSE [a EXCEPT !.ratchet = a.ref - StartOffset],
         orders |-> IF a.suspended \/ a.ref <= 0 THEN {} ELSE rungs]

\* desired_orders(): a suspended strategy looks for its recovery, a spike stops it
\* there; the call that found it recovered is not checked for a collapse.
Desired(a, up) ==
    IF a.ref <= 0 \/ (a.suspended /\ ~HasRecovered(a)) THEN [state |-> a, orders |-> {}]
    ELSE LET woken == [a EXCEPT !.suspended = FALSE,
                                !.recovered = @ \/ a.suspended]
             set == [woken EXCEPT !.ratchet = IF @ <= 0 THEN a.ref - StartOffset ELSE @,
                                  !.recovered = FALSE]
             rungs == Ladder(set.ratchet, up)
         IN  IF a.spike THEN [state |-> woken, orders |-> {}]
             ELSE IF ~woken.recovered /\ Collapsed(a.ref, rungs)
             THEN [state |-> [set EXCEPT !.suspended = TRUE, !.trigger = a.ref],
                   orders |-> {}]
             ELSE [state |-> set, orders |-> rungs]

\* on_fill(): the ratchet follows a fill down.
RatchetDown(a, price) ==
    IF a.ratchet <= 0 \/ price < a.ratchet THEN [a EXCEPT !.ratchet = price] ELSE a

\* on_state_change() to EMERGENCY or SHUTDOWN: the trigger stays what it was.
Halted(a) == [a EXCEPT !.suspended = TRUE]

\* reset(): _just_recovered and the last price are left.
AccumulatorReset(a) == [a EXCEPT !.ratchet = 0, !.suspended = FALSE, !.trigger = 0]
=============================================================================
