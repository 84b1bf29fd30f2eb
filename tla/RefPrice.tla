------------------------------ MODULE RefPrice ------------------------------
(***************************************************************************)
(* LiveRefPriceEngine of price/ref_price_engine.py: the reference price    *)
(* from the top of the book without the bot's own orders, and the spike    *)
(* protection over a window of past mids.  Every method is called without  *)
(* an await; each is an operator on its state.  Prices are in half ticks.  *)
(***************************************************************************)
EXTENDS Integers, SequencesExt

CONSTANTS
    SpikePct,       \* spike_threshold_bps, in percent
    SpikeWindow,    \* spike_window_sec
    SpikeQuiet      \* spike_cooldown_sec

ASSUME RefPriceAssumption ==
    SpikePct \in Nat /\ SpikeWindow \in Nat /\ SpikeQuiet \in Nat \ {0}

\* ref is _ref, active and left the flag and the time until _spike_until, past
\* the window of mids with their age, oldest first.
NoRefPrice == [ref |-> 0, active |-> FALSE, left |-> 0, past |-> << >>]

MutMidWithExcluded(bid, ask) == (bid + ask) \div 2

\* An own order at the best price is excluded, and the other side is then all
\* there is; 0 when both are.
MidWithoutOwn(bid, ask) ==
    IF bid > 0 /\ ask > 0 THEN (bid + ask) \div 2 ELSE IF ask > 0 THEN ask ELSE bid

Distance(a, b) == IF a > b THEN a - b ELSE b - a

Jumped(from, to) == Distance(from, to) * 100 >= SpikePct * from

MutOnlyFalls(past, mid) ==
    Len(past) > 1 /\ mid < past[1].mid /\ Jumped(past[1].mid, mid)

\* The mid is compared with the oldest one in the window.
SpikeIn(past, mid) == Len(past) > 1 /\ Jumped(past[1].mid, mid)

\* update(): without a price nothing changes; a flag that is up, expired or not,
\* is left as it is.
RefUpdated(rp, bid, ask) ==
    LET mid == MidWithoutOwn(bid, ask)
        past == Append(rp.past, [mid |-> mid, age |-> 0])
        hit == SpikeIn(past, mid) /\ ~rp.active
    IN  IF mid = 0 THEN rp
        ELSE [ref |-> mid, past |-> past, active |-> rp.active \/ hit,
              left |-> IF hit THEN SpikeQuiet ELSE rp.left]

\* spike_protection_active: reading it clears a flag that has expired.
FlagRead(rp) == [rp EXCEPT !.active = @ /\ rp.left > 0]

\* Mids older than the window leave at its old end, up to the first that is not.
InWindow(past) ==
    LET young == {i \in DOMAIN past : past[i].age <= SpikeWindow}
    IN  IF young = {} THEN << >> ELSE SubSeq(past, Min(young), Len(past))

Older(past) == [i \in DOMAIN past |-> [past[i] EXCEPT !.age = @ + 1]]

\* Time passes.  The next update drops the mids that are too old; nothing reads
\* them before.
RefAged(rp) ==
    [rp EXCEPT !.left = IF @ > 0 THEN @ - 1 ELSE 0, !.past = InWindow(Older(@))]
=============================================================================
