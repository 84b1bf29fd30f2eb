----------------------------- MODULE DepthKeeper -----------------------------
(***************************************************************************)
(* DepthKeeper of strategy/depth.py: quotes in tiers on both sides of the  *)
(* price, and none while it is dormant after a storm of flashes.  Each     *)
(* method is an operator on its state; times are ages or time left.        *)
(***************************************************************************)
EXTENDS Integers, Sequences, SequencesExt

CONSTANTS
    TierSpreads,    \* tier_spread_ticks
    FlashWindow,    \* anti_spoof_window_sec
    FlashLimit,     \* anti_spoof_flash_threshold
    DormantTime     \* dormant_cooldown_sec

ASSUME DepthKeeperAssumption ==
    /\ TierSpreads \subseteq Nat
    /\ FlashWindow \in Nat /\ FlashLimit \in Nat \ {0} /\ DormantTime \in Nat \ {0}

\* left is the time until _dormant_until, flashes the ages in _flash_log.
NewDepthKeeper ==
    [ref |-> 0, spike |-> FALSE, dormant |-> FALSE, left |-> 0, flashes |-> << >>]

\* _compute_quotes(), without the sizes.
Tiers(ref) ==
    {[side |-> "buy", price |-> ref - s] : s \in {t \in TierSpreads : t < ref}}
        \cup {[side |-> "sell", price |-> ref + s] : s \in TierSpreads}

\* desired_orders(): a dormancy is only found to be over here, and not in a spike.
QuotesOf(d) ==
    IF d.ref <= 0 \/ d.spike \/ (d.dormant /\ d.left > 0) THEN [state |-> d, orders |-> {}]
    ELSE [state |-> [d EXCEPT !.dormant = FALSE], orders |-> Tiers(d.ref)]

MutDormantWithoutEnd(d) == [d EXCEPT !.dormant = TRUE]

\* _enter_dormant(): one that is dormant already stays so for as long as it would.
EnterDormant(d) ==
    IF d.dormant THEN d ELSE [d EXCEPT !.dormant = TRUE, !.left = DormantTime]

\* report_flash(): the log is pruned when a flash is reported.
FlashReported(d) ==
    LET log == SelectSeq(Append(d.flashes, 0), LAMBDA age : age <= FlashWindow)
        logged == [d EXCEPT !.flashes = log]
    IN  IF Len(log) >= FlashLimit THEN EnterDormant(logged) ELSE logged

\* on_state_change() to EMERGENCY or SHUTDOWN: no end is set.
MadeDormant(d) == [d EXCEPT !.dormant = TRUE]

\* reset()
DepthKeeperReset(d) == [d EXCEPT !.dormant = FALSE, !.left = 0, !.flashes = << >>]

DepthAged(d) ==
    [d EXCEPT !.left = IF @ > 0 THEN @ - 1 ELSE 0,
              !.flashes = [i \in DOMAIN @ |-> IF @[i] > FlashWindow THEN @[i] ELSE @[i] + 1]]
=============================================================================
