----------------------------- MODULE RiskManager -----------------------------
(***************************************************************************)
(* LiveRiskManager of risk/risk_manager.py, as operators on its state      *)
(*                                                                         *)
(*   [halted, position, orderCount, flashCrash, peak, capBreached, capLeft]*)
(*                                                                         *)
(* (the three flags of the last evaluation, _peak_mid, and the time until  *)
(* _cap_cooldown_until).  Orders are records with side, size and filled,   *)
(* which is what filled_size holds.                                        *)
(***************************************************************************)
EXTENDS Integers, FiniteSets, Functions

CONSTANTS
    MaxPosition,        \* max_position_notional
    MaxOpenOrders,      \* max_open_orders
    FlashPct,           \* flash_crash_threshold_pct
    HitCapCooldown      \* hit_cap_cooldown_ms

ASSUME RiskAssumption ==
    /\ MaxPosition \in Nat /\ MaxOpenOrders \in Nat
    /\ FlashPct \in Nat /\ HitCapCooldown \in Nat

NoRisk ==
    [halted |-> FALSE, position |-> FALSE, orderCount |-> FALSE, flashCrash |-> FALSE,
     peak |-> 0, capBreached |-> FALSE, capLeft |-> 0]

\* What an order that is filled in part has left, as the code counts it.
Remaining(order) == IF order.size > order.filled THEN order.size - order.filled ELSE 0

\* What the open buys would still add to the position.
PendingBuys(orders) ==
    LET left == [oid \in DOMAIN orders |->
                   IF orders[oid].side = "buy" THEN Remaining(orders[oid]) ELSE 0]
    IN  SumFunction(left)

MutPositionWithoutOrders(orders, base, mid) ==
    mid > 0 /\ base * mid > MaxPosition

\* _check_position()
PositionBreached(orders, base, mid) ==
    mid > 0 /\ (base + PendingBuys(orders)) * mid > MaxPosition

MutOrderCountExceeded(orders) == Cardinality(DOMAIN orders) > MaxOpenOrders

\* _check_order_count()
OrderCountBreached(orders) == Cardinality(DOMAIN orders) >= MaxOpenOrders

\* _check_flash_crash(): the peak only ever rises.
Peak(risk, mid) == IF mid > risk.peak THEN mid ELSE risk.peak

FlashCrash(peak, mid) == mid > 0 /\ (peak - mid) * 100 >= FlashPct * peak

\* evaluate(): halt on any breach; once all are clear resume, and if the
\* position was over its cap start the cap cooldown.
Evaluate(risk, orders, base, mid) ==
    LET position == PositionBreached(orders, base, mid)
        count    == OrderCountBreached(orders)
        peak     == Peak(risk, mid)
        crash    == FlashCrash(peak, mid)
        breached == position \/ count \/ crash
        capped   == risk.capBreached \/ position
        resumes  == risk.halted /\ ~breached
    IN  [halted      |-> breached,
         position    |-> position,
         orderCount  |-> count,
         flashCrash  |-> crash,
         peak        |-> peak,
         capBreached |-> capped /\ ~resumes,
         capLeft     |-> IF resumes /\ capped THEN HitCapCooldown ELSE risk.capLeft]

\* can_trade and should_resume()
CanTrade(risk) == ~risk.halted /\ risk.capLeft = 0
=============================================================================
