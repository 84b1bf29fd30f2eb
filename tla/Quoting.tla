------------------------------- MODULE Quoting -------------------------------
(***************************************************************************)
(* The strategies as their callers drive them: Bot._tick() with the        *)
(* reference price engine, ReplayEngine._process_snapshot(), or any caller *)
(* of the protocol in strategy/contract.py (in the source: the tests).     *)
(* Which driver it is, and which strategy, never changes.                  *)
(***************************************************************************)
EXTENDS RefPrice, Accumulator, DepthKeeper

CONSTANTS
    Quotes,         \* best bid and ask that the market may show
    MaxPast,        \* bound on the mids in the spike window
    MaxFlashes      \* bound on the flashes in the log

ASSUME QuotingAssumption ==
    /\ Quotes \subseteq (Nat \ {0}) \X (Nat \ {0})
    /\ MaxPast \in Nat /\ MaxFlashes \in Nat

VARIABLES
    driver,         \* who calls: "bot", "replay" or "caller"
    kind,           \* the strategy: "accum" or "depth"
    quote,          \* the top of the book the last update was made of
    rp,             \* the reference price engine
    accum,          \* the accumulator
    keeper,         \* the depth keeper
    orders,         \* what the last desired_orders() returned
    reprieve,       \* history: a recovery whose next ladder is not checked is "due", or
                    \* was "used" for the last orders; "none"
    quiet           \* history: time left since a storm of flashes put it to sleep

quotingVars == <<driver, kind, quote, rp, accum, keeper, orders, reprieve, quiet>>

QuotingInit ==
    /\ driver \in {"bot", "replay", "caller"}
    /\ kind \in {"accum", "depth"}
    /\ quote = <<0, 0>>
    /\ rp = NoRefPrice
    /\ accum = NewAccumulator
    /\ keeper = NewDepthKeeper
    /\ orders = {}
    /\ reprieve = "none"
    /\ quiet = 0

\* active
Active == IF kind = "accum" THEN ~accum.suspended ELSE ~keeper.dormant

Reprieved(woken, asked) ==
    IF woken \/ reprieve = "due" THEN IF asked = {} THEN "due" ELSE "used" ELSE "none"

\* update_market() and then, if asked, desired_orders() of the strategy.
Asked(price, spike, ask) ==
    LET a == [accum EXCEPT !.ref = price, !.spike = spike]
        d == [keeper EXCEPT !.ref = price, !.spike = spike]
    IN  IF kind = "accum"
        THEN \E up \in BOOLEAN :
                LET r == IF ask THEN Desired(a, up) ELSE [state |-> a, orders |-> {}]
                IN  /\ accum' = r.state
                    /\ orders' = r.orders
                    /\ reprieve' = Reprieved(a.suspended /\ ~r.state.suspended, r.orders)
                    /\ UNCHANGED keeper
        ELSE LET r == IF ask THEN QuotesOf(d) ELSE [state |-> d, orders |-> {}]
             IN  /\ keeper' = r.state
                 /\ orders' = r.orders
                 /\ UNCHANGED <<accum, reprieve>>

Silent == orders' = {} /\ reprieve' = Reprieved(FALSE, {}) /\ UNCHANGED <<accum, keeper>>

\* The reference price of a tick: an order of the bot's own may be the best on
\* either side, or on both.
PriceTick ==
    /\ driver = "bot"
    /\ Len(rp.past) < MaxPast
    /\ quote' \in Quotes
    /\ \E own \in SUBSET {1, 2} :
          LET top == [i \in {1, 2} |-> IF i \in own THEN 0 ELSE quote'[i]]
          IN  rp' = FlagRead(RefUpdated(rp, top[1], top[2]))
    /\ UNCHANGED <<driver, kind, quiet>>

\* A tick that goes on to place orders: the strategies that are active are told
\* the price and asked, the others neither.
TickOn ==
    /\ PriceTick
    /\ ~rp'.active
    /\ IF Active THEN Asked(rp'.ref, FALSE, TRUE) ELSE Silent

\* A tick that a cooldown ends, which a spike always is, asks none; one that is
\* halted by risk tells none the price either.
TickOff ==
    /\ PriceTick
    /\ \/ Active /\ Asked(rp'.ref, rp'.active, FALSE)
       \/ Silent

Tick == TickOn \/ TickOff

\* A snapshot of the replay: the mid, and always the desired orders.
Snapshot ==
    /\ driver = "replay"
    /\ quote' \in Quotes
    /\ Asked((quote'[1] + quote'[2]) \div 2, FALSE, TRUE)
    /\ UNCHANGED <<driver, kind, rp, quiet>>

\* A caller of the protocol: the price and the spike, and the orders or not.
CallMarket ==
    /\ driver = "caller"
    /\ quote' \in Quotes
    /\ \E spike, ask \in BOOLEAN : Asked((quote'[1] + quote'[2]) \div 2, spike, ask)
    /\ UNCHANGED <<driver, kind, rp, quiet>>

\* on_fill() of an order that was asked for.
CallFill ==
    /\ driver = "caller" /\ kind = "accum"
    /\ \E price \in orders : accum' = RatchetDown(accum, price)
    /\ orders' = {} /\ reprieve' = Reprieved(FALSE, {})
    /\ UNCHANGED <<driver, kind, quote, rp, keeper, quiet>>

\* on_state_change() to EMERGENCY or SHUTDOWN.
CallHalt ==
    /\ driver = "caller"
    /\ accum' = IF kind = "accum" THEN Halted(accum) ELSE accum
    /\ keeper' = IF kind = "depth" THEN MadeDormant(keeper) ELSE keeper
    /\ orders' = {} /\ reprieve' = Reprieved(FALSE, {})
    /\ UNCHANGED <<driver, kind, quote, rp, quiet>>

CallFlash ==
    /\ driver = "caller" /\ kind = "depth"
    /\ Len(keeper.flashes) < MaxFlashes
    /\ keeper' = FlashReported(keeper)
    /\ quiet' = IF keeper'.dormant /\ ~keeper.dormant THEN DormantTime ELSE quiet
    /\ orders' = {}
    /\ UNCHANGED <<driver, kind, quote, rp, accum, reprieve>>

\* reset() of the strategy.
CallReset ==
    /\ driver = "caller"
    /\ accum' = IF kind = "accum" THEN AccumulatorReset(accum) ELSE accum
    /\ keeper' = IF kind = "depth" THEN DepthKeeperReset(keeper) ELSE keeper
    /\ orders' = {} /\ reprieve' = Reprieved(FALSE, {}) /\ quiet' = 0
    /\ UNCHANGED <<driver, kind, quote, rp>>

TimePasses ==
    /\ rp' = RefAged(rp)
    /\ keeper' = DepthAged(keeper)
    /\ quiet' = IF quiet > 0 THEN quiet - 1 ELSE 0
    /\ UNCHANGED <<driver, kind, quote, accum, orders, reprieve>>

QuotingNext ==
    \/ Tick \/ Snapshot \/ TimePasses
    \/ CallMarket \/ CallFill \/ CallHalt \/ CallFlash \/ CallReset

QuotingSpec == QuotingInit /\ [][QuotingNext]_quotingVars

-----------------------------------------------------------------------------
(***************************************************************************)
(* A jump from the oldest mid in the window is flagged in the tick that    *)
(* sees it, unless the flag was still up at the last look: an expired flag *)
(* that nobody has read hides a new spike for that one tick and no longer. *)
(***************************************************************************)
JumpIsFlagged ==
    [][Len(rp'.past) > Len(rp.past) /\ rp.past # << >> /\ Jumped(rp'.past[1].mid, rp'.ref)
          => rp'.active \/ rp.active]_quotingVars

(***************************************************************************)
(* The reference price is a price of the market: it is within the best bid *)
(* and ask, own orders there or not, whenever it has been moved.           *)
(***************************************************************************)
RefInsideMarket ==
    [][rp'.ref # rp.ref => quote'[1] <= rp'.ref /\ rp'.ref <= quote'[2]]_quotingVars

(***************************************************************************)
(* "The ladder's top rung only moves down - never up": through fills,      *)
(* suspensions, halts and recoveries the ratchet, once set, never rises,   *)
(* and only reset() has it set anew.                                       *)
(***************************************************************************)
RatchetNeverRises ==
    [][accum.ratchet > 0 => /\ accum'.ratchet <= accum.ratchet
                            /\ accum'.ratchet > 0 \/ CallReset]_quotingVars

(***************************************************************************)
(* Collapse protection: a ladder is never asked for whose lowest rung is   *)
(* further above the price than the threshold, except for the first ladder *)
(* after a recovery.  That is the ladder of the call that found the        *)
(* strategy recovered; or, if a spike kept that call from computing one,   *)
(* the next that is computed, however long after it and whatever came      *)
(* between, a halt or a reset() included: it goes unchecked, at a price    *)
(* that has nothing to do with the recovery.                               *)
(***************************************************************************)
LadderWithinCollapse ==
    kind = "accum" /\ orders # {} /\ reprieve # "used" => ~Collapsed(accum.ref, orders)

(***************************************************************************)
(* The same comment on the way back: recovery takes a price above the      *)
(* suspend trigger plus hysteresis.  So the bot's next tick at such a      *)
(* price that places orders wakes the strategy.  (The bot asks only        *)
(* strategies that are active, and it is the asking that looks for it.)    *)
(***************************************************************************)
RecoversWithPrice ==
    [][TickOn /\ kind = "accum" /\ accum.suspended
          /\ rp'.ref * 100 >= accum.trigger * (100 + RecoveryPct)
          => ~accum'.suspended]_quotingVars

(***************************************************************************)
(* A depth keeper that a storm of flashes has put to sleep quotes nothing  *)
(* for its cooldown, whatever else it is told meanwhile.                   *)
(***************************************************************************)
QuietAfterFlashStorm == quiet > 0 => keeper.dormant /\ orders = {}
=============================================================================
