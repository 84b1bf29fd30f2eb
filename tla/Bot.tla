--------------------------------- MODULE Bot ---------------------------------
(***************************************************************************)
(* The live bot: Bot of bot.py in the process that scripts/run.py starts,  *)
(* with its state machine, risk manager and order engine, over the venue   *)
(* and the bot_state row of the database.                                  *)
(*                                                                         *)
(* One asyncio task runs preflight, the tick loop and the shutdown; pc is  *)
(* where it stands.  It gives way only where it awaits, so the venue's     *)
(* fills, late answers, a stop signal or a crash fall between any two      *)
(* steps; a REST call made through the engine takes the engine's own steps *)
(* (call).  The market is the mid price a tick reads and whether the       *)
(* reference price engine sees a spike in it; the strategies are the       *)
(* requests they desire, at most Rungs a tick.                             *)
(***************************************************************************)
EXTENDS OrderEngine, StateMachine, RiskManager, Sequences

CONSTANTS
    Mids,           \* mid prices the market may show
    Rungs,          \* the most orders the strategies desire in one tick
    SpikeCooldown   \* spike_cooldown of the reference price engine

ASSUME BotAssumption ==
    /\ Mids \subseteq Nat \ {0}
    /\ Rungs \in Nat \ {0}
    /\ SpikeCooldown \in Nat \ {0}

VARIABLES
    pc,             \* where the main task stands
    sm,             \* the state machine
    risk,           \* the risk manager
    spike,          \* _spike_active and the time until _spike_until
    cached,         \* the base currency in _balances
    mid,            \* the local mid of the tick under way
    queue,          \* requests of this tick still to be placed
    stopping,       \* "signal": the stop event is set; "call": _running is False
    heeds,          \* whether the wait before the next tick looks at the stop event
    db,             \* the state in the bot_state row
    recovered,      \* the risky state _load_recovery_state() found
    unseen,         \* history: units bought on untracked orders since balances were read
    parting         \* history of the shutdown: the first id not yet in the book, all answered

botVars ==
    <<pc, sm, risk, spike, cached, mid, queue, stopping, heeds, db, recovered, parting>>
vars == <<tradingVars, botVars, unseen>>

NoSpike == [active |-> FALSE, left |-> 0]
NotParting == [mark |-> 0, answered |-> TRUE]

\* Between two ticks, inside one, and in the finally of run().
Trading == {"loop", "refresh", "evaluate", "placing"}
ShuttingDown == {"shutReconcile", "shutCancel"}
Ended == {"stopped", "failed"}
Locations == {"down", "preflight", "preflightReconcile", "fatal"}
                 \cup Trading \cup ShuttingDown \cup Ended

Init ==
    /\ EngineInit
    /\ pc = "down"
    /\ sm = InitialState
    /\ risk = NoRisk
    /\ spike = NoSpike
    /\ cached = 0
    /\ mid = 0
    /\ queue = << >>
    /\ stopping = "no"
    /\ heeds = FALSE
    /\ db = "INIT"
    /\ recovered = "none"
    /\ unseen = 0
    /\ parting = NotParting

-----------------------------------------------------------------------------
(* Start: Bot.__init__, then _preflight of scripts/run.py, then run()      *)

\* EMERGENCY or a cooldown in the row is logged; nothing else depends on it.
Boot ==
    /\ pc = "down"
    /\ recovered' = IF db \in {"EMERGENCY"} \cup CooldownStates THEN db ELSE "none"
    /\ pc' = "preflight"
    /\ UNCHANGED <<tradingVars, sm, risk, spike, cached, mid, queue, stopping, heeds,
                   db, unseen, parting>>

\* A failed fetch leaves the list of balances empty.
PreflightBalances ==
    /\ pc = "preflight"
    /\ \/ cached' = held /\ unseen' = 0
       \/ cached' = 0 /\ unseen' = held
    /\ Reconcile
    /\ pc' = "preflightReconcile"
    /\ UNCHANGED <<sm, risk, spike, mid, queue, stopping, heeds, db, recovered,
                   parting>>

\* Orphans are only logged.  run() then goes INIT -> IDLE -> RUNNING.
StartRunning ==
    /\ pc = "preflightReconcile"
    /\ ResultRead
    /\ sm' = Transition(Transition(sm, "IDLE"), "RUNNING")
    /\ pc' = "loop"
    /\ UNCHANGED <<risk, spike, cached, mid, queue, stopping, heeds, db, recovered, unseen,
                   parting>>

-----------------------------------------------------------------------------
(* _tick()                                                                 *)

MutSaveFailureIgnored(state, next) ==
    \/ db' = state /\ pc' = next
    \/ UNCHANGED db /\ pc' = next

\* _save_state(): the row is written, or SQLite raises and run() handles it.
SaveAndGo(state, next) ==
    \/ db' = state /\ pc' = next
    \/ UNCHANGED db /\ pc' = "fatal"

\* spike_protection_active: the flag is cleared only when it is read.
Read(seen) == IF seen.left = 0 THEN NoSpike ELSE seen

MutSpikeRearms(hit) ==
    Read(IF hit THEN [active |-> TRUE, left |-> SpikeCooldown] ELSE spike)

\* RefPriceEngine.update() with a price that is, or is not, a spike, and a look
\* at the flag: one that has expired unread still hides a new spike.
SpikeAfterUpdate(hit) ==
    Read(IF hit /\ ~spike.active
         THEN [active |-> TRUE, left |-> SpikeCooldown] ELSE spike)

\* The strategies that are active are told of a spike, which reads the flag.
StrategiesUpdated == spike' \in {spike, Read(spike)}

\* A tick that took longer than tick_interval leaves wait = 0.0, and
\* asyncio.wait_for then times out without a look at the stop event; _running
\* is looked at in any case.
WaitMayBeZero == heeds' \in {FALSE, pc' = "loop"}

MustStop == stopping = "call" \/ (stopping = "signal" /\ heeds)

\* In EMERGENCY, or without a market price, the tick returns at once and the
\* wait after it is a full one (if the last one was, nothing changes).
IdleTick ==
    /\ pc = "loop"
    /\ ~heeds
    /\ ~MustStop
    /\ heeds' = TRUE
    /\ UNCHANGED <<tradingVars, pc, sm, risk, spike, cached, mid, queue, stopping, db,
                   recovered, unseen, parting>>

TickStart ==
    /\ pc = "loop"
    /\ ~MustStop
    /\ heeds' = FALSE
    /\ sm.state \notin {"EMERGENCY", "SHUTDOWN"}
    /\ mid' \in Mids
    /\ \E hit \in BOOLEAN : spike' = SpikeAfterUpdate(hit)
    /\ \E next \in {"refresh", "evaluate"} :
          IF spike'.active
          THEN /\ sm' = EnterCooldown(sm, "COOLDOWN_PRICE_SPIKE", spike'.left)
               /\ SaveAndGo(sm'.state, next)
          ELSE /\ pc' = next
               /\ UNCHANGED <<sm, db>>
    /\ UNCHANGED <<tradingVars, risk, cached, queue, stopping, recovered, unseen,
                   parting>>

\* Every tenth tick; which one that is does not matter here.
RefreshBalances ==
    /\ pc = "refresh"
    /\ \/ cached' = held /\ unseen' = 0
       \/ UNCHANGED <<cached, unseen>>
    /\ pc' = "evaluate"
    /\ UNCHANGED <<tradingVars, sm, risk, spike, mid, queue, stopping, heeds, db,
                   recovered, parting>>

\* Risk is evaluated in every state, cooldowns included; a breach ends trading.
RiskHalts ==
    /\ pc = "evaluate"
    /\ risk' = Evaluate(risk, open, cached, mid)
    /\ risk'.halted
    /\ sm' = Transition(sm, "EMERGENCY")
    /\ SaveAndGo("EMERGENCY", "loop")
    /\ WaitMayBeZero
    /\ mid' = 0
    /\ UNCHANGED <<tradingVars, spike, cached, queue, stopping, recovered, unseen,
                   parting>>

\* Still cooling down: nothing is placed, for the compliance timer is never
\* started by the bot.
StayCool ==
    /\ pc = "evaluate"
    /\ risk' = Evaluate(risk, open, cached, mid)
    /\ ~risk'.halted
    /\ ~CanPlace(sm)
    /\ StrategiesUpdated
    /\ pc' = "loop"
    /\ WaitMayBeZero
    /\ mid' = 0
    /\ UNCHANGED <<tradingVars, sm, cached, queue, stopping, db, recovered,
                   unseen, parting>>

MutGoOnUngated ==
    /\ pc = "evaluate"
    /\ risk' = Evaluate(risk, open, cached, mid)
    /\ ~risk'.halted
    /\ StrategiesUpdated
    /\ \E n \in 0..Rungs : queue' \in [1..n -> Request]
    /\ pc' = "placing"
    /\ mid' = 0
    /\ UNCHANGED <<tradingVars, sm, cached, stopping, heeds, db, recovered,
                   unseen, parting>>

\* A cooldown that has run out ends; then the desired orders are computed.
GoOn ==
    /\ pc = "evaluate"
    /\ risk' = Evaluate(risk, open, cached, mid)
    /\ ~risk'.halted
    /\ CanPlace(sm)
    /\ StrategiesUpdated
    /\ \E n \in 0..Rungs : queue' \in [1..n -> Request]
    /\ sm' = SetSubState(Transition(sm, "RUNNING"),
                         IF queue' = << >> THEN "WAITING" ELSE "PLACING")
    /\ pc' = "placing"
    /\ mid' = 0
    /\ UNCHANGED <<tradingVars, cached, stopping, heeds, db, recovered, unseen,
                   parting>>

\* _refresh_orders() places the next one.  Whatever place() raises is logged: a
\* price outside the band at once, anything else when the call ends.
PlaceNext ==
    /\ pc = "placing"
    /\ queue # << >>
    /\ call = Idle
    /\ PlaceCall(Head(queue)) \/ UNCHANGED tradingVars
    /\ queue' = Tail(queue)
    /\ UNCHANGED <<pc, sm, risk, spike, cached, mid, stopping, heeds, db, recovered,
                   unseen, parting>>

\* The rest of the tick; every sixtieth one saves the state.
EndTick ==
    /\ pc = "placing"
    /\ call = Idle
    /\ queue = << >>
    /\ sm' = SetSubState(sm, IF open = NoOrders THEN "PLACING" ELSE "WAITING")
    /\ \/ pc' = "loop" /\ UNCHANGED db
       \/ SaveAndGo(sm'.state, "loop")
    /\ WaitMayBeZero
    /\ UNCHANGED <<tradingVars, risk, spike, cached, mid, queue, stopping, recovered,
                   unseen, parting>>

-----------------------------------------------------------------------------
(* Stop and shutdown                                                       *)

\* SIGINT or SIGTERM sets the stop event, Bot.shutdown() clears _running; both
\* take effect between two ticks.
Stop ==
    /\ pc \in Trading
    /\ stopping = "no"
    /\ stopping' \in {"signal", "call"}
    /\ UNCHANGED <<tradingVars, pc, sm, risk, spike, cached, mid, queue, heeds, db,
                   recovered, unseen, parting>>

\* What only a tick reads is let go, so that states that differ in nothing that
\* matters any more are one state.
LetGo ==
    /\ risk' = NoRisk
    /\ spike' = NoSpike
    /\ cached' = 0
    /\ mid' = 0
    /\ queue' = << >>
    /\ heeds' = FALSE
    /\ unseen' = 0

\* _shutdown(): a save that raises leaves run() at once.
BeginShutdown ==
    /\ pc = "fatal" \/ (pc = "loop" /\ MustStop)
    /\ sm' = Transition(sm, "SHUTDOWN")
    /\ parting' = [mark |-> nextOid, answered |-> TRUE]
    /\ \/ db' = "SHUTDOWN" /\ pc' = "shutReconcile" /\ Reconcile
       \/ UNCHANGED <<db, tradingVars>> /\ pc' = "failed"
    /\ LetGo
    /\ UNCHANGED <<stopping, recovered>>

\* An exception out of reconcile() skips cancel_all().
ShutdownCancel ==
    /\ pc = "shutReconcile"
    /\ call = Idle
    /\ IF result = "raised"
       THEN pc' = "stopped" /\ UNCHANGED tradingVars
       ELSE pc' = "shutCancel" /\ CancelAll
    /\ parting' = [parting EXCEPT !.answered = result = "done"]
    /\ UNCHANGED <<sm, risk, spike, cached, mid, queue, stopping, heeds, db, recovered,
                   unseen>>

MutShutdownWaitsForNoOrders ==
    /\ pc = "shutCancel"
    /\ call = Idle
    /\ open = NoOrders
    /\ pc' = "stopped"
    /\ parting' = [parting EXCEPT !.answered = @ /\ result = "done"]
    /\ UNCHANGED <<tradingVars, sm, risk, spike, cached, mid, queue, stopping, heeds,
                   db, recovered, unseen>>

ShutdownDone ==
    /\ pc = "shutCancel"
    /\ call = Idle
    /\ pc' = "stopped"
    /\ parting' = [parting EXCEPT !.answered = @ /\ result = "done"]
    /\ UNCHANGED <<tradingVars, sm, risk, spike, cached, mid, queue, stopping, heeds,
                   db, recovered, unseen>>

\* Everything in memory is gone; systemd starts the process again unless it
\* ended well.  A process that has failed has only this left to do.
Crash ==
    /\ pc \notin {"down", "stopped"}
    /\ ProcessDies
    /\ pc' = "down"
    /\ sm' = InitialState
    /\ risk' = NoRisk
    /\ spike' = NoSpike
    /\ cached' = 0
    /\ mid' = 0
    /\ queue' = << >>
    /\ stopping' = "no"
    /\ heeds' = FALSE
    /\ recovered' = "none"
    /\ unseen' = 0
    /\ parting' = NotParting
    /\ UNCHANGED db

-----------------------------------------------------------------------------
(* The engine, the venue and the clock                                     *)

EngineMoves == EngineStep /\ UNCHANGED <<botVars, unseen>>

\* The bot counts what it holds from preflight to the end of the last tick.
InService == pc \in {"preflight", "preflightReconcile"} \cup Trading

\* A buy that trades on an order the bot does not track goes unseen.
MarketMoves ==
    /\ \/ \E oid \in DOMAIN book :
             /\ VenueFills(oid)
             /\ unseen' = IF book[oid].side = "buy" /\ oid \notin DOMAIN open /\ InService
                          THEN unseen + 1 ELSE unseen
       \/ /\ \/ \E oid \in DOMAIN book : VenueWithdraws(oid)
             \/ \E s \in late : SubmissionArrivesLate(s)
          /\ UNCHANGED unseen
    /\ UNCHANGED botVars

Earlier(left) == IF left > 0 THEN left - 1 ELSE 0

\* The clock is looked at when a tick starts and when it asks can_place(); the
\* time that placements take is let pass once they are done.
ClockTick ==
    /\ pc \in Trading \ {"placing"}
    /\ sm.left > 0 \/ spike.left > 0
    /\ sm' = [sm EXCEPT !.left = Earlier(@)]
    /\ spike' = [spike EXCEPT !.left = Earlier(@)]
    /\ risk' = [risk EXCEPT !.capLeft = Earlier(@)]
    /\ UNCHANGED <<tradingVars, pc, cached, mid, queue, stopping, heeds, db, recovered,
                   unseen, parting>>

\* A process that has ended, or lies dead for good, stays so.
Terminated == pc \in Ended /\ UNCHANGED vars

BotStep ==
    \/ Boot \/ PreflightBalances \/ StartRunning
    \/ IdleTick \/ TickStart \/ RefreshBalances \/ RiskHalts \/ StayCool \/ GoOn
    \/ PlaceNext \/ EndTick
    \/ BeginShutdown \/ ShutdownCancel \/ ShutdownDone

Next == BotStep \/ Stop \/ Crash \/ EngineMoves \/ MarketMoves \/ ClockTick \/ Terminated

Spec == Init /\ [][Next]_vars

\* The event loop runs the main task whenever it can, every REST call and every
\* wait for the limiter ends, and time passes.
Fairness == WF_vars(BotStep) /\ WF_vars(EngineMoves) /\ WF_vars(ClockTick)

FairSpec == Spec /\ Fairness

-----------------------------------------------------------------------------
TypeOK ==
    /\ EngineTypeOK
    /\ pc \in Locations
    /\ sm \in [state : BotStates, sub : SubStates, left : 0..SpikeCooldown]
    /\ spike \in [active : BOOLEAN, left : 0..SpikeCooldown]
    /\ cached \in Nat /\ mid \in Mids \cup {0} /\ unseen \in Nat
    /\ queue \in Seq(Request) /\ Len(queue) <= Rungs
    /\ stopping \in {"no", "signal", "call"} /\ heeds \in BOOLEAN
    /\ db \in BotStates /\ recovered \in {"none", "EMERGENCY"} \cup CooldownStates
    /\ parting \in [mark : 0..MaxOid + 1, answered : BOOLEAN]

(***************************************************************************)
(* The gate is checked once per tick, before a series of placements that   *)
(* each wait for the limiter and the venue.  No placement is under way, at *)
(* any of those waits, unless the bot is running, not halted by risk and   *)
(* out of every cooldown.                                                  *)
(***************************************************************************)
PlacesOnlyWhileRunning ==
    call.op = "place" => sm.state = "RUNNING" /\ sm.left = 0 /\ ~risk.halted

(***************************************************************************)
(* The order count is checked before the series and never inside it: a     *)
(* process that has placed anything tracks at most the limit, less one,    *)
(* plus one series, however many placements fail, fill or time out.        *)
(***************************************************************************)
OpenOrderBound ==
    pc \in Trading /\ nonce > 0 => Cardinality(DOMAIN open) <= MaxOpenOrders - 1 + Rungs

\* TEST_PLAN.md promises the limit itself: the open orders never exceed it.
WithinOrderLimit ==
    pc \in Trading /\ nonce > 0 => Cardinality(DOMAIN open) <= MaxOpenOrders

\* An order of the book, with what has been filled of its size.
FilledInBase(o) == [tag |-> o.tag, side |-> o.side, size |-> o.size, filled |-> o.size - o.rem]

\* No tracked buy was filled in part, or whole, when it was last reported.
ReportedUnfilled == \A oid \in DOMAIN open : open[oid].side = "buy" => open[oid].filled = 0

(***************************************************************************)
(* Balances are read now and then, orders are counted as they were last    *)
(* reported, and the market trades in between: a tick goes on to place     *)
(* orders only if what is really held, with what the tracked buys may      *)
(* still add, is within max_position_notional.  What is bought on orders   *)
(* the bot does not track is missed until balances are read again; and it  *)
(* holds only for buys reported before their first fill, for filled_size   *)
(* is an amount of the quote currency (FilledSizeIsInBase is violated).    *)
(***************************************************************************)
GoesOnWithinPosition ==
    [][pc = "evaluate" /\ pc' = "placing" /\ ReportedUnfilled =>
          LET tracked == [oid \in DOMAIN book \cap DOMAIN open |-> FilledInBase(book[oid])]
          IN  (held + PendingBuys(tracked) - unseen) * mid <= MaxPosition]_vars

(***************************************************************************)
(* Every change of state a running process makes is in the transition      *)
(* table, so transition() never raises IllegalTransition inside a tick or  *)
(* the shutdown.                                                           *)
(***************************************************************************)
LegalTransitions ==
    [][sm'.state # sm.state /\ pc' # "down" /\ pc # "preflightReconcile"
          => sm'.state \in ValidTransitions(sm.state)]_vars

(***************************************************************************)
(* Whenever a tick leaves the bot in EMERGENCY and the loop goes on, the   *)
(* row that a restarted process would read says so.  The price is the      *)
(* loop: a save that fails does not leave a halted bot running with an     *)
(* older state on disk because it ends the bot (LoopSurvivesFailedSave is  *)
(* violated).                                                              *)
(***************************************************************************)
EmergencyIsSaved == sm.state = "EMERGENCY" /\ pc = "loop" => db = "EMERGENCY"

(***************************************************************************)
(* TEST_PLAN.md, T5.1: a write to the database that fails does not take    *)
(* the trading loop down; the loop goes on and no tick is interrupted.     *)
(***************************************************************************)
LoopSurvivesFailedSave == [][pc' = "fatal" => pc \notin Trading]_vars

(***************************************************************************)
(* Shutdown: when both REST calls were answered, nothing that had reached  *)
(* the venue when the shutdown began is left in the book, including orders *)
(* whose answer was lost and orders of an earlier process.  A submission   *)
(* given up before the shutdown that reaches the venue after its           *)
(* cancel_all() stays there, with no process to know of it.                *)
(***************************************************************************)
CleanShutdown ==
    pc = "stopped" /\ parting.answered => \A oid \in DOMAIN book : oid >= parting.mark

(***************************************************************************)
(* "EMERGENCY requires manual clear": a process that finds EMERGENCY in    *)
(* the row does not place orders.                                          *)
(***************************************************************************)
EmergencyNeedsManualClear == recovered = "EMERGENCY" => call.op # "place"

(***************************************************************************)
(* A cooldown ends even in a market that keeps spiking.                    *)
(***************************************************************************)
CooldownEnds == sm.state = "COOLDOWN_PRICE_SPIKE" ~> sm.state # "COOLDOWN_PRICE_SPIKE"

(***************************************************************************)
(* A stop gets the process to its end through whatever the REST calls of   *)
(* the tick and of the shutdown answer, unless it is a signal and tick     *)
(* after tick outlasts the tick interval.  (A halted bot always stops.)    *)
(***************************************************************************)
Gone == pc \in Ended \cup {"down"}

StopCompletes == (stopping # "no" ~> Gone) \/ []<>(pc = "loop" /\ ~heeds)

\* TEST_PLAN.md promises it of every SIGTERM: the shutdown runs to completion.
StopSignalHeeded == stopping = "signal" ~> Gone
=============================================================================
