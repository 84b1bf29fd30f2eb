# gate-trade in TLA+

`gate-trade` is a live trading bot for one spot pair on Gate.io: one asyncio process that
reads the market from a websocket, places limit orders through a rate-limited REST client,
watches its own risk, and writes its state to SQLite so that systemd can restart it. This
directory holds TLA+ modules of that program, TLC configurations that check them on small
instances, and TLAPS proofs of what can be proved for every instance. Paths below are
relative to the repository (`src/` there is the Python package's source directory).

## 1. The system

| component | state it keeps | operations | what makes it correct |
|---|---|---|---|
| rate limiter `guardrails/rate_limiter.py` | tokens, time of the last refill | `acquire` (polls, waits up to `max_wait`), `try_acquire`, `available`, `reset` | never more than burst + rate x time, bounded waits, no token wasted |
| order engine `order/order_engine.py` | `_open`, `_by_tag`, `_pending`, `_nonce` | `place`, `cancel`, `cancel_by_tag`, `cancel_all`, `reconcile` | no live order dropped, no report ahead of the book, tags lead to their order |
| exchange client `client/gate_client.py` | none | one REST call per operation, `_from_gate_order`; errors become `ExchangeError`, transport errors do not | an order says what its owner takes it to say |
| state machine `state/state_machine.py` | state, sub-state, end of the cooldown | `transition`, `start_cooldown_*`, `can_place` | only transitions of the table are asked for |
| risk manager `risk/risk_manager.py` | three breach flags, halt, peak price, cap cooldown | `evaluate` | position and order count within limits |
| bot `bot.py` | all of the above, balances, tick count | `run`, `_tick`, `_shutdown`, `_save_state`, `_load_recovery_state` | places only while running, saves what a restart needs, cooldowns and stops end |
| live process `scripts/run.py`, `systemd/` | tasks of the feed | preflight, feed tasks, run, close; restart on failure | starts from the exchange's truth, waits for what it has asked for |
| reference price `price/ref_price_engine.py` | reference price, spike flag and its end | `update`, reads that expire the flag | spike protection starts and ends |
| strategies `strategy/accum.py`, `depth.py` | ratchet, suspension; dormancy, flash log | `desired_orders`, `update_market`, `on_fill`, `on_state_change`, `report_flash`, `reset` | the ladder only falls, nothing is quoted into a collapse or a storm |
| market data `market/market_data.py` | sorted book, ring of mids, cached signals | `apply_snapshot`, `apply_delta`, queries | list and lookup agree, signals fresh, queries of the book as it is |
| websocket `client/ws_manager.py` | connection, subscriptions, queues, tasks | `connect`, `subscribe`, `close`, reader, pings, reconnect | every subscription served after every reconnect, the newest messages kept, no task left behind |
| markout and toxicity `markout/`, replay `replay/` | pending fills, window, level, metrics | `on_fill`, `update_mid`, `evaluate`, `respond`; `run` (again and again), `reset` | no fill lost or counted twice, mids taken on time, levels are that of the ratio |
| configuration `config/`, `scripts/gate_admin.py` | snapshot, mtime, pending changes; batches to confirm | `poll`, `submit`, `confirm`, `reject`; the admin commands | no edit missed, no dangerous change lost on its way to the guard, only what was shown is confirmed |
| cooldown manager, persistence, event log, alerts, web panel, smasher, other scripts, mocks | see `PROJECT.json` | | |

Components interact in one process and one event loop. `Bot.run` is the only task that
calls the order engine and the state machine; it gives way at every await: the limiter's
sleep, a REST call in a thread, the wait between ticks. Between any two awaits the feed
tasks, signal handlers and the web panel run, and outside the process the venue fills and
cancels orders all the time. What is hard: a REST call whose effect and answer come apart
(an error after the venue has acted, a submission that arrives after its client gave up); a
list of open orders that is old when it is adopted; a check made once before a series of
awaits; a crash between any two steps, after which memory is empty and the exchange is not;
stops that must get through a loop of such calls; a connection that is lost while its topics,
its reader and its pings are being set up; a file that is edited between two system calls;
values kept for later (signals, the reference price, the spike flag, markouts) that must be
renewed when what they were made of changes. `PROJECT.json` lists each hazard with its line
and the properties for it.

## 2. Modules

The modules fall into five groups that share no state in the code but through the bot.

**Limiter.** `TokenBucket` is what a token bucket promises: a credit that grows with time and
is spent by the token. `RateLimiter` is the limiter as written, with lazy refills, 50 ms polls
and a deadline per waiter, and implements it (`ImplementsBucket`).

**Orders and bot.** `Exchange` is the venue behind the REST client, as the code uses it: the live
orders of the account, an id per accepted order, the base currency held, and submissions that the
client has given up but that are still on their way. An order is filled a unit at a time at its
own price (`Traded`), and its record counts that twice, as Gate's does: what is left of the size,
in the base currency, and `filled_total`, what was paid, in the quote currency. `FromGateOrder`
is the client's conversion, which calls the second one `filled_size`. `OrderEngine` extends it
with the engine's variables. A coroutine is cut where it awaits; `call` is the one under way and
where it stands, so `place` is `PlaceCall` (validated, tag drawn, waiting for the limiter),
`PlaceLimited` or `PlaceSubmit`, `VenueAccepts`, and then `PlaceConfirmed`, `PlaceFailed` (an
`ExchangeError`) or `PlaceBroken` (anything else). `cancel`, `cancel_all` and `reconcile` are cut
the same way, and `VenueMoves` may come between any two of these steps. `ProcessDies` empties
everything but the exchange. `StateMachine` and `RiskManager` are operators: both classes are
called without an await by their only owner, so each method is old state to new state. Times are
the time left. `Bot` composes all of these; `pc` is where the main task stands:

| step | code |
|---|---|
| `Boot`, `PreflightBalances`, `StartRunning` | `Bot.__init__` with `_load_recovery_state`, `_preflight`, the start of `run` |
| `IdleTick` | `_tick` in EMERGENCY or without a price |
| `TickStart`, `RefreshBalances` | `_tick` steps 2-5 |
| `RiskHalts`, `StayCool`, `GoOn` | steps 6-9, by outcome |
| `PlaceNext` (with the engine's steps), `EndTick` | `_refresh_orders`, steps 11-14 |
| `Stop` | a signal, or `Bot.shutdown()` |
| `BeginShutdown`, `ShutdownCancel`, `ShutdownDone` | `_shutdown` |
| `Crash` | the process dies; systemd starts it again |

**Feed.** `Feed` is `WsManager`. Connections are numbered as they are made; `conn` is `_conn`
and `task` is where the background task `_reconnect()` stands, which gives way at the
handshake, at each send, in the reader and in the back-off:

| step | code |
|---|---|
| `Connect`, `Subscribe`, `Consume`, `Close`, `Closed` | `connect()`, `subscribe()`, a consumer's `queue.get()`, `close()` up to its awaits and after them |
| `Established`, `Refused`, `HandshakeRejected` | the outcomes of `websockets.connect`; the last is the exception `_reconnect` does not catch, which ends the task |
| `SendNext`, `SendFails`, `StartTasks` | `_resubscribe()` one send at a time, then the start of the ping task and the reader |
| `Receive`, `MalformedMessage`, `ReaderEnds`, `BackoffOver` | `_reader_loop()` with `_dispatch` and the queues, and what follows it |
| `PingWakes` | `_ping_loop()` of any connection, which pings whatever `_conn` is by then |
| `ConnectionLost` | the venue or the network ends the connection, cleanly or not |

`Startup` puts the process around it: `main()`, `_run_live()` with the connection, the
preflight's two waits, balances and reconciliation, the feed tasks, the bot and the `finally`,
and `_run_dry()`. The bot between start and stop is `Bot`'s.

**Market and strategies.** `PriceBook` is what the contract promises of a local book: sizes by
price, replaced or changed at one price, and the last mids. `MarketData` is the class that
keeps it: two sorted lists beside two lookups, a ring written at one index, signals made on
demand and kept until the book changes; it implements `PriceBook` (`ImplementsPriceBook`) by
mapping lists to sizes and the ring to the last mids. `RefPrice`, `Accumulator` and
`DepthKeeper` are operators, a method each; `Quoting` drives them as the code's three callers
do, which differ in what they ask:

| step | code |
|---|---|
| `Tick`: `PriceTick` and `TickOn` or `TickOff` | `Bot._tick`: `update` of the reference price; a tick that goes on to place tells active strategies the price and asks them for orders, one that ends before tells them at most the price |
| `Snapshot` | `ReplayEngine._process_snapshot`: asks whether active or not |
| `CallMarket`, `CallFill`, `CallHalt`, `CallFlash`, `CallReset` | any caller of `strategy/contract.py`, one method at a time |
| `TimePasses` | ages of the flashes and of the window, time left of the dormancy and the spike |

**Tools.** `Markout` has recorder, detector and response as operators; `Replay` is `ReplayEngine`
over any rows, with the fills, their markouts and the level (`Row`), run again with nothing reset
but the metrics, as `run()` does (`RunAgain`), or after `reset()` (`Reset`), while the wall clock
of the response goes on (`WallTime`). `ConfigReload` is the file, the watcher cut between its two
system calls (`PollStat`, `PollRead`; `Create`, `NoteFirstMtime` in the constructor's order), the
guard (`Submit`, `GuardConfirm`, `GuardReject`), and `gate_admin.py`, of which each command is a
process of its own (`AdminLook`, `AdminConfirm`, `AdminReject`, `Exit`). `Edit` may come between
any two of these and leaves any mtime, an earlier one included; `Tock` is the clock.

The modules `...Proofs` hold the proofs of their component (`QuotingProofs` those of `Quoting`
and the operators it drives, `ToolsProofs` those of `Replay` and `ConfigReload`), `DataLemmas`
the facts about numbers, sums, lists and folds that several of them need, and `MC...` the
instances for TLC.
`MCVenue` (limiter, order engine, websocket manager) and `MCData` (order book, price and
strategies, replay, configuration) each put components side by side that share nothing: `part`
says which of them moves in a behaviour, so the states of one run are the sum of all and not
their product. Operators named `Mut...` are plausible mistakes, one for each property, kept
beside the definition they change; nothing uses them, and `PROJECT.json` says which property
each must break. Variables named history (`adrift`, `unseen`, `parting`, `restarts`, `grants`,
`owed`, `given`, `quiet`, `reprieve`, `carried`, `graded`, the field `rows`,
`settled`, `shown` and others) are not in the code; they remember what
a property speaks of.

## 3. Runs

| run | question | bounds |
|---|---|---|
| `venue` | do the three things between the bot and its venue keep their promises? | limiter: burst 1, a refill of 2/3 token per unit, wait 3, poll 2, resumption up to 1 late, time to 7: both callers may sleep at once, a token comes between two polls, the last poll is cut short. Engine: two ids, two tags, orders of two units, one crash: partial fills, fills during a cancellation, lost answers, two orders under one tag. Feed: three connections, two consumers (one topic within the other), queues of two, three messages, two attempts before the manager gives up |
| `bot_trading` | does the gate hold through a series of placements? | three ids and nonces, series of two, limit 1 on open orders |
| `bot_restart` | what survives a crash, what does a shutdown leave, with what position does a tick go on, do cooldowns and stops end? | two ids, orders of one unit, one placement per process, one crash, spikes of two time units, position cap between one unit at the low price and one at the peak |
| `data` | is what is made of data right: book, signals, ladders, markouts, pending changes? | book: three prices, levels of one and four (a wall), a ring of two mids. Quoting: the market falls past the ladder and past the collapse and comes back, ladder of two rungs, window and dormancy of one and two units, a storm of two flashes. Replay: a run of three rows and one of two without `reset()`, any number after it, rows at gaps of one or two units, a large buy or a small sell desired in a row or nothing, intervals one and two, window of three fills, cooldown of one unit. File: four keys, one per level and a second of level 2, three edits, two mtimes, two tokens that expire |
| `order_tags` | is every order found by its tag after a reconnect? (violated) | two ids, one tag per process, one crash |
| `filled_total` | is `filled_size` what was filled of the size? (violated) | one order of two units |
| `recovery` | does EMERGENCY wait for a manual clear? (violated) | one order, one crash |
| `order_limit` | is `max_open_orders` kept? (violated) | limit 1, series of two |
| `stop_signal` | is every SIGTERM heeded? (violated) | one order |
| `save_failure` | does the loop survive a save that fails? (violated) | one order, one crash |
| `suspended_for_good` | does the bot's tick wake a suspended strategy when the price is back? (violated) | as `data` |
| `startup` | has what the preflight waits for been asked for? (violated) | the topics of `gate_client.py`, two connections |

In all runs of the bot the two prices are a flash crash apart, so each tick may halt for the
position, the count, the fall, or not at all. `MaxOid`, `MaxNonce`, `MaxRestarts`, `MaxTime`,
`MaxConns`, `MaxMsgs`, `MaxSnaps`, `MaxRuns`, `MaxDesired`, `MaxEdits`, `MaxMtime`, `MaxTokens`,
`MaxClock`, `MaxPast` and `MaxFlashes` bound counters that have no bound in the code; everything
else is finite by itself. One more order, connection, edit or unit of time repeats what the given
ones can already do: the properties relate at most two orders, two processes, two callers, or a
connection and those before it (three connections let two old ping tasks meet a new one); a full
queue needs one message more than it holds; a ring of two has wrapped around after three mids; a
window of three fills has lost its oldest after four, which a run of three rows and one of two
fill. What the properties say of larger instances is what the proofs are for. Deadlock is checked
in every run; a process that has ended stutters (`Terminated`, `Rest`, `ProcessEnded`).

Eight runs show a disagreement between the code and what the repository says of it; each is a
finding in `PROJECT.json`, with the line that is contradicted. Several have a passing property
beside them that says what does hold:

- `EveryOrderFoundByTag` fails after a crash, `FoundByTagInOneLife` holds until then.
- `FilledSizeIsInBase`: `gate_client.py:244` (and 293, for the order feed) copies the paid amount
  into `filled_size`, which the risk manager takes from a size. What holds is that a report is
  never ahead of the venue's own record, in the currency of that record (`ReportsNotAhead`), and
  that the position is kept for buys that were reported unfilled (`GoesOnWithinPosition`). A buy
  that is filled in part counts for too little as soon as its price is above one.
- `WithinOrderLimit` fails; `OpenOrderBound` is the bound the code does keep: the limit less one
  plus a series.
- `LoopSurvivesFailedSave` (T5.1) fails, and that is what `EmergencyIsSaved` rests on: a failed
  save ends the loop, so no halted bot runs on with an older state on disk.
- `StopSignalHeeded` fails while ticks overrun, `StopCompletes` excepts just that.
- `EmergencyNeedsManualClear`: a process that finds EMERGENCY trades.
- `WaitsForDataAskedFor`: the preflight waits for "first valid market data"
  (`scripts/run.py:132`, expected to succeed by `docs/TEST_PLAN.md:414`), but the feed tasks,
  the only callers of `subscribe_orderbook()`, are created after the preflight has returned
  (`run.py:347-350`).
- `RecoversWithPrice`: the bot asks only active strategies, and it is the asking that finds a
  recovery, so under the bot a suspended accumulator is never woken (under the replay it is),
  although `accum.py:27-28` says what it takes to recover.

Four more are told here and have no run of their own, for they can be read off one definition;
the property beside each says what the code does:

- A shutdown leaves an order that its client gave up before and that the venue accepts after
  `cancel_all()`, whereas `docs/TEST_PLAN.md:780` expects every order to be cancelled.
  `CleanShutdown` is about what had reached the venue when the shutdown began.
- `accum.py:25-26` says a ladder too far above the price stops the strategy, but `_just_recovered`
  outlives the call that sets it when a spike makes that call return early. `LadderWithinCollapse`
  says how far the exemption reaches: one ladder, the first that is computed after the recovery,
  whatever comes between.
- `response.py:24` calls the ratio a rolling one, and `response.py:91` and
  `test_response.py:83` speak of a cooldown before ELEVATED ends. The ratio is that of all fills
  since the start (`toxic.py:53`), ELEVATED ends with the first ratio below it, and the branch that
  waits (`response.py:92-94`) is dead. `LevelFollowsRatio` says just that, and its proof
  shows the branch dead.
- `gate_admin.py:11` offers `confirm <token>`, but each command draws a token of its own (`NewToken`
  in `AdminConfirm`), so none that was shown is ever valid. `ConfirmedAsShown` is about a caller
  that keeps its guard.

Properties worth a remark, since they say less than a reader may expect: `JumpIsFlagged` excepts
the update that finds a flag still up, expired or not, and speaks of a window that has a mid to
compare with. `GoesOnWithinPosition` leaves out what was bought on orders the bot does not track
since it last read its balances (`unseen`), for the code cannot know of it, and ticks with a
tracked buy that was reported filled in part, of which the code knows the wrong amount.
`FillsAccounted` counts what a run has taken over (`carried`): the fills of a summary are those
marked and those pending only for a run that begins with nothing pending. `QueriesMatchBook`
gives the average price of an amount its range, the prices of its side, for four amounts that end
within a level, between two, and beyond the book. `NoEditMissed` excepts edits that leave no
later mtime, and one between the constructor's first read and its stat.

Fairness. `FairSpec` (for `CooldownEnds`, `StopCompletes` and `stop_signal`): the event
loop runs the main task when it can (`BotStep`); a wait for the limiter ends by its own
deadline and a REST call ends in an answer or an error (`EngineMoves`: calls run in threads
of the HTTP client; the code sets no timeout of its own, so a connection that hangs for ever
is outside this assumption); the clock advances (`ClockTick`). The time placements take is let
pass when they are done: the clock is read only before and after them. `FeedFairSpec` (for
`PingsEnd`): each ping task's `asyncio.sleep` ends and the loop runs what it wakes
(`PingWakes`), and `close()` comes back from its awaits (`Closed`). Nothing is assumed of the
venue, of signals, of crashes, of consumers or of which way a call ends, and nothing makes a
lost connection come back.

## 4. Proofs

All constants are arbitrary under the named assumptions of the modules, which say no more than
that counts are naturals, sizes and prices positive, thresholds ordered as the code's defaults
are. The one further assumption is that of `PriceFromTheMarket`: no quote of the market is
crossed, without which "within the best bid and ask" means nothing.

`RateLimiterProofs`: types and `WaitBounded` are inductive with the fact that a sleeper wakes
by its deadline. `WindowBound` alone is not: it says nothing of the tokens that are left. The
invariant adds that what was spent since any grant, together with what is in the bucket,
is at most the capacity plus what the rate gave since (`SpentAndLeft`); a grant then only
moves a token from one side to the other, and a refill is capped by the capacity.
`NoTokenWasted` rests on an account of time (`NoTimeLost`): between two grants the bucket
holds at least what the rate gave since a waiter came. `LazyBucketImplementsBucket` maps the
credit to the refilled content, which no lazy refill changes.

`OrderEngineProofs`: types first (`EngineTypeCorrect`), with the locals that each await
resumes with. `NothingForgotten`, `ReportsNotAhead` and `TagsLeadToTheirOrder` are
parts of one invariant (`EngineInv`), which says besides what is true between the venue's
step and the answer: ids are never reused and the order whose answer is on its way is not
tracked yet (`IdsIssued`), what it may answer is not ahead of the book (`AnswerFits`), a list on its
way covers every live order but those that came after it, and its reports are not ahead of
the book (`ListFits`), tracked and live orders agree on tags (`TagsAgree`), and a confirmed
cancellation is of orders that are gone (`CancelledGone`). Without `ListFits` an adopted list
could drop a live order; without `IdsIssued` a new order could take the id of a stale one.
`FoundByTag` needs more, for it fails after a crash: until then a tag is in one place at a
time, with a submission on its way (`Unsent`, `LateTags`) or on one id, wherever that order is
written down (`Named`: the book, `_open`, a list or an answer on its way). `OneLifeInv` says
so; what a submission gives up when it reaches the venue is what the order's id receives.

`BotProofs`: `BotUsesEngine` shows that the bot implements `EngineSpec`; each step maps to a
call, a step of the call under way, the venue, a crash or a stutter, so all of the above holds
of the bot. For the rest the invariant says what the main task knows where it stands: which
call may be under way at which `pc` (`CallsAt`) and which states of the machine a tick may be
in (`MachineInTick`). From these follow `PlacesOnlyWhileRunning`, `LegalTransitions` and
`EmergencyIsSaved`. `OpenOrderBound` rests on a sum that no placement raises: orders tracked,
requests in the queue and the one under way (`CountInv`). `CleanShutdown` follows the orders
older than the shutdown (`Earliest`), which only grow fewer, from the list that covers them to
`_open` to the `cancel_all()` that withdraws them (`ShutdownInv`).

`GoesOnWithinPosition` compares what the risk manager counts, a balance read some time ago and
remainders as they were last reported, with what is held and in the book by now. The invariant
(`PositionInv`) is that, as long as no tracked buy was reported filled in part, the truth is never
above the count: held, plus what the tracked buys really have left (`FilledInBase`: the size less
what is filled of it), is at most the cached balance plus what they are reported to have left plus
the unseen units. A fill of a tracked buy moves a unit from one term of the truth to the other; a
fill of another order is counted as unseen; a cancellation or a failed call only takes from the
truth; a confirmed placement adds the order on both sides, and no less to the count than to the
truth, for one that is reported unfilled is counted in full, and because tracked and live orders
agree on their sides (`TagsAgree`). Balances read anew start the account again. The condition is
what `FilledSizeIsInBase` costs: a buy reported filled in part is counted for its size less the
amount paid, which may be less than what is left of it, and nothing is then known of the sum. A sum
is over all orders, so these steps rest on lemmas on sums that lose an element, or of which every
element falls (`SumSplit`, `SumGrows`).

`FeedProofs`: `OnConnection` (the task is on the connection in `_conn`, the newest) and
`ListedOrSent` (what was registered has been sent or is still to be sent) make
`ResubscribedOnEveryConnection` and `KeptAlive` inductive. `QueuesKeep` relates each queue to
the messages that arrived for it, as a predicate on the two, so that a step that puts a message
in several queues at once is one argument.

`QuotingProofs`: `AccumInv` (a set ratchet is positive; while `_just_recovered` is set a recovery
is due whose ladder `LadderWithinCollapse` excepts), `KeeperInv` (the time the storm still has to
be quiet is at most what the keeper has left of its dormancy) and types of the reference price.
`RatchetNeverRises` and `JumpIsFlagged` follow step by step; for the last, the window's oldest
mid is the same after the update as the one it was compared with, as long as the window was not
empty: with an empty one and a threshold of zero the first mid alone would be a jump.

`DataLemmas`: the library's induction theorems take a predicate as a parameter, which no backend
instantiates, so induction here is over sets: a set of numbers that is not empty has a least
one, hence a set that holds 0 and with each number the next is all of them (`AllNumbers`), and
so for finite sets (`FiniteInduction`). Folds are recursive definitions; `FoldTable` and
`FoldLeftTable` show that each is given by a table of the results so far, of which the next is
one application of the operator, so that an invariant of a loop is proved of the table's rows.
On these rest the sums, and what insertion and removal do to a list.

`MarketDataProofs`: `MarketInv` says that each list is sorted best first, without a price twice
(`IsSide`), that its prices and sizes are those of the lookup, and that the ring holds the last
mids behind its index (`RingInv`). The scan that finds where a level belongs, the deletion, and
the snapshot's sort keep it. `ImplementsPriceBook` follows: every call is the contract's change
of sizes by price and of the last mids, or a stutter for those calls that only read.
`QueriesMatchBook` is proved from `IsSide`: the head of a list is a price that no other is better
than, a depth is the sum of sizes by price, and the average price of a notional, a loop that stops
in the middle of a level, never leaves the prices it has taken from, so it lies between the lowest
and the highest price of its side, for any notional.

`ToolsProofs`, the replay: the two loops of a row, over the orders that may fill and over the
markouts that are complete, keep what their step keeps (`IsFillRun`, `IsMarkRun`), from which
`ReplayInv` is inductive: `FillsAccounted` (metrics and detector agree on what was marked, over and
above what the run has taken over), `MidsTimely`, for the records that are pending and for those a
row has just completed, of which the history keeps the rows they were shown (`rows`, `graded`), and
`LevelFollowsRatio`. All three hold over any number of runs with nothing reset but the metrics.
The last was false as first stated, for `MinSamples` = 0 before the first markout: nothing has been
evaluated yet, while the share of no fills is past every threshold. It now starts from the first
one.

`ToolsProofs`, the configuration: `NoEditMissed` is inductive with `WatcherInv`: no time noted
is later than any the file has had, so an edit with a later one is still to be seen.
`ConfirmedAsShown` rests on `GuardInv`: tokens count the batches, and the one that waits is the
one shown last and not among those confirmed. `NothingDangerousSlips` is inductive with types
(`SlipInv`): the changes of one key in the list form a chain, to which a poll adds at most one
link, from the value before to the value after, whichever order the keys come in.

Only model-checked: the liveness properties `CooldownEnds`, `StopCompletes` and `PingsEnd`, for
the prover has no ENABLED. Every other property of a passing run is a theorem.

## 5. What is left out

The live mode is modelled (`dry_run=False`; the dry run only as far as it starts and ends), one
pair, one caller of the engine. Sizes and prices are small integers; the engine validates and rounds
both before anything changes, which is left out, and of the prices only what depends on them is
kept: the venue's `filled_total`, at the order's own price and without fees. What the venue's field
holds is outside the repository and modelled from its name and use (Gate documents it as the total
filled in the quote currency). In `Bot` the strategies are any requests and the preflight's wait for
the feed is taken as satisfied; `Quoting` and `Startup` are about those.
Which tick is a tenth or sixtieth one is left open. Alerts, events and logs catch their own
errors and are left out; a save of the state that raises is not. Halt reasons, formatting and
monitoring queries have no part.

Not modelled at all, and why:

- the cooldown manager: nothing starts its timers, so it never gates anything; the smasher:
  nothing sets it in the live bot; alerts, web panel, event log: nothing depends on them;
- persistence but for the `bot_state` row: written for reports only; the configuration schema,
  which judges values; the parsers of feed messages; mocks; `healthcheck.py`,
  `daily_report.py`, `dry_run.py`, `replay.py`, which read or drive what is modelled;
- the reference price's TWAP and the toxic response's spread multiplier, which nothing reads;
  `MarkoutRecorder.flush()`, with which the bot drops pending fills at its end;
- the cancellation of a shutdown by duration mode's time-out (`run.py:359`), which cuts off what a
  kill cuts off; the announcement of a change of the toxic level, which never comes, for the level
  compared with has been set before (`bot.py:306`).

Points of the code that a reader of it may want to know and that no property is about, because
only the venue, or a wish of the owner, decides them: the bot trades on a book of any age
(`bot.py:205` asks for no time of the last update); whether the venue's answers name the topic as
`gate_client.py:191` subscribes to it; two levels of one price in a snapshot
(`market_data.py:131`); the flash-crash signal that looks at the distance and not at its sign
(`market_data.py:203`); a handshake answered with an HTTP error, which ends the connection task
for good (`ws_manager.py:112`, `HandshakeRejected`); a save that raises in `_shutdown` and leaves
every order where it is (`bot.py:442`, `BeginShutdown` to "failed"); a raw transport error that
leaves its tag in `_pending` for ever (`order_engine.py:111`), a set that nothing reads.

## 6. Plan

Done: every component of the table in section 1 that keeps state the bot depends on, and the
proofs of section 4. What would come next, in this order:

1. `Startup` and `Bot` as one behaviour, so that a feed that is lost while a tick is under way
   meets the age of the book that the tick reads.
2. `MarkoutRecorder.flush()` and the bot's use of the toxic response, with the announcements of
   a change of level (`bot.py:306`).
3. The step lemmas of the liveness properties (what a helpful step of the shutdown or of a
   cooldown decreases), which the prover can check, beside TLC's check of the whole.
