------------------------------- MODULE Replay -------------------------------
(***************************************************************************)
(* ReplayEngine of replay/engine.py: a strategy run over recorded market   *)
(* data, with the fills it would have had, their markouts and the metrics  *)
(* of the run.  One action is one snapshot, for which the strategy may     *)
(* desire any orders.                                                      *)
(***************************************************************************)
EXTENDS Markout

CONSTANTS
    Records,        \* rows of the data: best bid, best ask, last price; 0 for none
    Requests,       \* orders that the strategy may desire
    Gaps,           \* time between two rows
    MaxDesired,     \* bound on the orders desired at a time
    MaxSnaps,       \* bound: the rows of a run and the runs until then
    MaxRuns         \* bound on the runs between two calls of reset()

ASSUME ReplayAssumption ==
    /\ Records \subseteq [bid : Nat, ask : Nat, last : Nat \ {0}]
    /\ Requests \subseteq [side : {"buy", "sell"}, price : Nat, size : Nat \ {0}]
    /\ Gaps \subseteq Nat \ {0} /\ MaxDesired \in Nat /\ MaxSnaps \in Nat
    /\ MaxRuns \in Nat

VARIABLES
    now,            \* timestamp of the last row
    pending,        \* _pending of the recorder, oldest first
    detector,       \* the toxic detector
    level,          \* the level of the response
    waited,         \* wall-clock time since its _elevated_since
    metrics,        \* of the run: rows, fills, inventory and its peak, markouts, toxic fills
    graded,         \* history: the records that the last row completed
    runs,           \* history: the runs since the engine was new or reset
    carried         \* history: what the run has taken over: records pending, and the
                    \* markouts and toxic fills that the detector had counted

replayVars == <<now, pending, detector, level, waited, metrics, graded, runs, carried>>

NewMetrics ==
    [rows |-> 0, fills |-> 0, inventory |-> 0, peak |-> 0, marked |-> 0, toxic |-> 0]

ReplayInit ==
    /\ now = 0
    /\ pending = << >>
    /\ detector = NewDetector
    /\ level = "NORMAL"
    /\ waited = ResponseCooldown + 1
    /\ metrics = NewMetrics
    /\ graded = {}
    /\ runs = 1
    /\ carried = [pending |-> 0, marked |-> 0, toxic |-> 0]

\* mid_price: without both sides the last price.
MidOfRow(row) ==
    IF row.bid = 0 \/ row.ask = 0 THEN row.last ELSE (row.bid + row.ask) \div 2

\* _crosses_market(): the price the request is filled at, 0 if it is not.
FillPrice(request, row) ==
    IF request.side = "buy"
    THEN IF request.price >= row.ask THEN row.ask ELSE 0
    ELSE IF request.price <= row.bid THEN row.bid ELSE 0

\* record_fill() of the metrics.
WithFill(m, request) ==
    LET held == m.inventory + IF request.side = "buy" THEN request.size ELSE -request.size
    IN  [m EXCEPT !.fills = @ + 1, !.inventory = held,
                  !.peak = IF Abs(held) > @ THEN Abs(held) ELSE @]

\* _simulate_fill() of a desired order, if it crosses the market.
Simulated(run, request, row, time) ==
    LET price == FillPrice(request, row)
    IN  IF price = 0 THEN run
        ELSE [pending |-> Append(run.pending,
                                 Filled(request.side, price, request.size, MidOfRow(row), time)),
              metrics |-> WithFill(run.metrics, request)]

\* The fills of a row, in the order of the desired orders.
Fills(run, desired, row, time) ==
    FoldLeft(LAMBDA r, request : Simulated(r, request, row, time), run, desired)

\* What one completed record does to the detector, the metrics and the level.
Process(run, record) ==
    LET d == Evaluated(run.detector, record)
        m == [run.metrics EXCEPT !.marked = @ + 1,
                                 !.toxic = @ + IF IsToxic(run.detector, record) THEN 1 ELSE 0]
    IN  [run EXCEPT !.detector = d, !.level = Respond(run.level, run.waited, d),
                    !.waited = WaitedSince(run.level, run.waited, d), !.metrics = m]

MutKeepCompleted(run, record) ==
    LET kept == [run EXCEPT !.pending = Append(@, record)]
    IN  IF Complete(record) THEN Process(kept, record) ELSE kept

\* A record after update_mid(): while it is not complete it stays pending, and when
\* it is completed() gives it up.
StillPending(run, record) ==
    IF Complete(record) THEN Process(run, record)
    ELSE [run EXCEPT !.pending = Append(@, record)]

\* _process_snapshot() with the orders the strategy desires, in its order.
ProcessSnapshot(row, gap, desired) ==
    LET time == now + gap
        updated == [i \in DOMAIN pending |-> WithMid(pending[i], MidOfRow(row), time)]
        filled == Fills([pending |-> << >>, metrics |-> [metrics EXCEPT !.rows = @ + 1]],
                        desired, row, time)
        run == FoldLeft(StillPending,
                        [pending |-> << >>, detector |-> detector, level |-> level,
                         waited |-> waited, metrics |-> filled.metrics],
                        updated)
    IN  /\ now' = time
        /\ pending' = run.pending \o filled.pending
        /\ detector' = run.detector
        /\ level' = run.level
        /\ waited' = run.waited
        /\ metrics' = run.metrics
        /\ graded' = {record \in {updated[i] : i \in DOMAIN updated} : Complete(record)}

Row ==
    /\ metrics.rows + runs < MaxSnaps
    /\ \E row \in Records, gap \in Gaps, desired \in BoundedSeq(Requests, MaxDesired) :
          ProcessSnapshot(row, gap, desired)
    /\ UNCHANGED <<runs, carried>>

\* The clock of the response, which matters only while the level is ELEVATED.
WallTime ==
    /\ level = "ELEVATED" /\ waited <= ResponseCooldown
    /\ waited' = waited + 1
    /\ UNCHANGED <<now, pending, detector, level, metrics, graded, runs, carried>>

\* The data of a run has ended, or there was none, and run() is called again, with data
\* that goes on or that begins anew: it resets the metrics and nothing else.
RunAgain ==
    /\ runs < MaxRuns
    /\ runs' = runs + 1
    /\ now' \in {0, now}
    /\ metrics' = NewMetrics
    /\ carried' = [pending |-> Len(pending), marked |-> detector.total,
                   toxic |-> detector.toxic]
    /\ graded' = {}
    /\ UNCHANGED <<pending, detector, level, waited>>

\* reset(), between two runs.
Reset ==
    /\ now' = 0
    /\ pending' = << >>
    /\ detector' = NewDetector
    /\ level' = "NORMAL"
    /\ waited' = ResponseCooldown + 1
    /\ metrics' = NewMetrics
    /\ graded' = {}
    /\ runs' = 1
    /\ carried' = [pending |-> 0, marked |-> 0, toxic |-> 0]

ReplayNext == Row \/ WallTime \/ RunAgain \/ Reset

ReplaySpec == ReplayInit /\ [][ReplayNext]_replayVars

-----------------------------------------------------------------------------
(***************************************************************************)
(* Every fill is accounted for once: what the run has taken over and what  *)
(* it has filled is still pending, or its markout has been recorded, by    *)
(* the metrics of the run and by the detector alike.  So the fills of a    *)
(* summary are those with a markout and those left pending only if run()   *)
(* has begun with nothing pending, as it does after reset().               *)
(***************************************************************************)
FillsAccounted ==
    /\ carried.pending + metrics.fills = Len(pending) + metrics.marked
    /\ detector.total = carried.marked + metrics.marked
    /\ detector.toxic = carried.toxic + metrics.toxic

(***************************************************************************)
(* The mid of an interval is that of the first row the record was shown    *)
(* that is at least the interval after the fill, not of an earlier or a    *)
(* later one: for what is pending, and for what the last row completed,    *)
(* whose markout is made of these mids; over several runs, too.            *)
(***************************************************************************)
Timely(record) ==
    \A i \in Intervals :
        LET late == {n \in DOMAIN record.rows : record.rows[n].since >= i}
        IN  IF late = {} THEN i \notin DOMAIN record.after
            ELSE i \in DOMAIN record.after /\ record.after[i] = record.rows[Min(late)].mid

MidsTimely ==
    /\ \A n \in DOMAIN pending : Timely(pending[n])
    /\ \A record \in graded : Timely(record)

(***************************************************************************)
(* The level is that of the share of toxic fills among all fills since the *)
(* detector was new or reset, from the fewest samples on and at least one, *)
(* however it got there, over several runs, too.  So fills count for ever, *)
(* though response.py:24 calls the ratio rolling; and ELEVATED ends with   *)
(* the first ratio below it, though response.py:91 and test_response.py:83 *)
(* speak of a cooldown before that: the branch that waits is dead.         *)
(***************************************************************************)
LevelFollowsRatio ==
    level = IF detector.total = 0 \/ detector.total < MinSamples THEN "NORMAL"
            ELSE Band(detector.toxic, detector.total)
=============================================================================
