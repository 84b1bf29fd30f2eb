---------------------------- MODULE ToolsProofs ----------------------------
(***************************************************************************)
(* What the two tools that share nothing with the trading program promise: *)
(* a replay, for any recording, orders and intervals, and the watcher and  *)
(* the guard of the configuration, for any keys, files, number of edits,   *)
(* polls, commands and batches.                                            *)
(***************************************************************************)
EXTENDS Replay, ConfigReload, DataLemmas, TLAPS

-----------------------------------------------------------------------------
(* The replay: what a fill, the detector and the metrics of a run look     *)
(* like, and what each of the operators of a row does to them.             *)


\* The types of the replay: markouts by interval, a fill, the detector, the metrics.
Marks == UNION {[D -> Nat] : D \in SUBSET Intervals}

Fill == [side : {"buy", "sell"}, price : Nat, size : Nat, mid : Nat, at : Nat,
         after : Marks, rows : Seq([since : Int, mid : Nat])]

Detector == [sizes : Seq(Nat), toxic : Nat, total : Nat]

Metrics == [rows : Nat, fills : Nat, inventory : Int, peak : Nat, marked : Nat, toxic : Nat]

\* update_mid() of a record: it fills in the intervals that are due, and changes no mid that
\* is there already.
LEMMA WithMidFacts ==
    ASSUME NEW record \in Fill, NEW mid \in Nat, NEW time \in Nat
    PROVE  /\ WithMid(record, mid, time) \in Fill
           /\ WithMid(record, mid, time).at = record.at
           /\ DOMAIN WithMid(record, mid, time).after
                = DOMAIN record.after \cup {i \in Intervals : time - record.at >= i}
           /\ \A i \in DOMAIN record.after : WithMid(record, mid, time).after[i] = record.after[i]
           /\ \A i \in DOMAIN WithMid(record, mid, time).after \ DOMAIN record.after :
                WithMid(record, mid, time).after[i] = mid
           /\ WithMid(record, mid, time).rows
                = Append(record.rows, [since |-> time - record.at, mid |-> mid])
  <1> DEFINE D == DOMAIN record.after
             E == D \cup Due(record, time)
             after == [i \in E |-> IF i \in D THEN record.after[i] ELSE mid]
             rows == Append(record.rows, [since |-> time - record.at, mid |-> mid])
  <1>1. record.after \in [D -> Nat] /\ D \subseteq Intervals
    BY DEF Fill, Marks
  <1>2. E = D \cup {i \in Intervals : time - record.at >= i} /\ E \subseteq Intervals
    BY <1>1 DEF Due
  <1>3. WithMid(record, mid, time) = [record EXCEPT !.after = after, !.rows = rows]
    BY DEF WithMid
  <1>4. after \in [E -> Nat]
    BY <1>1
  <1>5. after \in Marks
    <2> HIDE DEF after, E
    <2> QED
      BY <1>2, <1>4 DEF Marks
  <1> DEFINE new == WithMid(record, mid, time)
  <1>9. rows \in Seq([since : Int, mid : Nat])
    <2>1. time - record.at \in Int
      BY DEF Fill
    <2>2. [since |-> time - record.at, mid |-> mid] \in [since : Int, mid : Nat]
      BY <2>1
    <2> QED
      BY <2>2 DEF Fill
  <1>6. new \in Fill /\ new.at = record.at /\ new.after = after /\ new.rows = rows
    <2> HIDE DEF after, rows
    <2> QED
      BY <1>3, <1>5, <1>9 DEF Fill
  <1> HIDE DEF new
  <1>7. DOMAIN new.after = E
    BY <1>6
  <1>8. \A i \in E : new.after[i] = IF i \in D THEN record.after[i] ELSE mid
    BY <1>6
  <1> QED
    BY <1>2, <1>6, <1>7, <1>8 DEF new

\* A new record has no mid.
LEMMA FilledFacts ==
    ASSUME NEW request \in Requests, NEW price \in Nat, NEW mid \in Nat, NEW time \in Nat
    PROVE  LET record == Filled(request.side, price, request.size, mid, time)
           IN  record \in Fill /\ record.rows = << >> /\ DOMAIN record.after = {}
  <1>1. << >> \in Marks /\ DOMAIN << >> = {}
    BY DEF Marks
  <1>2. request.side \in {"buy", "sell"} /\ request.size \in Nat
    BY ReplayAssumption
  <1>3. << >> \in Seq([since : Int, mid : Nat])
    OBVIOUS
  <1> QED
    BY <1>1, <1>2, <1>3 DEF Filled, Fill

-----------------------------------------------------------------------------
(* The fills of a row, order by order.                                       *)

\* The state of the fills of a row: new records and the metrics.
FillRun == [pending : Seq(Fill), metrics : Metrics]

\* What one desired order does to a run: nothing, or one fill.
MayFill(new, run) ==
    /\ new \in FillRun
    /\ new.metrics.marked = run.metrics.marked /\ new.metrics.toxic = run.metrics.toxic
    /\ \/ new = run
       \/ /\ new.metrics.fills = run.metrics.fills + 1
          /\ \E record \in Fill : /\ new.pending = Append(run.pending, record)
                                  /\ record.rows = << >> /\ DOMAIN record.after = {}

\* Either nothing is filled, or one record is appended and one fill counted.
LEMMA SimulatedFacts ==
    ASSUME NEW run \in FillRun, NEW request \in Requests, NEW row \in Records, NEW time \in Nat
    PROVE  MayFill(Simulated(run, request, row, time), run)
  <1> DEFINE price == FillPrice(request, row)
             mid == MidOfRow(row)
             record == Filled(request.side, price, request.size, mid, time)
             new == Simulated(run, request, row, time)
             counted == WithFill(run.metrics, request)
  <1>1. /\ row.bid \in Nat /\ row.ask \in Nat /\ row.last \in Nat
        /\ request.size \in Nat /\ request.side \in {"buy", "sell"} /\ request.price \in Nat
    BY ReplayAssumption
  <1>2. price \in Nat /\ mid \in Nat
    BY <1>1 DEF FillPrice, MidOfRow
  <1>3. new = IF price = 0 THEN run
              ELSE [pending |-> Append(run.pending, record), metrics |-> counted]
    BY DEF Simulated
  <1>4. run.pending \in Seq(Fill) /\ run.metrics \in Metrics
    BY DEF FillRun
  <1>5. /\ counted \in Metrics /\ counted.fills = run.metrics.fills + 1
        /\ counted.marked = run.metrics.marked /\ counted.toxic = run.metrics.toxic
    <2> DEFINE held == run.metrics.inventory
                         + (IF request.side = "buy" THEN request.size ELSE -request.size)
               peak == IF Abs(held) > run.metrics.peak THEN Abs(held) ELSE run.metrics.peak
    <2>0. /\ run.metrics.inventory \in Int /\ run.metrics.peak \in Nat
          /\ run.metrics.fills \in Nat
      BY <1>4 DEF Metrics
    <2>1. held \in Int
      BY <1>1, <2>0
    <2>2. counted = [run.metrics EXCEPT !.fills = @ + 1, !.inventory = held, !.peak = peak]
      BY DEF WithFill
    <2>3. peak \in Nat
      <3> HIDE DEF held
      <3> QED
        BY <2>0, <2>1 DEF Abs
    <2> HIDE DEF held, peak, counted
    <2>4. counted.fills = run.metrics.fills + 1 /\ counted.marked = run.metrics.marked
          /\ counted.toxic = run.metrics.toxic
      BY <1>4, <2>2 DEF Metrics
    <2>5. counted \in Metrics
      <3>1. counted = [rows |-> run.metrics.rows, fills |-> run.metrics.fills + 1,
                       inventory |-> held, peak |-> peak,
                       marked |-> run.metrics.marked, toxic |-> run.metrics.toxic]
        BY <1>4, <2>2 DEF Metrics
      <3>2. /\ run.metrics.rows \in Nat /\ run.metrics.marked \in Nat
            /\ run.metrics.toxic \in Nat /\ run.metrics.fills + 1 \in Nat
        BY <1>4, <2>0 DEF Metrics
      <3> QED
        BY <2>1, <2>3, <3>1, <3>2 DEF Metrics
    <2> QED
      BY <2>4, <2>5
  <1>6. record \in Fill /\ record.rows = << >> /\ DOMAIN record.after = {}
    <2> HIDE DEF price, mid
    <2> QED
      BY <1>2, FilledFacts
  <1> HIDE DEF new, record, price, counted
  <1>7. CASE price = 0
    <2>1. new = run
      BY <1>3, <1>7
    <2> QED
      BY <2>1 DEF new, MayFill
  <1>8. CASE price # 0
    <2>1. new.pending = Append(run.pending, record) /\ new.metrics = counted
      BY <1>3, <1>8
    <2>2. new \in FillRun
      BY <1>3, <1>4, <1>5, <1>6, <1>8 DEF FillRun
    <2>3. MayFill(new, run)
      BY <1>5, <1>6, <2>1, <2>2 DEF MayFill
    <2> QED
      BY <2>3 DEF new
  <1> QED
    BY <1>7, <1>8

\* run[m] is the state after the first m desired orders.
IsFillRun(run, base, desired, row, time) ==
    /\ run[0] = base
    /\ \A m \in 1..Len(desired) : run[m] = Simulated(run[m - 1], desired[m], row, time)

\* The fold over the desired orders goes through such states.
LEMMA FillsRun ==
    ASSUME NEW base \in FillRun, NEW desired \in Seq(Requests), NEW row \in Records,
           NEW time \in Nat
    PROVE  \E run : /\ IsFillRun(run, base, desired, row, time)
                    /\ Fills(base, desired, row, time) = run[Len(desired)]
  <1> DEFINE n == Len(desired)
             step == [q \in FillRun \X (1..n) |-> Simulated(q[1], desired[q[2]], row, time)]
  <1>0. n \in Nat /\ DOMAIN desired = 1..n /\ \A i \in 1..n : desired[i] \in Requests
    OBVIOUS
  <1>2. step \in [FillRun \X (1..n) -> FillRun]
    BY <1>0, SimulatedFacts DEF MayFill
  <1>3. \A v \in FillRun, i \in 1..n : step[<<v, i>>] = Simulated(v, desired[i], row, time)
    OBVIOUS
  <1> HIDE DEF step, n
  <1>4. PICK it \in [SUBSET (1..n) -> FillRun] :
           \A T \in SUBSET (1..n) :
              it[T] = IF T = {} THEN base ELSE step[<<it[T \ {Max(T)}], Max(T)>>]
    <2>1. PICK it : IsLeftFold(it, n, FillRun, base, step)
      BY <1>0, <1>2, FoldLeftTable
    <2> QED
      BY <2>1 DEF IsLeftFold
  <1>5. it = [T \in SUBSET (1..n) |-> IF T = {} THEN base
                ELSE Simulated(it[T \ {Max(T)}], desired[Max(T)], row, time)]
    <2>1. \A T \in SUBSET (1..n) :
             it[T] = IF T = {} THEN base
                     ELSE Simulated(it[T \ {Max(T)}], desired[Max(T)], row, time)
      <3> TAKE T \in SUBSET (1..n)
      <3>1. it[T] = IF T = {} THEN base ELSE step[<<it[T \ {Max(T)}], Max(T)>>]
        BY <1>4
      <3>2. T # {} => Max(T) \in 1..n /\ it[T \ {Max(T)}] \in FillRun
        BY <1>0, <1>4, MaxFacts
      <3> QED
        BY <1>3, <3>1, <3>2
    <2> QED
      BY <1>4, <2>1
  <1> DEFINE jt == CHOOSE iter : iter = [T \in SUBSET (1..n) |-> IF T = {} THEN base
                     ELSE Simulated(iter[T \ {Max(T)}], desired[Max(T)], row, time)]
  <1>6. jt = [T \in SUBSET (1..n) |-> IF T = {} THEN base
                ELSE Simulated(jt[T \ {Max(T)}], desired[Max(T)], row, time)]
    BY <1>5
  <1>7. Fills(base, desired, row, time) = jt[1..n]
    BY <1>0 DEF Fills, FoldLeft, MapThenFoldSet
  <1> HIDE DEF jt
  <1>8. \A T \in SUBSET (1..n) :
           jt[T] = IF T = {} THEN base
                   ELSE Simulated(jt[T \ {Max(T)}], desired[Max(T)], row, time)
    BY <1>6
  <1> DEFINE run == [m \in 0..n |-> jt[1..m]]
  <1>9. run[0] = base
    <2>1. 1..0 = {} /\ {} \in SUBSET (1..n) /\ 0 \in 0..n
      BY <1>0
    <2> QED
      BY <1>8, <2>1
  <1>10. \A m \in 1..n : run[m] = Simulated(run[m - 1], desired[m], row, time)
    <2> TAKE m \in 1..n
    <2>1. 1..m # {} /\ 1..m \in SUBSET (1..n) /\ Max(1..m) = m /\ (1..m) \ {m} = 1..(m - 1)
      BY <1>0, PrefixSets, PrefixMax, PrefixLess
    <2>2. jt[1..m] = Simulated(jt[1..(m - 1)], desired[m], row, time)
      BY <1>8, <2>1
    <2>3. m \in 0..n /\ m - 1 \in 0..n
      BY <1>0
    <2> QED
      BY <2>2, <2>3
  <1>11. run[n] = jt[1..n]
    BY <1>0
  <1> HIDE DEF run
  <1>12. IsFillRun(run, base, desired, row, time) /\ jt[1..n] = run[Len(desired)]
    BY <1>9, <1>10, <1>11 DEF IsFillRun, n
  <1> QED
    BY <1>7, <1>12

-----------------------------------------------------------------------------
(* The markouts of a row, record by record.                                  *)

\* The state of the markouts of a row.
Run == [pending : Seq(Fill), detector : Detector, level : Levels, waited : Nat,
        metrics : Metrics]

\* A deque holds what is put into it.
LEMMA InDequeFacts ==
    ASSUME NEW S, NEW deque \in Seq(S), NEW x \in S
    PROVE  InDeque(deque, x) \in Seq(S)
  <1> DEFINE all == Append(deque, x)
  <1>1. all \in Seq(S) /\ Len(all) = Len(deque) + 1 /\ Len(deque) \in Nat
    OBVIOUS
  <1>2. all # << >>
    <2> HIDE DEF all
    <2> QED
      BY <1>1
  <1>3. InDeque(deque, x) = IF Len(all) > WindowFills THEN Tail(all) ELSE all
    BY DEF InDeque
  <1> HIDE DEF all
  <1> QED
    BY <1>1, <1>2, <1>3

\* The detector counts every record that it is given once.
LEMMA EvaluatedFacts ==
    ASSUME NEW detector0 \in Detector, NEW record \in Fill
    PROVE  LET d == Evaluated(detector0, record)
           IN  /\ d \in Detector /\ d.total = detector0.total + 1
               /\ d.toxic = detector0.toxic + IF IsToxic(detector0, record) THEN 1 ELSE 0
  <1> DEFINE sizes == SizesWith(detector0, record)
             toxic == detector0.toxic + IF IsToxic(detector0, record) THEN 1 ELSE 0
  <1>1. /\ detector0.sizes \in Seq(Nat) /\ detector0.toxic \in Nat /\ detector0.total \in Nat
        /\ record.size \in Nat
    BY DEF Detector, Fill
  <1>2. sizes \in Seq(Nat)
    BY <1>1, InDequeFacts DEF SizesWith
  <1>3. toxic \in Nat
    BY <1>1
  <1>4. Evaluated(detector0, record)
          = [sizes |-> sizes, toxic |-> toxic, total |-> detector0.total + 1]
    BY DEF Evaluated
  <1> HIDE DEF sizes
  <1> QED
    BY <1>1, <1>2, <1>3, <1>4 DEF Detector

\* The auto-recovery of the response never recovers anything: it asks for a share below the
\* one that has just set the level.
LEMMA RespondFacts ==
    ASSUME NEW level0 \in Levels, NEW waited0 \in Nat, NEW d \in Detector
    PROVE  /\ Respond(level0, waited0, d) = LevelOfRatio(level0, d)
           /\ LevelOfRatio(level0, d) \in Levels
           /\ WaitedSince(level0, waited0, d) \in Nat
  <1> DEFINE a == d.toxic * 100
             b == ElevatedPct * d.total
  <1>1. a \in Int /\ b \in Int
    BY MarkoutAssumption DEF Detector
  <1>2. Band(d.toxic, d.total) = "ELEVATED" => a >= b
    BY DEF Band
  <1>3. d.total \in Int /\ MinSamples \in Int
    BY MarkoutAssumption DEF Detector
  <1>5. d.total >= MinSamples => LevelOfRatio(level0, d) = Band(d.toxic, d.total)
    BY <1>3 DEF LevelOfRatio
  <1>4. ~(d.total >= MinSamples /\ LevelOfRatio(level0, d) = "ELEVATED" /\ a < b)
    <2> HIDE DEF a, b
    <2> QED
      BY <1>1, <1>2, <1>5
  <1>6. Respond(level0, waited0, d) = LevelOfRatio(level0, d)
    BY <1>4, Zenon DEF Respond
  <1> QED
    BY <1>6 DEF LevelOfRatio, Band, Levels, WaitedSince

\* What one record does to a run: its markout is recorded, or it stays pending.
Recorded(new, run) ==
    /\ new.pending = run.pending
    /\ new.metrics.marked = run.metrics.marked + 1
    /\ new.detector.total = run.detector.total + 1
    /\ \E more \in {0, 1} : /\ new.detector.toxic = run.detector.toxic + more
                            /\ new.metrics.toxic = run.metrics.toxic + more
    /\ new.level = LevelOfRatio(run.level, new.detector)

MayRecord(new, run, record) ==
    /\ new \in Run /\ new.metrics.fills = run.metrics.fills
    /\ \/ Recorded(new, run)
       \/ /\ new.pending = Append(run.pending, record)
          /\ ~Complete(record)
          /\ new.detector = run.detector /\ new.level = run.level
          /\ new.metrics = run.metrics

\* A record is recorded or stays pending, and not both.
LEMMA StillPendingFacts ==
    ASSUME NEW run \in Run, NEW record \in Fill
    PROVE  MayRecord(StillPending(run, record), run, record)
  <1> DEFINE new == StillPending(run, record)
             d == Evaluated(run.detector, record)
             more == IF IsToxic(run.detector, record) THEN 1 ELSE 0
             counted == [run.metrics EXCEPT !.marked = @ + 1, !.toxic = @ + more]
             level1 == Respond(run.level, run.waited, d)
             waited1 == WaitedSince(run.level, run.waited, d)
  <1>1. /\ run.pending \in Seq(Fill) /\ run.detector \in Detector /\ run.level \in Levels
        /\ run.waited \in Nat /\ run.metrics \in Metrics
    BY DEF Run
  <1>2. d \in Detector /\ d.total = run.detector.total + 1 /\ d.toxic = run.detector.toxic + more
    BY <1>1, EvaluatedFacts
  <1>3. more \in {0, 1}
    OBVIOUS
  <1>4. CASE Complete(record)
    <2>1. new = [run EXCEPT !.detector = d, !.level = level1, !.waited = waited1,
                            !.metrics = counted]
      BY <1>4, Zenon DEF StillPending, Process
    <2>0. counted = [run.metrics EXCEPT !.marked = @ + 1, !.toxic = @ + more]
      OBVIOUS
    <2> HIDE DEF more, d, counted
    <2>2. counted \in Metrics /\ counted.fills = run.metrics.fills
          /\ counted.marked = run.metrics.marked + 1
          /\ counted.toxic = run.metrics.toxic + more
      <3>1. /\ run.metrics.rows \in Nat /\ run.metrics.fills \in Nat
            /\ run.metrics.inventory \in Int /\ run.metrics.peak \in Nat
            /\ run.metrics.marked + 1 \in Nat /\ run.metrics.toxic + more \in Nat
        BY <1>1, <1>3 DEF Metrics
      <3>2. counted = [rows |-> run.metrics.rows, fills |-> run.metrics.fills,
                       inventory |-> run.metrics.inventory, peak |-> run.metrics.peak,
                       marked |-> run.metrics.marked + 1, toxic |-> run.metrics.toxic + more]
        BY <1>1, <2>0 DEF Metrics
      <3> QED
        BY <3>1, <3>2 DEF Metrics
    <2>3. level1 \in Levels /\ waited1 \in Nat /\ level1 = LevelOfRatio(run.level, d)
      BY <1>1, <1>2, RespondFacts
    <2> HIDE DEF counted, level1, waited1, new
    <2>4. /\ new.pending = run.pending /\ new.detector = d /\ new.level = level1
          /\ new.metrics = counted
      BY <2>1 DEF Run
    <2>5. new \in Run
      BY <1>1, <1>2, <2>1, <2>2, <2>3 DEF Run
    <2>6. Recorded(new, run)
      BY <1>2, <1>3, <2>2, <2>3, <2>4 DEF Recorded
    <2>7. MayRecord(new, run, record)
      BY <2>2, <2>4, <2>5, <2>6 DEF MayRecord
    <2> QED
      BY <2>7 DEF new
  <1>5. CASE ~Complete(record)
    <2>1. new = [run EXCEPT !.pending = Append(@, record)]
      BY <1>5 DEF StillPending
    <2>2. Append(run.pending, record) \in Seq(Fill)
      BY <1>1
    <2> HIDE DEF new
    <2>3. /\ new \in Run /\ new.pending = Append(run.pending, record)
          /\ new.detector = run.detector /\ new.level = run.level
          /\ new.metrics = run.metrics
      BY <1>1, <2>1, <2>2 DEF Run
    <2>4. MayRecord(new, run, record)
      BY <1>5, <2>3 DEF MayRecord
    <2> QED
      BY <2>4 DEF new
  <1> QED
    BY <1>4, <1>5

\* run[m] is the state after the first m records.
IsMarkRun(run, base, updated) ==
    /\ run[0] = base
    /\ \A m \in 1..Len(updated) : run[m] = StillPending(run[m - 1], updated[m])

\* The fold over the records goes through such states.
LEMMA MarksRun ==
    ASSUME NEW base \in Run, NEW updated \in Seq(Fill)
    PROVE  \E run : /\ IsMarkRun(run, base, updated)
                    /\ FoldLeft(StillPending, base, updated) = run[Len(updated)]
  <1> DEFINE n == Len(updated)
             step == [q \in Run \X (1..n) |-> StillPending(q[1], updated[q[2]])]
  <1>0. n \in Nat /\ DOMAIN updated = 1..n /\ \A i \in 1..n : updated[i] \in Fill
    OBVIOUS
  <1>2. step \in [Run \X (1..n) -> Run]
    BY <1>0, StillPendingFacts DEF MayRecord
  <1>3. \A v \in Run, i \in 1..n : step[<<v, i>>] = StillPending(v, updated[i])
    OBVIOUS
  <1> HIDE DEF step, n
  <1>4. PICK it \in [SUBSET (1..n) -> Run] :
           \A T \in SUBSET (1..n) :
              it[T] = IF T = {} THEN base ELSE step[<<it[T \ {Max(T)}], Max(T)>>]
    <2>1. PICK it : IsLeftFold(it, n, Run, base, step)
      BY <1>0, <1>2, FoldLeftTable
    <2> QED
      BY <2>1 DEF IsLeftFold
  <1>5. it = [T \in SUBSET (1..n) |-> IF T = {} THEN base
                ELSE StillPending(it[T \ {Max(T)}], updated[Max(T)])]
    <2>1. \A T \in SUBSET (1..n) :
             it[T] = IF T = {} THEN base
                     ELSE StillPending(it[T \ {Max(T)}], updated[Max(T)])
      <3> TAKE T \in SUBSET (1..n)
      <3>1. it[T] = IF T = {} THEN base ELSE step[<<it[T \ {Max(T)}], Max(T)>>]
        BY <1>4
      <3>2. T # {} => Max(T) \in 1..n /\ it[T \ {Max(T)}] \in Run
        BY <1>0, <1>4, MaxFacts
      <3> QED
        BY <1>3, <3>1, <3>2
    <2> QED
      BY <1>4, <2>1
  <1> DEFINE jt == CHOOSE iter : iter = [T \in SUBSET (1..n) |-> IF T = {} THEN base
                     ELSE StillPending(iter[T \ {Max(T)}], updated[Max(T)])]
  <1>6. jt = [T \in SUBSET (1..n) |-> IF T = {} THEN base
                ELSE StillPending(jt[T \ {Max(T)}], updated[Max(T)])]
    BY <1>5
  <1>7. FoldLeft(StillPending, base, updated) = jt[1..n]
    BY <1>0 DEF FoldLeft, MapThenFoldSet
  <1> HIDE DEF jt
  <1>8. \A T \in SUBSET (1..n) :
           jt[T] = IF T = {} THEN base
                   ELSE StillPending(jt[T \ {Max(T)}], updated[Max(T)])
    BY <1>6
  <1> DEFINE run == [m \in 0..n |-> jt[1..m]]
  <1>9. run[0] = base
    <2>1. 1..0 = {} /\ {} \in SUBSET (1..n) /\ 0 \in 0..n
      BY <1>0
    <2> QED
      BY <1>8, <2>1
  <1>10. \A m \in 1..n : run[m] = StillPending(run[m - 1], updated[m])
    <2> TAKE m \in 1..n
    <2>1. 1..m # {} /\ 1..m \in SUBSET (1..n) /\ Max(1..m) = m /\ (1..m) \ {m} = 1..(m - 1)
      BY <1>0, PrefixSets, PrefixMax, PrefixLess
    <2>2. jt[1..m] = StillPending(jt[1..(m - 1)], updated[m])
      BY <1>8, <2>1
    <2>3. m \in 0..n /\ m - 1 \in 0..n
      BY <1>0
    <2> QED
      BY <2>2, <2>3
  <1>11. run[n] = jt[1..n]
    BY <1>0
  <1> HIDE DEF run
  <1>12. IsMarkRun(run, base, updated) /\ FoldLeft(StillPending, base, updated) = run[n]
    BY <1>7, <1>9, <1>10, <1>11 DEF IsMarkRun, n
  <1> QED
    BY <1>12 DEF n

\* What a run may take over from the one before it.
Carried == [pending : Nat, marked : Nat, toxic : Nat]

\* The detector and the metrics agree, and the level is that of the share.
InStep(detector0, level0, metrics0) ==
    /\ detector0.total = carried.marked + metrics0.marked
    /\ detector0.toxic = carried.toxic + metrics0.toxic
    /\ level0 = IF detector0.total < MinSamples \/ detector0.total = 0 THEN "NORMAL"
                ELSE Band(detector0.toxic, detector0.total)

\* At its end as many records are gone as markouts were recorded, the others are as they
\* were, and the level is that of the share.
LEMMA MarksEnd ==
    ASSUME NEW base \in Run, base.pending = << >>, carried \in Carried,
           InStep(base.detector, base.level, base.metrics), NEW updated \in Seq(Fill)
    PROVE  LET end == FoldLeft(StillPending, base, updated)
           IN  /\ end \in Run /\ end.metrics.fills = base.metrics.fills
               /\ Len(end.pending) + end.metrics.marked = Len(updated) + base.metrics.marked
               /\ InStep(end.detector, end.level, end.metrics)
               /\ \A i \in 1..Len(end.pending) :
                     \E j \in 1..Len(updated) :
                        end.pending[i] = updated[j] /\ ~Complete(end.pending[i])
  <1> DEFINE n == Len(updated)
             Left(record) == \E j \in 1..n : record = updated[j] /\ ~Complete(record)
             Good(r, m) ==
               /\ r \in Run /\ r.metrics.fills = base.metrics.fills
               /\ Len(r.pending) + r.metrics.marked = m + base.metrics.marked
               /\ InStep(r.detector, r.level, r.metrics)
               /\ \A i \in 1..Len(r.pending) : Left(r.pending[i])
  <1>1. n \in Nat /\ \A i \in 1..n : updated[i] \in Fill
    OBVIOUS
  <1>2. PICK run : IsMarkRun(run, base, updated)
                     /\ FoldLeft(StillPending, base, updated) = run[n]
    BY MarksRun
  <1>3. run[0] = base /\ \A m \in 1..n : run[m] = StillPending(run[m - 1], updated[m])
    BY <1>2 DEF IsMarkRun
  <1> HIDE DEF n
  <1>4. Good(run[0], 0)
    <2>1. Len(base.pending) = 0 /\ base.metrics.marked \in Nat
      BY DEF Run, Metrics
    <2> QED
      BY <1>3, <2>1
  <1>5. ASSUME NEW m \in 1..n, Good(run[m - 1], m - 1)
        PROVE  Good(run[m], m)
    <2> DEFINE r == run[m - 1]
               x == updated[m]
               s == run[m]
    <2>1. r \in Run /\ x \in Fill /\ s = StillPending(r, x)
      BY <1>1, <1>3, <1>5
    <2>3. /\ Len(r.pending) + r.metrics.marked = (m - 1) + base.metrics.marked
          /\ InStep(r.detector, r.level, r.metrics)
          /\ r.metrics.fills = base.metrics.fills
          /\ \A i \in 1..Len(r.pending) : Left(r.pending[i])
      BY <1>5
    <2>13. Len(r.pending) + r.metrics.marked = (m - 1) + base.metrics.marked
      BY <2>3
    <2> HIDE DEF r, x, s
    <2>2. r.pending \in Seq(Fill) /\ r.metrics \in Metrics /\ r.detector \in Detector
      BY <2>1 DEF Run
    <2>11. /\ Len(r.pending) \in Nat /\ r.metrics.marked \in Nat /\ r.metrics.toxic \in Nat
          /\ r.detector.total \in Nat /\ r.detector.toxic \in Nat
      <3>1. Len(r.pending) \in Nat
        BY <2>2
      <3>2. r.metrics.marked \in Nat /\ r.metrics.toxic \in Nat
        BY <2>2 DEF Metrics
      <3>3. r.detector.total \in Nat /\ r.detector.toxic \in Nat
        BY <2>2 DEF Detector
      <3> QED
        BY <3>1, <3>2, <3>3
    <2>12. base.metrics.marked \in Nat /\ m \in Int
      BY <1>1 DEF Run, Metrics
    <2>14. /\ (Len(r.pending) + 1) + r.metrics.marked = m + base.metrics.marked
           /\ Len(r.pending) + (r.metrics.marked + 1) = m + base.metrics.marked
      <3>1. Len(r.pending) \in Int /\ r.metrics.marked \in Int /\ base.metrics.marked \in Int
        BY <2>11, <2>12
      <3> QED
        <4> DEFINE a == Len(r.pending)
                   b == r.metrics.marked
                   c == base.metrics.marked
        <4>1. a \in Int /\ b \in Int /\ c \in Int /\ m \in Int
          BY <2>12, <3>1
        <4>2. a + b = (m - 1) + c
          BY <2>13
        <4> HIDE DEF a, b, c
        <4>3. (a + 1) + b = m + c
          BY <4>1, <4>2
        <4>4. a + (b + 1) = m + c
          BY <4>1, <4>2
        <4> QED
          BY <4>3, <4>4 DEF a, b, c
    <2>4. MayRecord(s, r, x)
      BY <2>1, StillPendingFacts
    <2>5. CASE Recorded(s, r)
      <3>0. /\ s.pending = r.pending /\ s.metrics.marked = r.metrics.marked + 1
            /\ s.detector.total = r.detector.total + 1
            /\ s.level = LevelOfRatio(r.level, s.detector)
        BY <2>5 DEF Recorded
      <3>1. Len(s.pending) + s.metrics.marked = m + base.metrics.marked
        <4>1. Len(s.pending) = Len(r.pending)
          BY <3>0
        <4>2. s.metrics.marked = r.metrics.marked + 1
          BY <3>0
        <4> QED
          BY <2>14, <4>1, <4>2
      <3>2. PICK more \in {0, 1} : /\ s.detector.toxic = r.detector.toxic + more
                                   /\ s.metrics.toxic = r.metrics.toxic + more
        BY <2>5 DEF Recorded
      <3>3. /\ r.detector.total = carried.marked + r.metrics.marked
            /\ r.detector.toxic = carried.toxic + r.metrics.toxic
            /\ r.detector.total < MinSamples \/ r.detector.total = 0 => r.level = "NORMAL"
        BY <2>3 DEF InStep
      <3>4. s.level = IF s.detector.total < MinSamples \/ s.detector.total = 0 THEN "NORMAL"
                      ELSE Band(s.detector.toxic, s.detector.total)
        <4>1. /\ s.detector.total < MinSamples => r.detector.total < MinSamples
              /\ s.detector.total # 0
          BY <2>11, <3>0, MarkoutAssumption
        <4> QED
          BY <3>0, <3>3, <4>1 DEF LevelOfRatio
      <3>7. carried.marked \in Nat /\ carried.toxic \in Nat
        BY DEF Carried
      <3>8. s.detector.total = carried.marked + s.metrics.marked
        BY <2>11, <3>0, <3>3, <3>7
      <3>9. s.detector.toxic = carried.toxic + s.metrics.toxic
        BY <2>11, <3>2, <3>3, <3>7
      <3>5. InStep(s.detector, s.level, s.metrics)
        BY <3>4, <3>8, <3>9 DEF InStep
      <3>6. \A i \in 1..Len(s.pending) : Left(s.pending[i])
        BY <2>3, <3>0
      <3> QED
        BY <2>3, <2>4, <3>1, <3>5, <3>6 DEF s, MayRecord
    <2>6. CASE ~Recorded(s, r)
      <3>1. /\ s.pending = Append(r.pending, x) /\ s.metrics = r.metrics /\ ~Complete(x)
            /\ s.detector = r.detector /\ s.level = r.level
        BY <2>4, <2>6 DEF MayRecord
      <3>2. /\ Len(s.pending) = Len(r.pending) + 1
            /\ \A i \in 1..Len(r.pending) : s.pending[i] = r.pending[i]
            /\ s.pending[Len(r.pending) + 1] = updated[m]
        BY <2>1, <2>2, <3>1 DEF x
      <3>5. Left(updated[m])
        BY <3>1 DEF x
      <3>3. \A i \in 1..Len(s.pending) : Left(s.pending[i])
        <4> TAKE i \in 1..Len(s.pending)
        <4>1. CASE i \in 1..Len(r.pending)
          BY <2>3, <3>2, <4>1
        <4>2. CASE i \notin 1..Len(r.pending)
          <5>1. i = Len(r.pending) + 1
            BY <2>11, <3>2, <4>2
          <5> QED
            BY <3>2, <3>5, <5>1
        <4> QED
          BY <4>1, <4>2
      <3>4. Len(s.pending) + s.metrics.marked = m + base.metrics.marked
        <4>1. Len(s.pending) = Len(r.pending) + 1
          BY <3>2
        <4>2. s.metrics.marked = r.metrics.marked
          BY <3>1
        <4> QED
          BY <2>14, <4>1, <4>2
      <3> QED
        BY <2>3, <2>4, <3>1, <3>3, <3>4 DEF s, MayRecord
    <2> QED
      BY <2>5, <2>6
  <1> HIDE DEF Good
  <1> DEFINE G == {m \in 0..n : Good(run[m], m)}
  <1>6. 0 \in G
    BY <1>1, <1>4
  <1>7. \A m \in 1..n : m - 1 \in G => m \in G
    <2> TAKE m \in 1..n
    <2>1. m \in 0..n
      BY <1>1
    <2> QED
      BY <1>5, <2>1
  <1>8. \A m \in 0..n : m \in G
    <2> HIDE DEF G
    <2> QED
      BY <1>1, <1>6, <1>7, UpTo
  <1>9. n \in 0..n
    BY <1>1
  <1>10. Good(run[n], n)
    BY <1>8, <1>9
  <1>11. Good(FoldLeft(StillPending, base, updated), n)
    <2> DEFINE end == FoldLeft(StillPending, base, updated)
    <2>1. end = run[n]
      BY <1>2
    <2> HIDE DEF end
    <2>2. Good(end, n)
      BY <1>10, <2>1
    <2> QED
      BY <2>2 DEF end
  <1> QED
    BY <1>11, Zenon DEF Good, Left, n

\* The records of a row's fills have seen no row yet.
AllNew(records) ==
    \A i \in 1..Len(records) : records[i].rows = << >> /\ DOMAIN records[i].after = {}

\* At the end of the fills there is a new record for every fill that was counted.
LEMMA FillsEnd ==
    ASSUME NEW base \in FillRun, base.pending = << >>,
           NEW desired \in Seq(Requests), NEW row \in Records, NEW time \in Nat
    PROVE  LET end == Fills(base, desired, row, time)
           IN  /\ end \in FillRun
               /\ end.metrics.marked = base.metrics.marked
               /\ end.metrics.toxic = base.metrics.toxic
               /\ end.metrics.fills = base.metrics.fills + Len(end.pending)
               /\ AllNew(end.pending)
  <1> DEFINE n == Len(desired)
             Good(r) ==
               /\ r \in FillRun
               /\ r.metrics.marked = base.metrics.marked
               /\ r.metrics.toxic = base.metrics.toxic
               /\ r.metrics.fills = base.metrics.fills + Len(r.pending)
               /\ AllNew(r.pending)
  <1>1. n \in Nat /\ \A i \in 1..n : desired[i] \in Requests
    OBVIOUS
  <1>2. PICK run : IsFillRun(run, base, desired, row, time)
                     /\ Fills(base, desired, row, time) = run[n]
    BY FillsRun
  <1>3. run[0] = base /\ \A m \in 1..n : run[m] = Simulated(run[m - 1], desired[m], row, time)
    BY <1>2 DEF IsFillRun
  <1> HIDE DEF n
  <1>4. Good(run[0])
    <2>1. Len(base.pending) = 0 /\ base.metrics.fills \in Nat
      BY DEF FillRun, Metrics
    <2> QED
      BY <1>3, <2>1 DEF AllNew
  <1>5. ASSUME NEW m \in 1..n, Good(run[m - 1])
        PROVE  Good(run[m])
    <2> DEFINE r == run[m - 1]
               s == run[m]
    <2>1. r \in FillRun /\ desired[m] \in Requests /\ s = Simulated(r, desired[m], row, time)
      BY <1>1, <1>3, <1>5
    <2>2. /\ r.metrics.fills = base.metrics.fills + Len(r.pending)
          /\ r.metrics.marked = base.metrics.marked /\ r.metrics.toxic = base.metrics.toxic
          /\ AllNew(r.pending)
      BY <1>5
    <2>3. r.pending \in Seq(Fill) /\ base.metrics.fills \in Nat
      BY <2>1 DEF FillRun, Metrics
    <2> HIDE DEF r, s
    <2>4. /\ s \in FillRun
          /\ s.metrics.marked = r.metrics.marked /\ s.metrics.toxic = r.metrics.toxic
          /\ \/ s = r
             \/ /\ s.metrics.fills = r.metrics.fills + 1
                /\ \E record \in Fill : /\ s.pending = Append(r.pending, record)
                                        /\ record.rows = << >> /\ DOMAIN record.after = {}
      <3>1. MayFill(s, r)
        BY <2>1, SimulatedFacts
      <3> QED
        BY <3>1, Zenon DEF MayFill
    <2>5. CASE s = r
      BY <2>2, <2>4, <2>5 DEF s
    <2>6. CASE s # r
      <3>1. PICK record \in Fill : /\ s.pending = Append(r.pending, record)
                                   /\ record.rows = << >> /\ DOMAIN record.after = {}
        BY <2>4, <2>6
      <3>2. /\ Len(s.pending) = Len(r.pending) + 1
            /\ \A i \in 1..Len(r.pending) : s.pending[i] = r.pending[i]
            /\ s.pending[Len(r.pending) + 1] = record
        BY <2>3, <3>1
      <3>3. AllNew(s.pending)
        <4> SUFFICES \A i \in 1..Len(s.pending) :
                        s.pending[i].rows = << >> /\ DOMAIN s.pending[i].after = {}
          BY DEF AllNew
        <4> TAKE i \in 1..Len(s.pending)
        <4>1. CASE i \in 1..Len(r.pending)
          BY <2>2, <3>2, <4>1 DEF AllNew
        <4>2. CASE i \notin 1..Len(r.pending)
          <5>1. i = Len(r.pending) + 1
            BY <2>3, <3>2, <4>2
          <5> QED
            BY <3>1, <3>2, <5>1
        <4> QED
          BY <4>1, <4>2
      <3>4. s.metrics.fills = base.metrics.fills + Len(s.pending)
        <4> DEFINE a == base.metrics.fills
                   b == Len(r.pending)
        <4>1. a \in Nat /\ b \in Nat
          BY <2>3
        <4>2. s.metrics.fills = (a + b) + 1 /\ Len(s.pending) = b + 1
          BY <2>2, <2>4, <2>6, <3>2
        <4> HIDE DEF a, b
        <4>3. (a + b) + 1 = a + (b + 1)
          BY ONLY <4>1
        <4> QED
          BY <4>2, <4>3 DEF a
      <3> QED
        BY <2>2, <2>4, <3>3, <3>4 DEF s
    <2> QED
      BY <2>5, <2>6
  <1> HIDE DEF Good
  <1> DEFINE G == {m \in 0..n : Good(run[m])}
  <1>6. 0 \in G
    BY <1>1, <1>4
  <1>7. \A m \in 1..n : m - 1 \in G => m \in G
    <2> TAKE m \in 1..n
    <2>1. m \in 0..n
      BY <1>1
    <2> QED
      BY <1>5, <2>1
  <1>8. \A m \in 0..n : m \in G
    <2> HIDE DEF G
    <2> QED
      BY <1>1, <1>6, <1>7, UpTo
  <1>9. n \in 0..n
    BY <1>1
  <1>10. Good(Fills(base, desired, row, time))
    BY <1>2, <1>8, <1>9
  <1> QED
    BY <1>10, Zenon DEF Good

-----------------------------------------------------------------------------
(* The mids of a record                                                      *)

\* The least element of a set is the one that is chosen.
LEMMA LeastChosen ==
    ASSUME NEW S, S \subseteq Nat, NEW m \in S, \A u \in S : m <= u
    PROVE  (CHOOSE t \in S : \A u \in S : t <= u) = m
  <1>1. \A t \in S : (\A u \in S : t <= u) => t = m
    <2> TAKE t \in S
    <2> HAVE \A u \in S : t <= u
    <2>1. t <= m /\ m <= t /\ t \in Nat /\ m \in Nat
      OBVIOUS
    <2> QED
      BY <2>1
  <1> QED
    BY <1>1

\* The rows from the interval on.
Late(record, i) == {n \in DOMAIN record.rows : record.rows[n].since >= i}

\* A row keeps the mids of a record right: those it had, and those that become due.
LEMMA TimelyStep ==
    ASSUME NEW record \in Fill, Timely(record), NEW mid \in Nat, NEW time \in Nat
    PROVE  Timely(WithMid(record, mid, time))
  <1> DEFINE new == WithMid(record, mid, time)
             k == Len(record.rows)
             since == time - record.at
  <1>1. /\ new \in Fill /\ new.at = record.at
        /\ DOMAIN new.after = DOMAIN record.after \cup {i \in Intervals : since >= i}
        /\ \A i \in DOMAIN record.after : new.after[i] = record.after[i]
        /\ \A i \in DOMAIN new.after \ DOMAIN record.after : new.after[i] = mid
        /\ new.rows = Append(record.rows, [since |-> since, mid |-> mid])
    BY WithMidFacts
  <1>2. record.rows \in Seq([since : Int, mid : Nat]) /\ k \in Nat /\ since \in Int
    BY DEF Fill
  <1>3. /\ DOMAIN record.rows = 1..k /\ DOMAIN new.rows = 1..(k + 1)
        /\ \A n \in 1..k : new.rows[n] = record.rows[n]
        /\ new.rows[k + 1] = [since |-> since, mid |-> mid]
    BY <1>1, <1>2
  <1> HIDE DEF new, k, since
  <1>4. ASSUME NEW i \in Intervals
        PROVE  IF Late(new, i) = {} THEN i \notin DOMAIN new.after
               ELSE i \in DOMAIN new.after /\ new.after[i] = new.rows[Min(Late(new, i))].mid
    <2> DEFINE S == Late(record, i)
               T == Late(new, i)
    <2>2. S \subseteq 1..k
      BY <1>3 DEF Late
    <2>3. T = IF since >= i THEN S \cup {k + 1} ELSE S
      <3>1. new.rows[k + 1].since = since
        BY <1>3
      <3>2. \A n \in 1..(k + 1) : n \in 1..k \/ n = k + 1
        BY <1>2
      <3>3. 1..k \subseteq 1..(k + 1) /\ k + 1 \in 1..(k + 1)
        BY <1>2
      <3>4. \A n \in 1..k : new.rows[n].since = record.rows[n].since
        BY <1>3
      <3> QED
        BY <1>3, <3>1, <3>2, <3>3, <3>4 DEF Late
    <2>4. IF S = {} THEN i \notin DOMAIN record.after
          ELSE i \in DOMAIN record.after /\ record.after[i] = record.rows[Min(S)].mid
      BY Zenon DEF Timely, Late
    <2> HIDE DEF S, T
    <2>5. S \in SUBSET Nat /\ T \subseteq Nat
      BY <1>2, <2>2, <2>3
    <2>6. CASE S # {}
      <3>1. PICK t \in S : \A u \in S : t <= u
        BY <2>5, <2>6, LeastNat
      <3>2. Min(S) = t
        BY <2>5, <3>1, LeastChosen DEF Min
      <3>3. t \in T /\ \A u \in T : t <= u
        <4>1. t \in 1..k /\ t <= k + 1
          BY <1>2, <2>2, <3>1
        <4> QED
          BY <2>3, <3>1, <4>1
      <3>4. Min(T) = t
        BY <2>5, <3>3, LeastChosen DEF Min
      <3>5. new.rows[t] = record.rows[t]
        BY <1>3, <2>2
      <3>6. i \in DOMAIN new.after /\ new.after[i] = new.rows[t].mid
        BY <1>1, <2>4, <2>6, <3>2, <3>5
      <3> QED
        BY <3>3, <3>4, <3>6 DEF T
    <2>7. CASE S = {} /\ since >= i
      <3>1. T = {k + 1}
        BY <2>3, <2>7
      <3>2. Min(T) = k + 1
        BY <3>1 DEF Min
      <3>5. i \in DOMAIN new.after \ DOMAIN record.after
        BY <1>1, <2>4, <2>7
      <3>6. new.rows[k + 1].mid = mid
        BY <1>3
      <3>3. i \in DOMAIN new.after /\ new.after[i] = new.rows[k + 1].mid
        BY <1>1, <3>5, <3>6
      <3>4. Late(new, i) # {} /\ Min(Late(new, i)) = k + 1
        BY <3>1, <3>2 DEF T
      <3> QED
        BY <3>3, <3>4
    <2>8. CASE S = {} /\ ~(since >= i)
      <3>1. T = {} /\ i \notin DOMAIN new.after
        BY <1>1, <2>3, <2>4, <2>8
      <3> QED
        BY <3>1 DEF T
    <2> QED
      BY <2>6, <2>7, <2>8
  <1>5. Timely(new)
    BY <1>4, Zenon DEF Timely, Late
  <1> QED
    BY <1>5 DEF new

\* They are right for a record made by the row.
LEMMA TimelyNew ==
    ASSUME NEW record, record.rows = << >>, DOMAIN record.after = {}
    PROVE  Timely(record)
  <1>1. \A i \in Intervals : {n \in DOMAIN record.rows : record.rows[n].since >= i} = {}
    OBVIOUS
  <1> QED
    BY <1>1, Zenon DEF Timely

-----------------------------------------------------------------------------
(* The invariant of a replay                                                 *)

ReplayTypes ==
    /\ now \in Nat /\ pending \in Seq(Fill) /\ detector \in Detector /\ level \in Levels
    /\ waited \in Nat /\ metrics \in Metrics /\ carried \in Carried

\* The inductive invariant: the properties, which need one another only for the level.
ReplayInv ==
    /\ ReplayTypes
    /\ FillsAccounted
    /\ LevelFollowsRatio
    /\ MidsTimely

\* The invariant holds of an engine that is new.
LEMMA ReplayStarts == ReplayInit => ReplayInv
  <1> SUFFICES ASSUME now = 0, pending = << >>, detector = NewDetector, level = "NORMAL",
                      metrics = NewMetrics, waited = ResponseCooldown + 1, graded = {},
                      carried = [pending |-> 0, marked |-> 0, toxic |-> 0]
               PROVE  ReplayInv
    BY DEF ReplayInit
  <1>1. /\ detector = [sizes |-> << >>, toxic |-> 0, total |-> 0]
        /\ metrics = [rows |-> 0, fills |-> 0, inventory |-> 0, peak |-> 0,
                      marked |-> 0, toxic |-> 0]
    BY DEF NewDetector, NewMetrics
  <1>2. ReplayTypes
    BY <1>1, MarkoutAssumption DEF ReplayTypes, Detector, Metrics, Levels, Carried
  <1>3. FillsAccounted
    BY <1>1 DEF FillsAccounted
  <1>4. LevelFollowsRatio
    BY <1>1, MarkoutAssumption DEF LevelFollowsRatio, Band
  <1>5. MidsTimely
    BY DEF MidsTimely
  <1> QED
    BY <1>2, <1>3, <1>4, <1>5 DEF ReplayInv

\* One row of the data keeps the invariant.
LEMMA RowKeeps ==
    ASSUME ReplayInv, NEW row \in Records, NEW gap \in Gaps,
           NEW desired \in BoundedSeq(Requests, MaxDesired),
           ProcessSnapshot(row, gap, desired), carried' = carried
    PROVE  ReplayInv'
  <1> DEFINE time == now + gap
             mid == MidOfRow(row)
             updated == [i \in DOMAIN pending |-> WithMid(pending[i], mid, time)]
             counted == [metrics EXCEPT !.rows = @ + 1]
             first == [pending |-> << >>, metrics |-> counted]
             filled == Fills(first, desired, row, time)
             base == [pending |-> << >>, detector |-> detector, level |-> level,
                      waited |-> waited, metrics |-> filled.metrics]
             run == FoldLeft(StillPending, base, updated)
  <1>1. /\ now' = time /\ pending' = run.pending \o filled.pending
        /\ detector' = run.detector /\ level' = run.level /\ metrics' = run.metrics
        /\ waited' = run.waited
        /\ graded' = {record \in {updated[i] : i \in DOMAIN updated} : Complete(record)}
    BY Zenon DEF ProcessSnapshot
  <1>2. /\ now \in Nat /\ pending \in Seq(Fill) /\ detector \in Detector /\ level \in Levels
        /\ waited \in Nat /\ metrics \in Metrics /\ carried \in Carried
    BY DEF ReplayInv, ReplayTypes
  <1>3. time \in Nat
    BY <1>2, ReplayAssumption
  <1>4. mid \in Nat
    BY ReplayAssumption DEF MidOfRow
  <1>5. desired \in Seq(Requests)
    BY DEF BoundedSeq, SeqOf
  <1>6. first \in FillRun /\ first.pending = << >> /\ first.metrics = counted
        /\ counted.marked = metrics.marked /\ counted.toxic = metrics.toxic
        /\ counted.fills = metrics.fills
    <2>1. counted = [rows |-> metrics.rows + 1, fills |-> metrics.fills,
                     inventory |-> metrics.inventory, peak |-> metrics.peak,
                     marked |-> metrics.marked, toxic |-> metrics.toxic]
      BY <1>2 DEF Metrics
    <2>2. metrics.rows + 1 \in Nat
      BY <1>2 DEF Metrics
    <2> HIDE DEF counted
    <2>3. counted \in Metrics /\ counted.marked = metrics.marked
          /\ counted.toxic = metrics.toxic /\ counted.fills = metrics.fills
      BY <1>2, <2>1, <2>2 DEF Metrics
    <2>4. << >> \in Seq(Fill)
      OBVIOUS
    <2> QED
      BY <2>3, <2>4 DEF FillRun
  <1>7. updated \in Seq(Fill) /\ Len(updated) = Len(pending)
        /\ \A i \in 1..Len(pending) : updated[i] = WithMid(pending[i], mid, time)
    <2> HIDE DEF mid, time
    <2>1. DOMAIN pending = 1..Len(pending) /\ Len(pending) \in Nat
      BY <1>2
    <2>2. \A i \in 1..Len(pending) : WithMid(pending[i], mid, time) \in Fill
      <3> TAKE i \in 1..Len(pending)
      <3>1. pending[i] \in Fill
        BY <1>2
      <3> QED
        BY <1>3, <1>4, <3>1, WithMidFacts
    <2> QED
      BY <2>1, <2>2
  <1> HIDE DEF time, mid, updated, counted, first, filled, base, run
  <1>8. /\ filled \in FillRun
        /\ filled.metrics.marked = metrics.marked /\ filled.metrics.toxic = metrics.toxic
        /\ filled.metrics.fills = metrics.fills + Len(filled.pending)
        /\ AllNew(filled.pending)
    <2>1. /\ filled \in FillRun
          /\ filled.metrics.marked = first.metrics.marked
          /\ filled.metrics.toxic = first.metrics.toxic
          /\ filled.metrics.fills = first.metrics.fills + Len(filled.pending)
          /\ AllNew(filled.pending)
      BY <1>3, <1>5, <1>6, FillsEnd DEF filled
    <2> QED
      BY <1>6, <2>1
  <1>9. /\ base \in Run /\ base.pending = << >> /\ base.metrics = filled.metrics
        /\ InStep(base.detector, base.level, base.metrics)
    <2>1. filled.metrics \in Metrics /\ << >> \in Seq(Fill)
      BY <1>8 DEF FillRun
    <2>2. /\ base \in Run /\ base.pending = << >> /\ base.metrics = filled.metrics
          /\ base.detector = detector /\ base.level = level
      BY <1>2, <2>1 DEF base, Run
    <2>3. /\ detector.total = carried.marked + metrics.marked
          /\ detector.toxic = carried.toxic + metrics.toxic
          /\ level = IF detector.total < MinSamples \/ detector.total = 0 THEN "NORMAL"
                     ELSE Band(detector.toxic, detector.total)
      BY DEF ReplayInv, FillsAccounted, LevelFollowsRatio
    <2>4. InStep(detector, level, filled.metrics)
      BY <1>8, <2>3 DEF InStep
    <2> QED
      BY <2>2, <2>4
  <1>10. /\ run \in Run /\ run.metrics.fills = filled.metrics.fills
         /\ Len(run.pending) + run.metrics.marked = Len(updated) + filled.metrics.marked
         /\ InStep(run.detector, run.level, run.metrics)
         /\ \A i \in 1..Len(run.pending) :
               \E j \in 1..Len(updated) :
                  run.pending[i] = updated[j] /\ ~Complete(run.pending[i])
    <2>1. /\ run \in Run /\ run.metrics.fills = base.metrics.fills
          /\ Len(run.pending) + run.metrics.marked = Len(updated) + base.metrics.marked
          /\ InStep(run.detector, run.level, run.metrics)
          /\ \A i \in 1..Len(run.pending) :
                \E j \in 1..Len(updated) :
                   run.pending[i] = updated[j] /\ ~Complete(run.pending[i])
      BY <1>2, <1>7, <1>9, MarksEnd DEF run
    <2> QED
      BY <1>9, <2>1
  <1>11. /\ pending' \in Seq(Fill) /\ Len(pending') = Len(run.pending) + Len(filled.pending)
         /\ \A i \in 1..Len(run.pending) : pending'[i] = run.pending[i]
         /\ \A i \in (Len(run.pending) + 1)..(Len(run.pending) + Len(filled.pending)) :
               pending'[i] = filled.pending[i - Len(run.pending)]
    <2>1. run.pending \in Seq(Fill) /\ filled.pending \in Seq(Fill)
      BY <1>8, <1>10 DEF Run, FillRun
    <2> QED
      BY <1>1, <2>1, ConcatFacts
  <1>12. ReplayTypes'
    <2>1. /\ run.detector \in Detector /\ run.level \in Levels /\ run.waited \in Nat
          /\ run.metrics \in Metrics
      BY <1>10 DEF Run
    <2> QED
      BY <1>1, <1>2, <1>3, <1>11, <2>1 DEF ReplayTypes
  <1>13. FillsAccounted'
    <2>1. carried.pending + metrics.fills = Len(pending) + metrics.marked
      BY DEF ReplayInv, FillsAccounted
    <2>2. run.metrics \in Metrics /\ run.pending \in Seq(Fill) /\ filled.pending \in Seq(Fill)
      BY <1>8, <1>10 DEF Run, FillRun
    <2> DEFINE marked == run.metrics.marked
               before == metrics.marked
               still == Len(run.pending)
               more == Len(filled.pending)
               old == Len(pending)
               from == carried.pending
               fills == metrics.fills
    <2>3. /\ marked \in Nat /\ before \in Nat /\ still \in Nat /\ more \in Nat /\ old \in Nat
          /\ from \in Nat /\ fills \in Nat
      <3>1. marked \in Nat /\ before \in Nat /\ from \in Nat /\ fills \in Nat
        BY <1>2, <2>2 DEF Metrics, Carried
      <3>2. still \in Nat /\ more \in Nat /\ old \in Nat
        BY <1>2, <2>2
      <3> QED
        BY <3>1, <3>2
    <2>4. still + marked = old + before
      BY <1>7, <1>8, <1>10
    <2>5. run.metrics.fills = fills + more /\ from + fills = old + before
      BY <1>8, <1>10, <2>1
    <2>6. Len(pending') = still + more
      BY <1>11
    <2>7. metrics'.fills = run.metrics.fills /\ metrics'.marked = marked
      BY <1>1
    <2>10. carried'.pending = from
      OBVIOUS
    <2> HIDE DEF marked, before, still, more, old, from, fills
    <2>11. from + (fills + more) = (still + more) + marked
      BY ONLY <2>3, <2>4, <2>5
    <2>8. carried'.pending + metrics'.fills = Len(pending') + metrics'.marked
      BY <2>5, <2>6, <2>7, <2>10, <2>11
    <2>9. /\ detector'.total = carried'.marked + metrics'.marked
          /\ detector'.toxic = carried'.toxic + metrics'.toxic
      BY <1>1, <1>10 DEF InStep
    <2> QED
      BY <2>8, <2>9 DEF FillsAccounted
  <1>14. LevelFollowsRatio'
    BY <1>1, <1>10 DEF InStep, LevelFollowsRatio
  <1>15. \A j \in 1..Len(pending) : Timely(updated[j])
    <2> TAKE j \in 1..Len(pending)
    <2>1. pending[j] \in Fill /\ Timely(pending[j])
      BY <1>2 DEF ReplayInv, MidsTimely
    <2> QED
      BY <1>3, <1>4, <1>7, <2>1, TimelyStep
  <1>16. \A n \in DOMAIN pending' : Timely(pending'[n])
    <2>2. /\ run.pending \in Seq(Fill) /\ filled.pending \in Seq(Fill)
          /\ DOMAIN pending' = 1..(Len(run.pending) + Len(filled.pending))
      BY <1>8, <1>10, <1>11 DEF Run, FillRun
    <2> TAKE n \in DOMAIN pending'
    <2>3. CASE n \in 1..Len(run.pending)
      <3>1. pending'[n] = run.pending[n]
        BY <1>11, <2>3
      <3>2. PICK j \in 1..Len(updated) : run.pending[n] = updated[j]
        BY <1>10, <2>3
      <3> QED
        BY <1>7, <1>15, <3>1, <3>2
    <2>4. CASE n \notin 1..Len(run.pending)
      <3> DEFINE i == n - Len(run.pending)
                 record == filled.pending[i]
      <3>1. i \in 1..Len(filled.pending)
            /\ n \in (Len(run.pending) + 1)..(Len(run.pending) + Len(filled.pending))
        <4> DEFINE a == Len(run.pending)
                   b == Len(filled.pending)
        <4>1. a \in Nat /\ b \in Nat
          BY <2>2
        <4>3. n \in 1..(a + b) /\ n \notin 1..a
          BY <2>2, <2>4
        <4> HIDE DEF a, b
        <4>2. n - a \in 1..b /\ n \in (a + 1)..(a + b)
          BY <4>1, <4>3
        <4> QED
          BY <4>2 DEF a, b
      <3>2. pending'[n] = record
        BY <1>11, <3>1
      <3>3. record.rows = << >> /\ DOMAIN record.after = {}
        BY <1>8, <3>1 DEF AllNew
      <3> HIDE DEF record
      <3> QED
        BY <3>2, <3>3, TimelyNew
    <2> QED
      BY <2>3, <2>4
  <1>17. \A record \in graded' : Timely(record)
    <2>1. DOMAIN updated = 1..Len(pending)
      BY <1>7
    <2> QED
      BY <1>1, <1>15, <2>1
  <1>18. MidsTimely'
    BY <1>16, <1>17 DEF MidsTimely
  <1> QED
    BY <1>12, <1>13, <1>14, <1>18 DEF ReplayInv

\* Another run takes over what is pending, the detector and the level.
LEMMA RunAgainKeeps ==
    ASSUME ReplayInv, RunAgain
    PROVE  ReplayInv'
  <1>1. /\ now' \in {0, now} /\ metrics' = NewMetrics /\ graded' = {}
        /\ carried' = [pending |-> Len(pending), marked |-> detector.total,
                       toxic |-> detector.toxic]
        /\ UNCHANGED <<pending, detector, level, waited>>
    BY DEF RunAgain
  <1>2. /\ now \in Nat /\ pending \in Seq(Fill) /\ detector \in Detector /\ level \in Levels
        /\ waited \in Nat
    BY DEF ReplayInv, ReplayTypes
  <1>3. Len(pending) \in Nat /\ detector.total \in Nat /\ detector.toxic \in Nat
    BY <1>2 DEF Detector
  <1>4. metrics' = [rows |-> 0, fills |-> 0, inventory |-> 0, peak |-> 0, marked |-> 0,
                    toxic |-> 0]
    BY <1>1 DEF NewMetrics
  <1>5. ReplayTypes'
    BY <1>1, <1>2, <1>3, <1>4 DEF ReplayTypes, Metrics, Carried
  <1>6. FillsAccounted'
    BY <1>1, <1>3, <1>4 DEF FillsAccounted
  <1>7. LevelFollowsRatio' /\ MidsTimely'
    BY <1>1 DEF ReplayInv, LevelFollowsRatio, MidsTimely
  <1> QED
    BY <1>5, <1>6, <1>7 DEF ReplayInv

\* Every step does.
LEMMA ReplayKeeps == ReplayInv /\ [ReplayNext]_replayVars => ReplayInv'
  <1> SUFFICES ASSUME ReplayInv, [ReplayNext]_replayVars
               PROVE  ReplayInv'
    OBVIOUS
  <1>1. CASE Row
    <2>1. PICK row \in Records, gap \in Gaps, desired \in BoundedSeq(Requests, MaxDesired) :
             ProcessSnapshot(row, gap, desired)
      BY <1>1 DEF Row
    <2> QED
      BY <1>1, <2>1, RowKeeps DEF Row
  <1>2. CASE Reset
    <2>1. ReplayInit'
      BY <1>2 DEF Reset, ReplayInit
    <2> QED
      BY <2>1, ReplayStarts, PTL
  <1>3. CASE WallTime \/ UNCHANGED replayVars
    <2>1. /\ UNCHANGED <<now, pending, detector, level, metrics, graded, carried>>
          /\ waited' \in {waited, waited + 1}
      BY <1>3 DEF WallTime, replayVars
    <2>2. ReplayTypes'
      BY <2>1 DEF ReplayInv, ReplayTypes
    <2>3. FillsAccounted' /\ LevelFollowsRatio' /\ MidsTimely'
      BY <2>1 DEF ReplayInv, FillsAccounted, LevelFollowsRatio, MidsTimely
    <2> QED
      BY <2>2, <2>3 DEF ReplayInv
  <1> QED
    BY <1>1, <1>2, <1>3, RunAgainKeeps DEF ReplayNext

\* The invariant of the replay.
LEMMA ReplayInvariant == ReplaySpec => []ReplayInv
  BY ReplayStarts, ReplayKeeps, PTL DEF ReplaySpec

\* Of any run of an engine, the first or one that takes over what the last has left: every
\* fill, its own or taken over, is pending or its markout was recorded once, by the metrics
\* of the run and by the detector alike, whatever orders are desired and filled in a row.
THEOREM EveryFillIsAccounted == ReplaySpec => []FillsAccounted
  <1>1. ReplayInv => FillsAccounted
    BY DEF ReplayInv
  <1> QED
    BY <1>1, ReplayInvariant, PTL

\* The mid of an interval is that of the first row that is at least the interval after the
\* fill, however far the rows of the recordings are apart, of every record that is pending
\* and of every record that is completed.
THEOREM MarkoutsAreTimely == ReplaySpec => []MidsTimely
  <1>1. ReplayInv => MidsTimely
    BY DEF ReplayInv
  <1> QED
    BY <1>1, ReplayInvariant, PTL

\* The level of the response is that of the share of toxic fills among all fills since the
\* start or reset(), for any thresholds, from the fewest samples on.
THEOREM LevelIsThatOfTheShare == ReplaySpec => []LevelFollowsRatio
  <1>1. ReplayInv => LevelFollowsRatio
    BY DEF ReplayInv
  <1> QED
    BY <1>1, ReplayInvariant, PTL

-----------------------------------------------------------------------------

(***************************************************************************)
(* The watcher.  Nothing it has noted is later than any time the file has  *)
(* had; and in what it reads it is up to date, but for hidden edits.       *)
(***************************************************************************)
WatcherInv ==
    /\ file.mtime \in Nat \ {0} /\ latest \in Nat /\ watcher.mtime \in Nat
    /\ DOMAIN watcher = {"mtime", "snapshot", "pending"}
    /\ file.mtime <= latest /\ watcher.mtime <= latest
    /\ pc = "read" /\ ~hidden => file.kind = "mapping" /\ watcher.snapshot = file.keys
    /\ NoEditMissed

LEMMA NewWatcher ==
    /\ DOMAIN NoWatcher = {"mtime", "snapshot", "pending"} /\ NoWatcher.mtime = 0
  BY DEF NoWatcher

LEMMA WatcherStart == ConfigInit => WatcherInv
  BY NewWatcher DEF ConfigInit, WatcherInv, NoEditMissed

\* An edit with a later mtime will be seen; any other is hidden.
LEMMA EditSeenOrHidden ==
    ASSUME WatcherInv, Edit
    PROVE  WatcherInv'
  <1>1. PICK f \in Files, m \in 1..MaxMtime :
           /\ file' = [kind |-> f.kind, keys |-> f.keys, mtime |-> m]
           /\ latest' = Max({latest, m})
           /\ hidden' = (hidden \/ pc = "read" \/ m <= latest)
    BY DEF Edit
  <1>2. UNCHANGED <<watcher, pc>>
    BY DEF Edit
  <1>3. m \in Nat \ {0} /\ latest \in Nat
    BY DEF WatcherInv
  <1>4. Max({latest, m}) \in {latest, m} /\ latest <= Max({latest, m}) /\ m <= Max({latest, m})
    <2> DEFINE larger == IF latest < m THEN m ELSE latest
    <2>1. larger \in {latest, m} /\ \A y \in {latest, m} : larger >= y
      BY <1>3
    <2> QED
      BY <1>3, <2>1 DEF Max
  <1>5. latest' \in Nat /\ m <= latest' /\ latest <= latest'
    BY <1>1, <1>3, <1>4
  <1>6. file'.mtime = m
    BY <1>1
  <1>7. ~hidden' => ~hidden /\ pc # "read" /\ latest < m
    <2>1. hidden' <=> (hidden \/ pc = "read" \/ m <= latest)
      BY <1>1, Zenon
    <2>2. ~(m <= latest) => latest < m
      BY <1>3
    <2> QED
      BY <2>1, <2>2
  <1>8. ~hidden' => watcher.mtime < m
    BY <1>3, <1>7 DEF WatcherInv
  <1> QED
    BY <1>2, <1>3, <1>5, <1>6, <1>7, <1>8 DEF WatcherInv, NoEditMissed

LEMMA WatcherStepKeeps == WatcherInv /\ [ConfigNext]_configVars => WatcherInv'
  <1> SUFFICES ASSUME WatcherInv, [ConfigNext]_configVars PROVE WatcherInv'
    OBVIOUS
  <1> DEFINE Same == UNCHANGED <<file, latest, watcher, pc, hidden>>
  <1>1. CASE Same
    BY <1>1 DEF WatcherInv, NoEditMissed
  <1>2. CASE Edit
    BY <1>2, EditSeenOrHidden
  <1>3. CASE Create
    <2>1. UNCHANGED <<file, latest>>
      BY <1>3 DEF Create, fileVars
    <2>2. CASE file.kind = "mapping" /\ file.keys # NoKeys
      BY <1>3, <2>1, <2>2, NewWatcher DEF Create, WatcherInv, NoEditMissed
    <2>3. CASE ~(file.kind = "mapping" /\ file.keys # NoKeys)
      BY <1>3, <2>1, <2>3, NewWatcher DEF Create, WatcherInv, NoEditMissed
    <2> QED
      BY <2>2, <2>3
  <1>4. CASE NoteFirstMtime
    BY <1>4 DEF NoteFirstMtime, fileVars, WatcherInv, NoEditMissed
  <1>5. CASE PollStat
    BY <1>5 DEF PollStat, fileVars, WatcherInv, NoEditMissed
  <1>6. CASE PollRead
    <2>1. UNCHANGED <<file, latest>> /\ ~hidden' /\ pc' \in {"done", "ready"}
      BY <1>6 DEF PollRead, fileVars
    <2>2. /\ DOMAIN watcher' = DOMAIN watcher /\ watcher'.mtime = watcher.mtime
          /\ file.kind = "mapping" => watcher'.snapshot = file.keys
      <3>1. CASE file.kind = "mapping"
        BY <1>6, <3>1 DEF PollRead, ReadInto, WatcherInv
      <3>2. CASE file.kind # "mapping"
        BY <1>6, <3>2 DEF PollRead
      <3> QED
        BY <3>1, <3>2
    <2> QED
      BY <2>1, <2>2 DEF WatcherInv, NoEditMissed
  <1>7. CASE Settle
    <2>1. /\ DOMAIN watcher' = DOMAIN watcher /\ watcher'.mtime = watcher.mtime
          /\ watcher'.snapshot = watcher.snapshot
      BY <1>7 DEF Settle, Settled, WatcherInv
    <2> QED
      BY <1>7, <2>1 DEF Settle, fileVars, WatcherInv, NoEditMissed
  <1>8. CASE Admin
    <2>1. Exit /\ UNCHANGED fileVars
      BY <1>8 DEF Admin, AdminLook, AdminReject, AdminConfirm
    <2>2. watcher' = NoWatcher /\ pc' = "none" /\ UNCHANGED <<file, latest>>
      BY <2>1 DEF Exit, fileVars
    <2> QED
      BY <2>2, NewWatcher DEF WatcherInv, NoEditMissed
  <1>9. CASE \/ Tock \/ PollNothing \/ Submit
             \/ \E token \in DOMAIN shown : GuardConfirm(token) \/ GuardReject(token)
             \/ UNCHANGED configVars
    <2>1. Same
      BY <1>9 DEF Tock, PollNothing, Submit, GuardConfirm, GuardReject, configVars, fileVars
    <2> QED
      BY <1>1, <2>1
  <1> QED
    BY <1>2, <1>3, <1>4, <1>5, <1>6, <1>7, <1>8, <1>9 DEF ConfigNext, Caller

\* poll() notes the time before it reads, so whatever is edited between the two is read
\* at the next poll: what the watcher holds is what the file says whenever a poll would
\* find nothing new, but for the two kinds of edits no mtime tells of.
THEOREM EditsAreSeen == ConfigSpec => []NoEditMissed
  <1>1. WatcherInv => NoEditMissed
    BY DEF WatcherInv
  <1> QED
    BY <1>1, WatcherStart, WatcherStepKeeps, PTL DEF ConfigSpec

-----------------------------------------------------------------------------
(***************************************************************************)
(* Sequences of anything: of what they hold.                               *)
(***************************************************************************)
IsSeq(s) == s \in Seq({s[i] : i \in DOMAIN s})

\* The empty list is one.
LEMMA EmptyIsSeq == IsSeq(<< >>)
  BY DEF IsSeq

LEMMA AppendFacts ==
    ASSUME NEW s, IsSeq(s), NEW e
    PROVE  /\ IsSeq(Append(s, e)) /\ Len(s) \in Nat /\ DOMAIN s = 1..Len(s)
           /\ Len(Append(s, e)) = Len(s) + 1 /\ DOMAIN Append(s, e) = 1..(Len(s) + 1)
           /\ \A i \in 1..Len(s) : Append(s, e)[i] = s[i]
           /\ Append(s, e)[Len(s) + 1] = e
  <1> DEFINE S == {s[i] : i \in DOMAIN s} \cup {e}
             t == Append(s, e)
  <1>1. s \in Seq(S)
    <2>1. {s[i] : i \in DOMAIN s} \subseteq S
      OBVIOUS
    <2>2. \A A, B : A \subseteq B => \A q \in Seq(A) : q \in Seq(B)
      OBVIOUS
    <2> HIDE DEF S
    <2> QED
      BY <2>1, <2>2 DEF IsSeq
  <1>2. e \in S
    OBVIOUS
  <1> HIDE DEF S
  <1>3. /\ Len(s) \in Nat /\ DOMAIN s = 1..Len(s)
        /\ Len(t) = Len(s) + 1 /\ DOMAIN t = 1..(Len(s) + 1)
        /\ \A i \in 1..Len(s) : t[i] = s[i]
        /\ t[Len(s) + 1] = e
        /\ t \in Seq(S)
    BY <1>1, <1>2
  <1>4. IsSeq(t)
    <2>1. t \in [1..Len(t) -> {t[i] : i \in DOMAIN t}]
      <3> HIDE DEF t
      <3>1. t = [i \in 1..Len(t) |-> t[i]]
        BY <1>3
      <3>2. \A i \in 1..Len(t) : t[i] \in {t[j] : j \in DOMAIN t}
        BY <1>3
      <3> QED
        BY <3>1, <3>2
    <2> HIDE DEF t
    <2>2. Len(t) \in Nat /\ t \in Seq({t[i] : i \in DOMAIN t})
      BY <1>3, <2>1
    <2> QED
      BY <2>2 DEF IsSeq
  <1> QED
    BY <1>3, <1>4

(***************************************************************************)
(* The guard.  Tokens count the batches, so the batch that waits, if any,  *)
(* is the one shown last, and none of those confirmed.                     *)
(***************************************************************************)
GuardInv ==
    /\ clock \in Nat
    /\ IsSeq(shown) /\ IsSeq(accepted)
    /\ \A i \in DOMAIN shown : shown[i].token = i /\ shown[i].at \in Nat
    /\ \A i \in DOMAIN accepted : accepted[i].token \in 1..Len(shown)
    /\ guard # NoBatch =>
          /\ user = "caller"
          /\ Len(shown) > 0 /\ guard = shown[Len(shown)]
          /\ \A i \in DOMAIN accepted : accepted[i].token # Len(shown)

\* What a step that confirms a batch must be like.
AsShown ==
    accepted' # accepted =>
      LET batch == Last(accepted')
      IN  /\ batch.token = Len(shown)
          /\ batch = shown[batch.token]
          /\ clock < batch.at + Expiry
          /\ batch \notin ToSet(accepted)

LEMMA GuardStart == ConfigInit => GuardInv
  BY EmptyIsSeq DEF ConfigInit, GuardInv

\* A batch that is submitted gets a token that no batch before it had.
LEMMA ShownGrows ==
    ASSUME GuardInv, NEW changes, shown' = Append(shown, NewBatch(changes)),
           UNCHANGED <<user, clock, accepted>>,
           guard' = guard \/ (guard' = NewBatch(changes) /\ user = "caller"),
           guard' = guard => guard = NoBatch
    PROVE  GuardInv' /\ AsShown
  <1> DEFINE n == Len(shown)
             batch == NewBatch(changes)
  <1>1. /\ IsSeq(shown') /\ n \in Nat /\ DOMAIN shown = 1..n
        /\ Len(shown') = n + 1 /\ DOMAIN shown' = 1..(n + 1)
        /\ \A i \in 1..n : shown'[i] = shown[i]
        /\ shown'[n + 1] = batch
    BY AppendFacts DEF GuardInv
  <1>2. batch.token = n + 1 /\ batch.at = clock
    BY DEF NewBatch, NewToken
  <1> HIDE DEF n, batch
  <1>3. \A i \in DOMAIN shown' : shown'[i].token = i /\ shown'[i].at \in Nat
    <2> TAKE i \in DOMAIN shown'
    <2>1. CASE i \in 1..n
      BY <1>1, <2>1 DEF GuardInv
    <2>2. CASE i = n + 1
      BY <1>1, <1>2, <2>2 DEF GuardInv
    <2> QED
      BY <1>1, <2>1, <2>2
  <1>4. \A i \in DOMAIN accepted : accepted[i].token \in 1..n
    BY DEF GuardInv, n
  <1>5. /\ \A i \in DOMAIN accepted' : accepted'[i].token \in 1..Len(shown')
        /\ \A i \in DOMAIN accepted' : accepted'[i].token # Len(shown')
    BY <1>1, <1>4
  <1>6. guard' # NoBatch => guard' = shown'[Len(shown')] /\ user' = "caller"
    BY <1>1 DEF batch
  <1> QED
    BY <1>1, <1>3, <1>5, <1>6 DEF GuardInv, AsShown

LEMMA ConfirmKeeps ==
    ASSUME GuardInv, NEW token, GuardConfirm(token)
    PROVE  GuardInv' /\ AsShown
  <1> DEFINE n == Len(shown)
  <1>1. /\ guard # NoBatch /\ UNCHANGED <<user, clock, shown>>
        /\ Unexpired(guard) = guard \/ Unexpired(guard) = NoBatch
    BY DEF GuardConfirm, Unexpired
  <1>2. /\ user = "caller" /\ n > 0 /\ guard = shown[n] /\ n \in Nat
        /\ DOMAIN shown = 1..n
        /\ \A i \in DOMAIN accepted : accepted[i].token # n
    BY <1>1, AppendFacts DEF GuardInv
  <1>3. guard.token = n /\ guard.at \in Nat
    BY <1>2 DEF GuardInv
  <1>4. CASE Unexpired(guard) # NoBatch /\ Unexpired(guard).token = token
    <2>1. Unexpired(guard) = guard /\ guard' = NoBatch /\ accepted' = Append(accepted, guard)
      BY <1>1, <1>4 DEF GuardConfirm
    <2>2. ~(clock - guard.at >= Expiry)
      BY <1>1, <1>4 DEF Unexpired
    <2>3. clock < guard.at + Expiry
      BY <1>3, <2>2, ConfigAssumption DEF GuardInv
    <2>4. /\ IsSeq(accepted') /\ Len(accepted) \in Nat /\ DOMAIN accepted = 1..Len(accepted)
          /\ Len(accepted') = Len(accepted) + 1 /\ DOMAIN accepted' = 1..(Len(accepted) + 1)
          /\ \A i \in 1..Len(accepted) : accepted'[i] = accepted[i]
          /\ accepted'[Len(accepted) + 1] = guard
      BY <2>1, AppendFacts DEF GuardInv
    <2>5. Last(accepted') = guard
      BY <2>4 DEF Last
    <2>6. guard \notin ToSet(accepted)
      BY <1>2, <1>3 DEF ToSet
    <2>7. AsShown
      BY <1>2, <1>3, <2>3, <2>5, <2>6 DEF AsShown
    <2>8. \A i \in DOMAIN accepted' : accepted'[i].token \in 1..n
      <3> TAKE i \in DOMAIN accepted'
      <3>1. CASE i \in 1..Len(accepted)
        BY <2>4, <3>1 DEF GuardInv
      <3>2. CASE i = Len(accepted) + 1
        BY <1>2, <1>3, <2>4, <3>2
      <3> QED
        BY <2>4, <3>1, <3>2
    <2>9. GuardInv'
      BY <1>1, <2>1, <2>4, <2>8 DEF GuardInv
    <2> QED
      BY <2>7, <2>9
  <1>5. CASE ~(Unexpired(guard) # NoBatch /\ Unexpired(guard).token = token)
    <2>1. guard' \in {guard, NoBatch} /\ accepted' = accepted
      BY <1>1, <1>5 DEF GuardConfirm
    <2> QED
      BY <1>1, <2>1 DEF GuardInv, AsShown
  <1> QED
    BY <1>4, <1>5

LEMMA AdminKeeps ==
    ASSUME GuardInv, Admin
    PROVE  GuardInv' /\ AsShown
  <1>0. user = "admin" /\ guard = NoBatch
    BY DEF Admin, AdminLook, AdminReject, AdminConfirm, Exit, GuardInv
  <1>1. CASE AdminLook
    BY <1>1 DEF AdminLook, GuardInv, AsShown
  <1>2. CASE AdminReject
    BY <1>0, <1>2, ShownGrows DEF AdminReject
  <1>3. CASE \E token \in DOMAIN shown \cup {0} : AdminConfirm(token)
    <2> PICK token \in DOMAIN shown \cup {0} : AdminConfirm(token)
      BY <1>3
    <2>1. Len(shown) \in Nat /\ DOMAIN shown = 1..Len(shown)
      BY AppendFacts DEF GuardInv
    <2>2. NewBatch(watcher.pending).token # token
      BY <2>1 DEF NewBatch, NewToken
    <2>3. /\ shown' = Append(shown, NewBatch(watcher.pending))
          /\ UNCHANGED <<user, clock, accepted, guard>>
      BY <2>2 DEF AdminConfirm
    <2> QED
      BY <1>0, <2>3, ShownGrows
  <1> QED
    BY <1>1, <1>2, <1>3 DEF Admin

LEMMA GuardStepKeeps ==
    ASSUME GuardInv, ConfigNext
    PROVE  GuardInv' /\ AsShown
  <1>1. CASE Submit
    <2>1. /\ user = "caller" /\ guard' = NewBatch(watcher.pending)
          /\ shown' = Append(shown, NewBatch(watcher.pending))
          /\ UNCHANGED <<user, clock, accepted>>
      BY <1>1 DEF Submit
    <2>2. guard' # guard
      <3>1. guard # NoBatch => guard.token = Len(shown)
        BY AppendFacts DEF GuardInv
      <3>2. Len(shown) \in Nat /\ guard'.token = Len(shown) + 1 /\ NoBatch.token = 0
        BY <2>1, AppendFacts DEF GuardInv, NewBatch, NewToken, NoBatch
      <3> QED
        BY <3>1, <3>2
    <2> QED
      BY <2>1, <2>2, ShownGrows
  <1>2. CASE \E token \in DOMAIN shown : GuardConfirm(token)
    BY <1>2, ConfirmKeeps
  <1>3. CASE \E token \in DOMAIN shown : GuardReject(token)
    <2>1. guard' \in {guard, NoBatch} /\ UNCHANGED <<user, clock, shown, accepted>>
      BY <1>3 DEF GuardReject, Unexpired
    <2> QED
      BY <2>1 DEF GuardInv, AsShown
  <1>4. CASE Admin
    BY <1>4, AdminKeeps
  <1>5. CASE Tock
    BY <1>5 DEF Tock, GuardInv, AsShown
  <1>6. CASE \/ Edit \/ Create \/ NoteFirstMtime \/ PollStat \/ PollRead \/ PollNothing
             \/ Settle
    <2>1. UNCHANGED <<user, guard, clock, shown, accepted>>
      BY <1>6 DEF Edit, Create, NoteFirstMtime, PollStat, PollRead, PollNothing, Settle,
         configVars
    <2> QED
      BY <2>1 DEF GuardInv, AsShown
  <1> QED
    BY <1>1, <1>2, <1>3, <1>4, <1>5, <1>6 DEF ConfigNext, Caller

\* ConfirmationGuard.confirm() accepts only the batch that was shown last, as it was
\* shown, once and before it expires.
THEOREM OnlyShownIsConfirmed == ConfigSpec => ConfirmedAsShown
  <1>1. GuardInv /\ [ConfigNext]_configVars => GuardInv'
    <2> SUFFICES ASSUME GuardInv, UNCHANGED configVars PROVE GuardInv'
      BY GuardStepKeeps
    <2> QED
      BY DEF GuardInv, configVars
  <1>2. GuardInv /\ [ConfigNext]_configVars => [AsShown]_configVars
    BY GuardStepKeeps
  <1> QED
    BY <1>1, <1>2, GuardStart, PTL DEF ConfigSpec, ConfirmedAsShown, AsShown

-----------------------------------------------------------------------------
(* The changes that wait                                                     *)

\* Values of the keys, a change, and what the watcher holds.
Keys == [ConfigKeys -> Nat]
Changes == [key : ConfigKeys, old : Nat, new : Nat]
Watchers == [mtime : Nat, snapshot : Keys, pending : Seq(Changes)]

\* The inductive invariant of the chains.
SlipInv ==
    /\ watcher \in Watchers
    /\ file.keys \in Keys /\ file.mtime \in Nat
    /\ NothingDangerousSlips

\* SetToSeq() lists every element of a set once.
LEMMA SetToSeqFacts ==
    ASSUME NEW S, IsFiniteSet(S)
    PROVE  /\ SetToSeq(S) \in [1..Cardinality(S) -> S] /\ Cardinality(S) \in Nat
           /\ \A i, j \in 1..Cardinality(S) : SetToSeq(S)[i] = SetToSeq(S)[j] => i = j
           /\ \A x \in S : \E i \in 1..Cardinality(S) : SetToSeq(S)[i] = x
  <1> DEFINE n == Cardinality(S)
  <1>1. n \in Nat /\ ExistsBijection(1..n, S)
    BY FS_CardinalityType
  <1>2. PICK g \in [1..n -> S] : IsInjective(g)
    BY <1>1 DEF ExistsBijection, Bijection, Injection, IsInjective
  <1>3. SetToSeq(S) \in [1..n -> S] /\ IsInjective(SetToSeq(S))
    BY <1>2 DEF SetToSeq
  <1>4. \A i, j \in 1..n : SetToSeq(S)[i] = SetToSeq(S)[j] => i = j
    BY <1>3 DEF IsInjective
  <1>5. SetToSeq(S) \in Surjection(1..n, S)
    <2>1. SetToSeq(S) \in Injection(1..n, S)
      BY <1>3, <1>4 DEF Injection
    <2>2. Cardinality(1..n) = n
      BY <1>1, FS_Interval
    <2> QED
      BY <2>1, <2>2, FS_Injection
  <1>6. \A x \in S : \E i \in 1..n : SetToSeq(S)[i] = x
    BY <1>5 DEF Surjection
  <1> QED
    BY <1>1, <1>3, <1>4, <1>6

\* One change for every dangerous key that differs, and for no key two.
IsDiff(changes, old, new) ==
    /\ changes \in Seq(Changes)
    /\ \A i \in 1..Len(changes) :
          /\ changes[i].old = old[changes[i].key]
          /\ changes[i].new = new[changes[i].key]
          /\ ReloadLevel[changes[i].key] = 2
          /\ \A j \in 1..Len(changes) : changes[i].key = changes[j].key => i = j
    /\ \A k \in ConfigKeys : ReloadLevel[k] = 2 /\ old[k] # new[k] =>
          \E i \in 1..Len(changes) : changes[i].key = k

LEMMA DangerousFacts ==
    ASSUME NEW old \in Keys, NEW new \in Keys
    PROVE  IsDiff(DangerousChanges(old, new), old, new)
  <1> DEFINE S == {k \in ConfigKeys : old[k] # new[k] /\ ReloadLevel[k] = 2}
             order == SetToSeq(S)
             n == Cardinality(S)
             changes == DangerousChanges(old, new)
  <1>1. IsFiniteSet(S)
    BY ConfigAssumption, FS_Subset
  <1>2. /\ order \in [1..n -> S] /\ n \in Nat
        /\ \A i, j \in 1..n : order[i] = order[j] => i = j
        /\ \A x \in S : \E i \in 1..n : order[i] = x
    <2> HIDE DEF S
    <2> QED
      BY <1>1, SetToSeqFacts
  <1>3. changes = [i \in 1..n |-> Change(order[i], old[order[i]], new[order[i]])]
    <2>1. DOMAIN order = 1..n
      BY <1>2
    <2> HIDE DEF order
    <2>2. changes = [i \in DOMAIN order |-> Change(order[i], old[order[i]], new[order[i]])]
      BY Zenon DEF DangerousChanges, order
    <2> QED
      BY <2>1, <2>2
  <1> HIDE DEF order, n, changes
  <1>4. \A i \in 1..n : /\ order[i] \in ConfigKeys
                        /\ changes[i].key = order[i] /\ changes[i].old = old[order[i]]
                        /\ changes[i].new = new[order[i]] /\ changes[i] \in Changes
    <2> TAKE i \in 1..n
    <2>1. order[i] \in ConfigKeys
      BY <1>2
    <2>2. old[order[i]] \in Nat /\ new[order[i]] \in Nat
      BY <2>1 DEF Keys
    <2>3. changes[i] = [key |-> order[i], old |-> old[order[i]], new |-> new[order[i]]]
      BY <1>3 DEF Change
    <2> QED
      BY <2>1, <2>2, <2>3 DEF Changes
  <1>5. changes \in Seq(Changes) /\ Len(changes) = n
    <2>1. DOMAIN changes = 1..n /\ changes = [i \in 1..n |-> changes[i]]
      BY <1>3
    <2>2. changes \in [1..n -> Changes]
      BY <1>4, <2>1
    <2> QED
      BY <1>2, <2>2
  <1>6. \A i \in 1..n : /\ changes[i].old = old[changes[i].key]
                        /\ changes[i].new = new[changes[i].key]
                        /\ ReloadLevel[changes[i].key] = 2
                        /\ \A j \in 1..n : changes[i].key = changes[j].key => i = j
    BY <1>2, <1>4
  <1>7. \A k \in ConfigKeys : ReloadLevel[k] = 2 /\ old[k] # new[k] =>
           \E i \in 1..n : changes[i].key = k
    BY <1>2, <1>4
  <1>8. IsDiff(changes, old, new)
    BY <1>5, <1>6, <1>7 DEF IsDiff
  <1> QED
    BY <1>8 DEF changes

\* Reached(), of any list of changes and any values at its beginning.
ReachedBy(list, start, k, n) ==
    LET changes == {i \in 1..n : list[i].key = k}
    IN  IF changes = {} THEN start[k] ELSE list[Max(changes)].new

NothingSlips(list, start, current) ==
    /\ \A i \in DOMAIN list : list[i].old = ReachedBy(list, start, list[i].key, i - 1)
    /\ \A k \in ConfigKeys : 
                 ReloadLevel[k] = 2 => current[k] = ReachedBy(list, start, k, Len(list))

\* The property, of the list that waits, the values settled and the current ones.
LEMMA SlipsIs == NothingDangerousSlips <=> NothingSlips(watcher.pending, settled, watcher.snapshot)
  BY Zenon DEF NothingDangerousSlips, NothingSlips, Reached, ReachedBy

\* Without changes the current values are the settled ones.
LEMMA NothingPending ==
    ASSUME NEW start, NEW list, list = << >>
    PROVE  NothingSlips(list, start, start)
  <1>1. Len(list) = 0 /\ DOMAIN list = {} /\ 1..0 = {}
    OBVIOUS
  <1>2. \A k \in ConfigKeys : ReachedBy(list, start, k, 0) = start[k]
    BY <1>1 DEF ReachedBy
  <1> QED
    BY <1>1, <1>2 DEF NothingSlips

\* What a list has reached depends on its changes so far, and of those of the key.
LEMMA ReachedSame ==
    ASSUME NEW list, NEW longer, NEW start, NEW k, NEW n \in Nat, NEW m \in Nat, n <= m,
           \A i \in 1..n : longer[i] = list[i],
           \A i \in (n + 1)..m : longer[i].key # k
    PROVE  ReachedBy(longer, start, k, m) = ReachedBy(list, start, k, n)
  <1> DEFINE A == {i \in 1..n : list[i].key = k}
             B == {i \in 1..m : longer[i].key = k}
  <1>1. A = B
    <2>1. \A i \in 1..m : i \in 1..n \/ i \in (n + 1)..m
      OBVIOUS
    <2>2. 1..n \subseteq 1..m
      OBVIOUS
    <2> QED
      BY <2>1, <2>2
  <1>2. A # {} => Max(A) \in 1..n
    <2>1. A \in SUBSET (1..n)
      OBVIOUS
    <2> HIDE DEF A
    <2> QED
      BY <2>1, MaxFacts
  <1> HIDE DEF A, B
  <1>3. ReachedBy(list, start, k, n) = IF A = {} THEN start[k] ELSE list[Max(A)].new
    BY Zenon DEF ReachedBy, A
  <1>4. ReachedBy(longer, start, k, m) = IF B = {} THEN start[k] ELSE longer[Max(B)].new
    BY Zenon DEF ReachedBy, B
  <1> QED
    BY <1>1, <1>2, <1>3, <1>4

\* A poll that reads new values continues every chain of changes.
LEMMA ChainsContinue ==
    ASSUME NEW list \in Seq(Changes), NEW start, NEW old \in Keys, NEW new \in Keys,
           NothingSlips(list, start, old),
           NEW changes, IsDiff(changes, old, new)
    PROVE  NothingSlips(list \o changes, start, new)
  <1> DEFINE n == Len(list)
             m == Len(changes)
             longer == list \o changes
  <1>1. /\ n \in Nat /\ m \in Nat /\ longer \in Seq(Changes) /\ Len(longer) = n + m
        /\ DOMAIN list = 1..n /\ DOMAIN longer = 1..(n + m)
        /\ \A i \in 1..n : longer[i] = list[i]
        /\ \A i \in (n + 1)..(n + m) : longer[i] = changes[i - n]
    <2>1. changes \in Seq(Changes)
      BY DEF IsDiff
    <2>2. /\ longer \in Seq(Changes) /\ Len(longer) = n + m
          /\ \A i \in 1..n : longer[i] = list[i]
          /\ \A i \in (n + 1)..(n + m) : longer[i] = changes[i - n]
      BY <2>1, ConcatFacts
    <2>3. n \in Nat /\ m \in Nat /\ DOMAIN list = 1..n
      BY <2>1
    <2> HIDE DEF longer, n, m
    <2> QED
      BY <2>2, <2>3
  <1> HIDE DEF n, m, longer
  <1>2. \A k, i : i \in 0..n => ReachedBy(longer, start, k, i) = ReachedBy(list, start, k, i)
    <2> SUFFICES ASSUME NEW k, NEW i \in 0..n
                 PROVE  ReachedBy(longer, start, k, i) = ReachedBy(list, start, k, i)
      OBVIOUS
    <2>1. i \in Nat /\ i <= i /\ \A j \in 1..i : longer[j] = list[j]
      BY <1>1
    <2>2. \A j \in (i + 1)..i : longer[j].key # k
      BY <2>1
    <2> QED
      BY <2>1, <2>2, ReachedSame
  <1>3. \A i \in 1..m :
          /\ changes[i].old = old[changes[i].key] /\ changes[i].new = new[changes[i].key]
          /\ changes[i].key \in ConfigKeys /\ ReloadLevel[changes[i].key] = 2
          /\ \A j \in 1..m : changes[i].key = changes[j].key => i = j
    <2>1. changes \in Seq(Changes)
      BY DEF IsDiff
    <2>2. \A i \in 1..m : changes[i] \in Changes
      BY <2>1 DEF m
    <2>3. \A i \in 1..m : changes[i].key \in ConfigKeys
      BY <2>2 DEF Changes
    <2> QED
      BY <2>3 DEF IsDiff, m
  <1>4. ASSUME NEW i \in DOMAIN longer
        PROVE  longer[i].old = ReachedBy(longer, start, longer[i].key, i - 1)
    <2>1. CASE i \in 1..n
      <3>1. longer[i] = list[i] /\ i - 1 \in 0..n
        BY <1>1, <2>1
      <3>2. list[i].old = ReachedBy(list, start, list[i].key, i - 1)
        BY <1>1, <2>1 DEF NothingSlips
      <3> QED
        BY <1>2, <3>1, <3>2
    <2>2. CASE i \notin 1..n
      <3> DEFINE j == i - n
                 k == changes[j].key
      <3>1. j \in 1..m /\ i = n + j /\ longer[i] = changes[j] /\ i - 1 \in Nat /\ n <= i - 1
        <4>1. i \in Int /\ 1 <= i /\ i <= n + m /\ ~(i <= n)
          BY <1>1, <2>2
        <4>2. i - n \in 1..m /\ i = n + (i - n) /\ i - 1 \in Nat /\ n <= i - 1
              /\ i \in (n + 1)..(n + m)
          BY <1>1, <4>1
        <4> QED
          BY <1>1, <4>2
      <3>2. \A l \in (n + 1)..(i - 1) : longer[l].key # k
        <4> TAKE l \in (n + 1)..(i - 1)
        <4>1. l - n \in 1..m /\ l - n # j /\ longer[l] = changes[l - n]
          BY <1>1, <3>1
        <4> QED
          BY <1>3, <3>1, <4>1
      <3> HIDE DEF j, k
      <3>3. ReachedBy(longer, start, k, i - 1) = ReachedBy(list, start, k, n)
        <4> DEFINE top == i - 1
        <4>1. /\ top \in Nat /\ n \in Nat /\ n <= top
              /\ \A l \in 1..n : longer[l] = list[l]
              /\ \A l \in (n + 1)..top : longer[l].key # k
          BY <1>1, <3>1, <3>2
        <4> HIDE DEF top
        <4>2. ReachedBy(longer, start, k, top) = ReachedBy(list, start, k, n)
          BY <4>1, ReachedSame
        <4> QED
          BY <4>2 DEF top
      <3>4. changes[j].old = old[k] /\ k \in ConfigKeys /\ ReloadLevel[k] = 2
        BY <1>3, <3>1 DEF k
      <3>5. old[k] = ReachedBy(list, start, k, n)
        BY <3>4 DEF NothingSlips, n
      <3> QED
        BY <3>1, <3>3, <3>4, <3>5 DEF k
    <2> QED
      BY <2>1, <2>2
  <1>5. ASSUME NEW k \in ConfigKeys, ReloadLevel[k] = 2
        PROVE  new[k] = ReachedBy(longer, start, k, n + m)
    <2>0. old[k] = ReachedBy(list, start, k, n)
      BY <1>5 DEF NothingSlips, n
    <2>1. CASE \E i \in 1..m : changes[i].key = k
      <3>1. PICK i \in 1..m : changes[i].key = k
        BY <2>1
      <3> DEFINE A == {l \in 1..(n + m) : longer[l].key = k}
      <3>2. n + i \in A /\ A \in SUBSET (1..(n + m)) /\ longer[n + i].new = new[k]
        <4>1. n + i \in (n + 1)..(n + m) /\ n + i \in 1..(n + m) /\ (n + i) - n = i
          BY <1>1
        <4> QED
          BY <1>1, <1>3, <3>1, <4>1
      <3>3. \A l \in A : l <= n + i
        <4> TAKE l \in A
        <4>1. CASE l \in 1..n
          BY <1>1, <4>1
        <4>2. CASE l \notin 1..n
          <5>1. l - n \in 1..m /\ longer[l] = changes[l - n]
            BY <1>1, <4>2
          <5>2. l - n = i
            BY <1>3, <3>1, <5>1
          <5> QED
            BY <1>1, <5>2
        <4> QED
          BY <4>1, <4>2
      <3> HIDE DEF A
      <3>4. Max(A) = n + i
        <4> DEFINE all == n + m
                   last == n + i
        <4>1. A # {} /\ all \in Nat /\ A \in SUBSET (1..all) /\ last \in A
              /\ \A l \in A : l <= last
          BY <1>1, <3>2, <3>3
        <4> HIDE DEF all, last
        <4>2. Max(A) \in A /\ last <= Max(A)
          BY <4>1, MaxFacts
        <4>3. Max(A) <= last /\ Max(A) \in Int
          <5>1. \A l \in A : l <= last /\ l \in 1..all
            BY <4>1
          <5>2. Max(A) <= last /\ Max(A) \in 1..all
            BY <4>2, <5>1
          <5> QED
            BY <5>2
        <4>4. last \in Int
          BY <1>1 DEF last
        <4> QED
          BY <4>2, <4>3, <4>4 DEF last
      <3>5. ReachedBy(longer, start, k, n + m)
              = IF A = {} THEN start[k] ELSE longer[Max(A)].new
        BY Zenon DEF ReachedBy, A
      <3> QED
        BY <3>2, <3>4, <3>5
    <2>2. CASE ~\E i \in 1..m : changes[i].key = k
      <3>1. old[k] = new[k]
        BY <1>5, <2>2 DEF IsDiff, m
      <3>2. \A l \in (n + 1)..(n + m) : longer[l].key # k
        <4> TAKE l \in (n + 1)..(n + m)
        <4>1. l - n \in 1..m /\ longer[l] = changes[l - n]
          BY <1>1
        <4> QED
          BY <2>2, <4>1
      <3>3. ReachedBy(longer, start, k, n + m) = ReachedBy(list, start, k, n)
        <4>1. n + m \in Nat /\ n <= n + m
          BY <1>1
        <4> QED
          BY <1>1, <3>2, <4>1, ReachedSame
      <3> QED
        BY <2>0, <3>1, <3>3
    <2> QED
      BY <2>1, <2>2
  <1>6. NothingSlips(longer, start, new)
    BY <1>1, <1>4, <1>5 DEF NothingSlips
  <1> QED
    BY <1>6 DEF longer

\* Nothing has slipped in before there is a process.
LEMMA SlipStarts == ConfigInit => SlipInv
  <1> SUFFICES ASSUME ConfigInit PROVE SlipInv
    OBVIOUS
  <1>1. PICK f \in Files : file = [kind |-> f.kind, keys |-> f.keys, mtime |-> 1]
    BY DEF ConfigInit
  <1>2. watcher = [mtime |-> 0, snapshot |-> NoKeys, pending |-> << >>] /\ settled = NoKeys
    BY DEF ConfigInit, NoWatcher
  <1>3. NoKeys \in Keys
    BY DEF NoKeys, NoValue, Keys
  <1>4. watcher \in Watchers
    BY <1>2, <1>3 DEF Watchers
  <1>5. file.keys \in Keys /\ file.mtime \in Nat
    BY <1>1, ConfigAssumption DEF Keys
  <1>6. NothingDangerousSlips
    BY <1>2, NothingPending, SlipsIs
  <1> QED
    BY <1>4, <1>5, <1>6 DEF SlipInv

\* What becomes of the chains when the changes are forgotten, and when they are continued.
LEMMA ForgetKeeps ==
    ASSUME NEW keys \in Keys, NEW mtime \in Nat,
           watcher' = [mtime |-> mtime, snapshot |-> keys, pending |-> << >>], settled' = keys
    PROVE  watcher' \in Watchers /\ NothingDangerousSlips'
  <1>1. watcher' \in Watchers
    BY DEF Watchers
  <1>2. NothingSlips(watcher'.pending, settled', watcher'.snapshot)
    BY NothingPending
  <1>3. NothingDangerousSlips'
    BY <1>2, Zenon DEF NothingDangerousSlips, NothingSlips, Reached, ReachedBy
  <1> QED
    BY <1>1, <1>3

\* Nor does it if neither the values nor the changes are touched.
LEMMA SlipSame ==
    ASSUME SlipInv, UNCHANGED settled, watcher'.snapshot = watcher.snapshot,
           watcher'.pending = watcher.pending
    PROVE  NothingDangerousSlips'
  <1>1. NothingSlips(watcher'.pending, settled', watcher'.snapshot)
    BY SlipsIs DEF SlipInv
  <1> QED
    BY <1>1, Zenon DEF NothingDangerousSlips, NothingSlips, Reached, ReachedBy

\* The rest of poll() continues every chain.
LEMMA ReadKeeps ==
    ASSUME SlipInv, PollRead
    PROVE  SlipInv'
  <1>1. UNCHANGED <<file, settled>>
    BY DEF PollRead, fileVars
  <1>2. watcher \in Watchers /\ file.keys \in Keys /\ file.mtime \in Nat
    BY DEF SlipInv
  <1>3. CASE file.kind # "mapping"
    <2>1. watcher' = watcher
      BY <1>3 DEF PollRead
    <2>2. NothingDangerousSlips'
      BY <1>1, <2>1, SlipSame
    <2> QED
      BY <1>1, <1>2, <2>1, <2>2 DEF SlipInv
  <1>4. CASE file.kind = "mapping"
    <2> DEFINE old == watcher.snapshot
               new == file.keys
               changes == DangerousChanges(old, new)
               list == watcher.pending \o changes
    <2>1. old \in Keys /\ new \in Keys /\ watcher.pending \in Seq(Changes)
          /\ watcher.mtime \in Nat
      BY <1>2 DEF Watchers
    <2>2. IsDiff(changes, old, new)
      BY <2>1, DangerousFacts
    <2>3. watcher' = [watcher EXCEPT !.snapshot = new, !.pending = list]
      BY <1>4, Zenon DEF PollRead, ReadInto, Queued
    <2>4. NothingSlips(watcher.pending, settled, old)
      BY SlipsIs DEF SlipInv
    <2>5. NothingSlips(list, settled, new)
      <3> HIDE DEF changes, old, new
      <3> QED
        BY <2>1, <2>2, <2>4, ChainsContinue
    <2>6. list \in Seq(Changes)
      <3>1. changes \in Seq(Changes)
        BY <2>2 DEF IsDiff
      <3> HIDE DEF changes
      <3> QED
        BY <2>1, <3>1, ConcatFacts
    <2> HIDE DEF list, changes, old, new
    <2>7. watcher' \in Watchers /\ watcher'.pending = list /\ watcher'.snapshot = new
      BY <1>2, <2>1, <2>3, <2>6 DEF Watchers
    <2>8. NothingSlips(watcher'.pending, settled', watcher'.snapshot)
      BY <1>1, <2>5, <2>7
    <2>9. NothingDangerousSlips'
      BY <2>8, Zenon DEF NothingDangerousSlips, NothingSlips, Reached, ReachedBy
    <2> QED
      BY <1>1, <1>2, <2>7, <2>9 DEF SlipInv
  <1> QED
    BY <1>3, <1>4

\* Every step keeps the chains.
LEMMA SlipStepKeeps == SlipInv /\ [ConfigNext]_configVars => SlipInv'
  <1> SUFFICES ASSUME SlipInv, [ConfigNext]_configVars PROVE SlipInv'
    OBVIOUS
  <1>0. /\ watcher \in Watchers /\ file.keys \in Keys /\ file.mtime \in Nat
        /\ watcher.snapshot \in Keys /\ watcher.mtime \in Nat
        /\ watcher = [mtime |-> watcher.mtime, snapshot |-> watcher.snapshot,
                      pending |-> watcher.pending]
    BY DEF SlipInv, Watchers
  <1> DEFINE Same == UNCHANGED <<file, watcher, settled>>
  <1>1. CASE Same
    BY <1>0, <1>1, SlipSame DEF SlipInv
  <1>2. CASE Edit
    <2>1. PICK f \in Files, m \in 1..MaxMtime :
             file' = [kind |-> f.kind, keys |-> f.keys, mtime |-> m]
      BY <1>2 DEF Edit
    <2>2. file'.keys \in Keys /\ file'.mtime \in Nat
      BY <2>1, ConfigAssumption DEF Keys
    <2>3. UNCHANGED <<watcher, settled>>
      BY <1>2 DEF Edit
    <2> QED
      BY <1>0, <2>2, <2>3, SlipSame DEF SlipInv
  <1>3. CASE Create
    <2>1. file' = file /\ settled' = watcher'.snapshot
      BY <1>3 DEF Create, fileVars
    <2>2. PICK keys \in Keys :
             watcher' = [mtime |-> 0, snapshot |-> keys, pending |-> << >>]
      <3>1. NoKeys \in Keys
        BY DEF NoKeys, NoValue, Keys
      <3>2. CASE file.kind = "mapping" /\ file.keys # NoKeys
        BY <1>0, <1>3, <3>2 DEF Create, NoWatcher
      <3>3. CASE ~(file.kind = "mapping" /\ file.keys # NoKeys)
        BY <1>3, <3>1, <3>3 DEF Create, NoWatcher
      <3> QED
        BY <3>2, <3>3
    <2>3. settled' = keys
      BY <2>1, <2>2
    <2>4. watcher' \in Watchers /\ NothingDangerousSlips'
      BY <2>2, <2>3, ForgetKeeps
    <2> QED
      BY <1>0, <2>1, <2>4 DEF SlipInv
  <1>4. CASE NoteFirstMtime \/ PollStat
    <2>1. UNCHANGED <<file, settled>>
      BY <1>4 DEF NoteFirstMtime, PollStat, fileVars
    <2>2. PICK t \in Nat : watcher' = [watcher EXCEPT !.mtime = t]
      BY <1>0, <1>4 DEF NoteFirstMtime, PollStat
    <2>3. watcher' \in Watchers /\ watcher'.snapshot = watcher.snapshot
          /\ watcher'.pending = watcher.pending
      BY <1>0, <2>2 DEF Watchers
    <2> QED
      BY <1>0, <2>1, <2>3, SlipSame DEF SlipInv
  <1>5. CASE PollRead
    BY <1>5, ReadKeeps
  <1>6. CASE Settle
    <2>1. file' = file /\ settled' = watcher.snapshot
          /\ watcher' = [watcher EXCEPT !.pending = << >>]
      BY <1>6 DEF Settle, Settled, fileVars
    <2>2. watcher' = [mtime |-> watcher.mtime, snapshot |-> watcher.snapshot,
                      pending |-> << >>]
      BY <1>0, <2>1
    <2>3. watcher' \in Watchers /\ NothingDangerousSlips'
      BY <1>0, <2>1, <2>2, ForgetKeeps
    <2> QED
      BY <1>0, <2>1, <2>3 DEF SlipInv
  <1>7. CASE Admin
    <2>1. Exit /\ UNCHANGED fileVars
      BY <1>7 DEF Admin, AdminLook, AdminReject, AdminConfirm
    <2>2. file' = file /\ settled' = NoKeys
          /\ watcher' = [mtime |-> 0, snapshot |-> NoKeys, pending |-> << >>]
      BY <2>1 DEF Exit, fileVars, NoWatcher
    <2>3. NoKeys \in Keys
      BY DEF NoKeys, NoValue, Keys
    <2>4. watcher' \in Watchers /\ NothingDangerousSlips'
      BY <2>2, <2>3, ForgetKeeps
    <2> QED
      BY <1>0, <2>2, <2>4 DEF SlipInv
  <1>8. CASE \/ Tock \/ PollNothing \/ Submit
             \/ \E token \in DOMAIN shown : GuardConfirm(token) \/ GuardReject(token)
             \/ UNCHANGED configVars
    <2>1. Same
      BY <1>8 DEF Tock, PollNothing, Submit, GuardConfirm, GuardReject, configVars, fileVars
    <2> QED
      BY <1>1, <2>1
  <1> QED
    BY <1>2, <1>3, <1>4, <1>5, <1>6, <1>7, <1>8 DEF ConfigNext, Caller

\* However often the file is edited and polled before anyone confirms, the changes that
\* wait lead for every dangerous key from the value last settled to the current one.
THEOREM DangerousChangesAreChained == ConfigSpec => []NothingDangerousSlips
  <1>1. SlipInv => NothingDangerousSlips
    BY DEF SlipInv
  <1> QED
    BY <1>1, SlipStarts, SlipStepKeeps, PTL DEF ConfigSpec
=============================================================================
