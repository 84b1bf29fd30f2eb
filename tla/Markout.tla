------------------------------- MODULE Markout -------------------------------
(***************************************************************************)
(* markout/: MarkoutRecorder (what the price did after a fill),            *)
(* ToxicDetector (was the fill toxic) and ToxicResponse (how to react), as *)
(* operators on their states.  All three are called without an await.      *)
(***************************************************************************)
EXTENDS Integers, Sequences, SequencesExt

CONSTANTS
    Intervals,      \* MARKOUT_INTERVALS
    FastInterval,   \* the interval a reversal is looked for at
    AdverseBps,     \* adverse_markout_bps
    ReversalBps,    \* fast_reversal_bps
    LargePct,       \* large_size_multiple, in percent
    SizeSamples,    \* the fewest sizes an average is taken of
    WindowFills,    \* window_fills
    ElevatedPct, DormantPct, HaltPct,   \* the ratios of the levels, in percent
    MinSamples,     \* min_samples
    ResponseCooldown    \* cooldown_sec of the response

ASSUME MarkoutAssumption ==
    /\ Intervals \subseteq Nat \ {0} /\ Intervals # {} /\ FastInterval \in Intervals
    /\ AdverseBps \in Int /\ ReversalBps \in Nat /\ LargePct \in Nat
    /\ SizeSamples \in Nat /\ WindowFills \in Nat \ {0} /\ MinSamples \in Nat
    /\ ResponseCooldown \in Nat
    /\ {ElevatedPct, DormantPct, HaltPct} \subseteq Nat
    /\ 0 < ElevatedPct /\ ElevatedPct < DormantPct /\ DormantPct < HaltPct

-----------------------------------------------------------------------------
(* MarkoutRecorder                                                         *)

\* on_fill(): after maps an interval to the mid that followed it.  (History: rows, the
\* mids the record has been shown, each with the time since the fill.)
Filled(side, price, size, mid, now) ==
    [side |-> side, price |-> price, size |-> size, mid |-> mid, at |-> now,
     after |-> << >>, rows |-> << >>]

MutDue(record, now) == {i \in Intervals \ DOMAIN record.after : now - record.at > i}

\* Intervals that have passed and have no mid yet.
Due(record, now) == {i \in Intervals \ DOMAIN record.after : now - record.at >= i}

\* update_mid() for one record.
WithMid(record, mid, now) ==
    [record EXCEPT !.after = [i \in DOMAIN @ \cup Due(record, now) |->
                                 IF i \in DOMAIN @ THEN @[i] ELSE mid],
                   !.rows = Append(@, [since |-> now - record.at, mid |-> mid])]

Complete(record) == DOMAIN record.after = Intervals

Longest == CHOOSE i \in Intervals : \A j \in Intervals : j <= i

\* _compute_markout_bps() of a completed record, as a pair: change over mid.
MarkoutOf(record) ==
    <<IF record.side = "buy" THEN record.price - record.after[Longest]
                             ELSE record.after[Longest] - record.price, record.mid>>

-----------------------------------------------------------------------------
(* ToxicDetector                                                           *)

NewDetector == [sizes |-> << >>, toxic |-> 0, total |-> 0]

Abs(n) == IF n < 0 THEN -n ELSE n

SumOf(sizes) == FoldSeq(+, 0, sizes)

\* A deque of window_fills drops its oldest.
InDeque(deque, x) ==
    LET all == Append(deque, x)
    IN  IF Len(all) > WindowFills THEN Tail(all) ELSE all

\* _fill_sizes, the size of the record included.
SizesWith(detector, record) == InDeque(detector.sizes, record.size)

IsAdverse(record) ==
    MarkoutOf(record)[1] * 10000 <= AdverseBps * MarkoutOf(record)[2]

IsLarge(record, sizes) ==
    /\ Len(sizes) >= SizeSamples
    /\ SumOf(sizes) > 0
    /\ record.size * Len(sizes) * 100 >= SumOf(sizes) * LargePct

Reversed(record) ==
    Abs(record.after[FastInterval] - record.mid) * 10000 >= ReversalBps * record.mid

\* All signals must fire at once.
IsToxic(detector, record) ==
    IsAdverse(record) /\ IsLarge(record, SizesWith(detector, record)) /\ Reversed(record)

Evaluated(detector, record) ==
    [sizes |-> SizesWith(detector, record),
     toxic |-> detector.toxic + IF IsToxic(detector, record) THEN 1 ELSE 0,
     total |-> detector.total + 1]

-----------------------------------------------------------------------------
(* ToxicResponse                                                           *)

Levels == {"NORMAL", "ELEVATED", "DORMANT", "HALT"}

Band(toxic, total) ==
    IF toxic * 100 >= HaltPct * total THEN "HALT"
    ELSE IF toxic * 100 >= DormantPct * total THEN "DORMANT"
    ELSE IF toxic * 100 >= ElevatedPct * total THEN "ELEVATED"
    ELSE "NORMAL"

MutStays(level, detector) ==
    IF detector.total < MinSamples \/ level # "NORMAL" THEN level
    ELSE Band(detector.toxic, detector.total)

\* evaluate(): the ratio is that of all fills since the start.
LevelOfRatio(level, detector) ==
    IF detector.total < MinSamples THEN level
    ELSE Band(detector.toxic, detector.total)

\* The time since _elevated_since, which is set when ELEVATED is entered.
WaitedSince(level, waited, detector) ==
    IF LevelOfRatio(level, detector) = "ELEVATED" /\ level # "ELEVATED" THEN 0 ELSE waited

\* The auto-recovery of evaluate(), from the level the ratio has just set.
Respond(level, waited, detector) ==
    IF /\ detector.total >= MinSamples
       /\ LevelOfRatio(level, detector) = "ELEVATED"
       /\ WaitedSince(level, waited, detector) > ResponseCooldown
       /\ detector.toxic * 100 < ElevatedPct * detector.total
    THEN "NORMAL" ELSE LevelOfRatio(level, detector)
=============================================================================
