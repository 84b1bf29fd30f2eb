----------------------------- MODULE MarketData -----------------------------
(***************************************************************************)
(* LiveMarketData of market/market_data.py: the order book as two sorted   *)
(* lists with a lookup by price beside each, a ring buffer of mid prices,  *)
(* and indicators that are computed on demand and kept until the book      *)
(* changes.  Every method runs to its end without an await.  Mid prices    *)
(* are in half units, ratios are pairs.                                    *)
(***************************************************************************)
EXTENDS Naturals, Integers, Sequences, SequencesExt

CONSTANTS
    Prices, LevelSizes, Snapshots,
    Capacity,       \* _PRICE_HISTORY_CAPACITY
    CrashPct,       \* flash_crash_threshold_pct
    TopLevels,      \* levels that a depth wall and the imbalance look at
    WallLevels,     \* the fewest levels a depth wall is looked for in
    WallTimes,      \* times the average that make a wall
    Notionals       \* values that an average price is asked for

Sides2 == {"buy", "sell"}
None == << >>

\* A snapshot shows finitely many levels on either side.
ASSUME MarketAssumption ==
    /\ Prices \subseteq Nat \ {0} /\ LevelSizes \subseteq Nat \ {0}
    /\ Snapshots \subseteq
         [Sides2 -> UNION {[P -> LevelSizes] : P \in {Q \in SUBSET Prices : IsFiniteSet(Q)}}]
    /\ Capacity \in Nat \ {0} /\ CrashPct \in Nat
    /\ TopLevels \in Nat \ {0} /\ WallLevels \in Nat \ {0} /\ WallTimes \in Nat
    /\ Notionals \subseteq Nat \ {0}

VARIABLES
    levels,         \* _bids and _asks, best first
    lookup,         \* _bids_by_price and _asks_by_price
    ring,           \* _mid_history
    ringNext,       \* _history_idx
    ringCount,      \* _history_count, told apart up to Capacity
    signals         \* _cached_signals; none while _signals_stale, for none is read then

marketVars == <<levels, lookup, ring, ringNext, ringCount, signals>>

MarketInit ==
    /\ levels = [s \in Sides2 |-> << >>]
    /\ lookup = [s \in Sides2 |-> << >>]
    /\ ring = << >> /\ ringNext = 0 /\ ringCount = 0
    /\ signals = None

Better(side, p, q) == IF side = "buy" THEN p > q ELSE p < q

Best(lv, side) == IF lv[side] = << >> THEN 0 ELSE lv[side][1].price

MidPrice(lv) ==
    IF Best(lv, "buy") = 0 \/ Best(lv, "sell") = 0 THEN 0
    ELSE Best(lv, "buy") + Best(lv, "sell")

-----------------------------------------------------------------------------
(* Mutators                                                                *)

MutRingStands(mid) ==
    IF mid = 0 THEN UNCHANGED <<ring, ringNext, ringCount>>
    ELSE /\ ring' = IF Len(ring) < Capacity THEN Append(ring, mid)
                    ELSE [ring EXCEPT ![ringNext + 1] = mid]
         /\ ringNext' = IF Len(ring) < Capacity THEN (ringNext + 1) % Capacity ELSE ringNext
         /\ ringCount' = Min({ringCount + 1, Capacity})

\* _record_mid(): a book with an empty side has no mid to record.
RecordMid(mid) ==
    IF mid = 0 THEN UNCHANGED <<ring, ringNext, ringCount>>
    ELSE /\ ring' = IF Len(ring) < Capacity THEN Append(ring, mid)
                    ELSE [ring EXCEPT ![ringNext + 1] = mid]
         /\ ringNext' = (ringNext + 1) % Capacity
         /\ ringCount' = Min({ringCount + 1, Capacity})

\* The list of the entries, best first.
Sorted(side, entries) ==
    CHOOSE list \in [1..Cardinality(entries) -> entries] :
        \A i, j \in DOMAIN list : i < j => Better(side, list[i].price, list[j].price)

Entries(sizes) == {[price |-> p, size |-> sizes[p]] : p \in DOMAIN sizes}

\* A snapshot names a price at most once on a side.
ApplySnapshot(snapshot) ==
    /\ levels' = [s \in Sides2 |-> Sorted(s, Entries(snapshot[s]))]
    /\ lookup' = snapshot
    /\ signals' = None
    /\ RecordMid(MidPrice(levels'))

MutInsertBehind(side, list, entry) == Append(list, entry)

\* Where bisect_left finds room for the entry in the sorted list.
InsertSorted(side, list, entry) ==
    LET ahead == Cardinality({i \in DOMAIN list : Better(side, list[i].price, entry.price)})
    IN  InsertAt(list, ahead + 1, entry)

MutDeltaKeepsSignals(side, price, size) ==
    LET old == IF price \in DOMAIN lookup[side]
               THEN RemoveFirst(levels[side], [price |-> price, size |-> lookup[side][price]])
               ELSE levels[side]
        kept == DOMAIN lookup[side] \ {price}
        entry == [price |-> price, size |-> size]
    IN  /\ levels' = [levels EXCEPT ![side] =
                         IF size > 0 THEN InsertSorted(side, old, entry) ELSE old]
        /\ lookup' = [lookup EXCEPT ![side] =
                         [p \in (IF size > 0 THEN kept \cup {price} ELSE kept) |->
                             IF p = price THEN size ELSE lookup[side][p]]]
        /\ RecordMid(MidPrice(levels'))
        /\ UNCHANGED signals

\* The level that the lookup knows is taken out of the list, and the new one put
\* in its place unless it is empty.
ApplyDelta(side, price, size) ==
    LET old == IF price \in DOMAIN lookup[side]
               THEN RemoveFirst(levels[side], [price |-> price, size |-> lookup[side][price]])
               ELSE levels[side]
        kept == DOMAIN lookup[side] \ {price}
        entry == [price |-> price, size |-> size]
    IN  /\ levels' = [levels EXCEPT ![side] =
                         IF size > 0 THEN InsertSorted(side, old, entry) ELSE old]
        /\ lookup' = [lookup EXCEPT ![side] =
                         [p \in (IF size > 0 THEN kept \cup {price} ELSE kept) |->
                             IF p = price THEN size ELSE lookup[side][p]]]
        /\ RecordMid(MidPrice(levels'))
        /\ signals' = None

-----------------------------------------------------------------------------
(* Queries                                                                 *)

SizesOf(list) == [i \in DOMAIN list |-> list[i].size]
Total(list) == FoldSeq(+, 0, SizesOf(list))
Top(list) == SubSeq(list, 1, Min({TopLevels, Len(list)}))

\* depth_at_price(): down the list to the first level that is worse.
DepthAtPrice(side, price) ==
    LET list == levels[side]
        worse == {i \in DOMAIN list : Better(side, price, list[i].price)}
    IN  Total(IF worse = {} THEN list ELSE SubSeq(list, 1, Min(worse) - 1))

\* vwap(): cost and size taken level by level until the notional is reached; the
\* level that reaches it is taken in part (part, at its price at).
Take(taken, level) ==
    IF taken.left = 0 THEN taken
    ELSE IF level.size * level.price >= taken.left
         THEN [taken EXCEPT !.part = taken.left, !.at = level.price, !.left = 0]
         ELSE [taken EXCEPT !.cost = @ + level.size * level.price,
                            !.size = @ + level.size,
                            !.left = @ - level.size * level.price]

\* The average price as a pair, cost over size.
Vwap(side, notional) ==
    LET taken == FoldLeft(Take, [left |-> notional, cost |-> 0, size |-> 0, part |-> 0,
                                 at |-> 1], levels[side])
    IN  <<(taken.cost + taken.part) * taken.at, taken.size * taken.at + taken.part>>

\* _recent_mids(): back from the entry written last.
RecentMids == [i \in 1..ringCount |-> ring[((ringNext - i) % Capacity) + 1]]

\* A fall of the threshold within the window - or a rise: only the extremes count.
FlashCrash ==
    LET seen == ToSet(RecentMids)
    IN  ringCount >= 2 /\ (Max(seen) - Min(seen)) * 100 >= CrashPct * Max(seen)

DepthWall(side) ==
    LET top == Top(levels[side])
    IN  /\ Len(levels[side]) >= WallLevels
        /\ Max(ToSet(SizesOf(top))) * Len(top) >= WallTimes * Total(top)

SpreadBps ==
    LET spread == Best(levels, "sell") - Best(levels, "buy")
    IN  IF MidPrice(levels) = 0 \/ spread <= 0 THEN <<0, 1>>
        ELSE <<spread, MidPrice(levels)>>

Imbalance ==
    LET bids == Total(Top(levels["buy"]))
        asks == Total(Top(levels["sell"]))
    IN  IF bids + asks = 0 THEN <<0, 1>> ELSE <<bids - asks, bids + asks>>

CurrentSignals ==
    <<FlashCrash, DepthWall("buy"), DepthWall("sell"), SpreadBps, Imbalance>>

ComputeSignals ==
    /\ signals = None
    /\ signals' = CurrentSignals
    /\ UNCHANGED <<levels, lookup, ring, ringNext, ringCount>>

-----------------------------------------------------------------------------
MarketNext ==
    \/ \E snapshot \in Snapshots : ApplySnapshot(snapshot)
    \/ \E side \in Sides2, price \in Prices, size \in LevelSizes \cup {0} :
          ApplyDelta(side, price, size)
    \/ ComputeSignals

MarketSpec == MarketInit /\ [][MarketNext]_marketVars

\* The list of a side, as sizes by price.
AsSizes(list) ==
    [p \in {list[i].price : i \in DOMAIN list} |->
        (CHOOSE lv \in ToSet(list) : lv.price = p).size]

Book == INSTANCE PriceBook WITH
            depth <- [s \in Sides2 |-> AsSizes(levels[s])],
            mids <- RecentMids

(***************************************************************************)
(* The lists and the ring implement the book that the contract speaks of:  *)
(* every sequence of snapshots and deltas leaves the sizes, the best       *)
(* prices and the last mids that it says.                                  *)
(***************************************************************************)
ImplementsPriceBook == Book!BookSpec

(***************************************************************************)
(* The signals that are kept are those of the book and of the mids as they *)
(* are now: no snapshot and no delta leaves an old answer behind.          *)
(***************************************************************************)
SignalsFresh == signals # None => signals = CurrentSignals

(***************************************************************************)
(* What the queries read off the sorted lists, stopping early, is what the *)
(* lookups say: the best price is one that no other is better than, the    *)
(* depth at a price is that of all levels at least as good, and the        *)
(* average price for a notional, whichever levels it is made of, is within *)
(* the prices of the side.                                                 *)
(***************************************************************************)
QueriesMatchBook ==
    \A s \in Sides2 :
        LET sizes == lookup[s]
        IN  /\ IF DOMAIN sizes = {} THEN Best(levels, s) = 0
               ELSE /\ Best(levels, s) \in DOMAIN sizes
                    /\ \A q \in DOMAIN sizes : ~Better(s, q, Best(levels, s))
            /\ \A p \in Prices :
                  DepthAtPrice(s, p)
                    = FoldFunctionOnSet(+, 0, sizes, {q \in DOMAIN sizes : ~Better(s, p, q)})
            /\ DOMAIN sizes # {} =>
                  \A n \in Notionals :
                      LET v == Vwap(s, n)
                      IN  /\ v[1] <= Max(DOMAIN sizes) * v[2]
                          /\ v[1] >= Min(DOMAIN sizes) * v[2]
=============================================================================
