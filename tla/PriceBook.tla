------------------------------ MODULE PriceBook ------------------------------
(***************************************************************************)
(* What a local order book promises (market/contract.py): a size per price *)
(* on either side, replaced by a snapshot or changed at one price by a     *)
(* delta, and the last mid prices it has had.                              *)
(***************************************************************************)
EXTENDS Naturals, Sequences, FiniteSetsExt

CONSTANTS
    Prices,
    LevelSizes,
    Snapshots,      \* what a snapshot may show: a size for some of the prices, by side
    Capacity        \* mid prices remembered

VARIABLES
    depth,          \* side -> price -> size
    mids            \* the last mid prices, newest first, in half units

BookSides == {"buy", "sell"}
NoLevels == << >>

\* The mid of two books, 0 when a side is empty.
MidOf(d) ==
    IF DOMAIN d["buy"] = {} \/ DOMAIN d["sell"] = {} THEN 0
    ELSE Max(DOMAIN d["buy"]) + Min(DOMAIN d["sell"])

Remembered(d) ==
    IF MidOf(d) = 0 THEN mids
    ELSE SubSeq(<<MidOf(d)>> \o mids, 1, Min({Capacity, Len(mids) + 1}))

BookInit == depth = [s \in BookSides |-> NoLevels] /\ mids = << >>

Replace ==
    \E d \in Snapshots :
        /\ depth' = d
        /\ mids' = Remembered(d)

Change ==
    \E s \in BookSides, p \in Prices, n \in LevelSizes \cup {0} :
        LET kept == DOMAIN depth[s] \ {p}
            d == [depth EXCEPT ![s] =
                     [q \in (IF n = 0 THEN kept ELSE kept \cup {p}) |->
                         IF q = p THEN n ELSE depth[s][q]]]
        IN  depth' = d /\ mids' = Remembered(d)

BookSpec == BookInit /\ [][Replace \/ Change]_<<depth, mids>>
=============================================================================
