------------------------------- MODULE MCData -------------------------------
(***************************************************************************)
(* What the bot and its operators make of data, four components that share *)
(* nothing, one at a time: part says which of them moves in a behaviour,   *)
(* and the others stay as they begin.                                      *)
(*   book: the local order book, in which a level of 4 beside two of 1 is  *)
(* a wall.                                                                 *)
(*   quoting: the reference price and the strategies, in a market that     *)
(* falls from 102 over 82, where the ladder is above the price but not     *)
(* suspended, to 61, where it is, and comes back.                          *)
(*   replay: a recording with a snapshot with two sides and one without    *)
(* bids, of which an order can fill at a small or a large gain or loss.    *)
(*   config: a file with a key of every level, and one that is not there   *)
(* or cannot be read.                                                      *)
(***************************************************************************)
EXTENDS MarketData, Quoting, Replay, ConfigReload

VARIABLE part

MCPrices == {10, 11, 13}
MCSnapshots == {[buy |-> 10 :> 1 @@ 11 :> 4, sell |-> 13 :> 1],
                [buy |-> 10 :> 1, sell |-> << >>]}

MCQuotes == {<<100, 104>>, <<80, 84>>, <<60, 62>>}

MCRecords == {[bid |-> 99, ask |-> 101, last |-> 100],
              [bid |-> 0, ask |-> 111, last |-> 110]}
MCRequests == {[side |-> "buy", price |-> 120, size |-> 3],
               [side |-> "sell", price |-> 99, size |-> 1]}
MinusTwenty == -20

MCLevels == [spread |-> 1, position |-> 2, pair |-> 2, url |-> 3]
FileKeys(s, p, q, u) == [spread |-> s, position |-> p, pair |-> q, url |-> u]
MCFiles == {[kind |-> "mapping", keys |-> FileKeys(1, 1, 1, 1)],
            [kind |-> "mapping", keys |-> FileKeys(2, 2, 0, 1)],
            [kind |-> "mapping", keys |-> NoKeys],
            [kind |-> "unreadable", keys |-> NoKeys],
            [kind |-> "missing", keys |-> NoKeys]}

MCVars == <<marketVars, quotingVars, replayVars, configVars, part>>

MCInit ==
    /\ part \in {"book", "quoting", "replay", "config"}
    /\ MarketInit
    /\ QuotingInit
    /\ ReplayInit
    /\ ConfigInit
    /\ part # "quoting" => driver = "bot" /\ kind = "accum"
    /\ part # "config" => user = "caller" /\ file.kind = "missing"

MCNext ==
    /\ UNCHANGED part
    /\ \/ part = "book" /\ MarketNext /\ UNCHANGED <<quotingVars, replayVars, configVars>>
       \/ part = "quoting" /\ QuotingNext /\ UNCHANGED <<marketVars, replayVars, configVars>>
       \/ part = "replay" /\ ReplayNext /\ UNCHANGED <<marketVars, quotingVars, configVars>>
       \/ part = "config" /\ ConfigNext /\ UNCHANGED <<marketVars, quotingVars, replayVars>>

MCSpec == MCInit /\ [][MCNext]_MCVars
=============================================================================
