------------------------------- MODULE MCVenue -------------------------------
(***************************************************************************)
(* What stands between the bot and its venue, three components that share  *)
(* nothing, one at a time: part says which of them moves in a behaviour,   *)
(* and the others stay as they begin.                                      *)
(*   limiter: two coroutines share a bucket of one token that refills at   *)
(* 2/3 of a token per unit of time, wait at most 3 units and poll every 2: *)
(* a token arrives between two polls, both callers may be asleep at once,  *)
(* and the last poll is cut short by the deadline.                         *)
(*   orders: LiveOrderEngine called in every order by one caller, over a   *)
(* venue that accepts two orders of two units, with one crash: enough for  *)
(* an order that is filled in part, one that fills while it is being       *)
(* cancelled, one whose answer is lost, and for an order of the first      *)
(* process that meets one of the second under the same tag.                *)
(*   feed: a consumer of one pair's order book and one of every update of  *)
(* the channel, over messages that name the pair or do not.                *)
(***************************************************************************)
EXTENDS RateLimiter, OrderEngine, Feed

VARIABLE part

CONSTANTS c1, c2
MCCallers == {c1, c2}

MCSides == {"buy"}
MCSizes == {2}
MCPrices == {2}

MCKeys == {"book:pair", "book:update"}
MCSubscribers == {"pairFeed", "allFeed"}
MCKeyOf == [pairFeed |-> "book:pair", allFeed |-> "book:update"]
MCMessages == {<<"book:pair", "book:update">>, <<"book:update">>}

MCVars == <<vars, tradingVars, feedVars, part>>

MCInit ==
    /\ part \in {"limiter", "orders", "feed"}
    /\ Init
    /\ EngineInit
    /\ FeedInit

MCNext ==
    /\ UNCHANGED part
    /\ \/ part = "limiter" /\ Next /\ UNCHANGED <<tradingVars, feedVars>>
       \/ part = "orders" /\ EngineNext /\ UNCHANGED <<vars, feedVars>>
       \/ part = "feed" /\ FeedNext /\ UNCHANGED <<vars, tradingVars>>

MCSpec == MCInit /\ [][MCNext]_MCVars /\ FeedFairness
=============================================================================
