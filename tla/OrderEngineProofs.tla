-------------------------- MODULE OrderEngineProofs --------------------------
(***************************************************************************)
(* What LiveOrderEngine knows of its orders, for any number of orders,     *)
(* placements and crashes, over a venue that moves on its own.             *)
(***************************************************************************)
EXTENDS OrderEngine, TLAPS

(***************************************************************************)
(* Maps of orders                                                          *)
(***************************************************************************)

\* A part of an order map is one.
LEMMA PartOfOrderMap ==
    ASSUME NEW m, IsOrderMap(m), NEW S \in SUBSET (DOMAIN m)
    PROVE  /\ IsOrderMap(Restrict(m, S))
           /\ DOMAIN Restrict(m, S) = S
           /\ \A oid \in S : Restrict(m, S)[oid] = m[oid]
  BY DEF IsOrderMap, Restrict

LEMMA PartOfBook ==
    ASSUME NEW m, IsBook(m), NEW S \in SUBSET (DOMAIN m)
    PROVE  /\ IsBook(Restrict(m, S))
           /\ DOMAIN Restrict(m, S) = S
           /\ \A oid \in S : Restrict(m, S)[oid] = m[oid]
  BY DEF IsBook, Restrict

LEMMA NoOrdersFacts == IsOrderMap(NoOrders) /\ IsBook(NoOrders) /\ DOMAIN NoOrders = {}
  BY DEF IsOrderMap, IsBook, NoOrders

LEMMA RequestFacts ==
    ASSUME NEW req \in Request
    PROVE  /\ req.side \in Sides /\ req.size \in Nat /\ req.size > 0
           /\ req.price \in Nat /\ req.price > 0
  <1>1. req.side \in Sides /\ req.size \in Sizes /\ req.price \in Prices
    BY DEF Request
  <1>2. \A n \in Sizes \cup Prices : n \in Nat /\ n > 0
    BY ExchangeAssumption
  <1> QED
    BY <1>1, <1>2

\* What the client makes of a record of the venue.
LEMMA FromGateOrderFacts ==
    ASSUME NEW o \in BookOrder
    PROVE  /\ FromGateOrder(o) \in Order
           /\ FromGateOrder(o).tag = o.tag /\ FromGateOrder(o).side = o.side
           /\ FromGateOrder(o).size = o.size /\ FromGateOrder(o).filled = o.total
  BY DEF FromGateOrder, BookOrder, Order

\* Accepting an order adds it to the book and touches no other.
LEMMA AcceptFacts ==
    ASSUME IsBook(book), nextOid \in 1..(MaxOid + 1),
           NEW tag \in 1..MaxNonce, NEW req \in Request, Accept(tag, req)
    PROVE  /\ IsBook(book')
           /\ nextOid \in 1..MaxOid /\ nextOid' \in 1..(MaxOid + 1) /\ nextOid < nextOid'
           /\ DOMAIN book' = DOMAIN book \cup {nextOid}
           /\ book'[nextOid] = NewOrder(tag, req)
           /\ book'[nextOid].rem > 0 /\ book'[nextOid].rem <= book'[nextOid].size
           /\ \A oid \in DOMAIN book : oid # nextOid => book'[oid] = book[oid]
  <1> USE ExchangeAssumption
  <1>1. nextOid \in 1..MaxOid /\ nextOid' = nextOid + 1
    BY DEF Accept
  <1>2. DOMAIN book' = DOMAIN book \cup {nextOid}
    BY DEF Accept
  <1>3. book'[nextOid] = NewOrder(tag, req)
    BY DEF Accept
  <1>4. \A oid \in DOMAIN book : oid # nextOid => book'[oid] = book[oid]
    BY DEF Accept
  <1>5. /\ NewOrder(tag, req) \in BookOrder
        /\ NewOrder(tag, req).rem > 0 /\ NewOrder(tag, req).rem <= NewOrder(tag, req).size
    BY RequestFacts DEF NewOrder, BookOrder
  <1>6. book' \in [DOMAIN book' -> BookOrder]
    <2>1. \A oid \in DOMAIN book : book[oid] \in BookOrder
      BY DEF IsBook
    <2>2. \A oid \in DOMAIN book' : book'[oid] \in BookOrder
      BY <1>2, <1>3, <1>4, <1>5, <2>1
    <2>3. book' = [oid \in DOMAIN book' |-> book'[oid]]
      BY DEF Accept
    <2> QED
      BY <2>2, <2>3
  <1>7. DOMAIN book' \subseteq 1..MaxOid
    BY <1>1, <1>2 DEF IsBook
  <1> QED
    BY <1>1, <1>2, <1>3, <1>4, <1>5, <1>6, <1>7 DEF IsBook

\* What may become of an order's record: nothing of it but more filled of it.
Grown(o, p) ==
    /\ p.tag = o.tag /\ p.side = o.side /\ p.size = o.size
    /\ o.total <= p.total /\ p.rem <= o.rem

LEMMA TradedFacts ==
    ASSUME NEW o \in BookOrder, o.rem > 0, o.rem # 1, o.rem <= o.size
    PROVE  /\ Traded(o) \in BookOrder /\ Grown(o, Traded(o))
           /\ Traded(o).rem > 0 /\ Traded(o).rem <= Traded(o).size
  <1>1. o.rem \in Nat /\ o.size \in Nat /\ o.price \in Nat /\ o.total \in Nat
    BY DEF BookOrder
  <1>2. o.rem - 1 \in Nat /\ o.rem - 1 > 0 /\ o.rem - 1 <= o.rem /\ o.rem - 1 <= o.size
          /\ o.total + o.price \in Nat /\ o.total <= o.total + o.price
    BY <1>1
  <1>3. /\ Traded(o).rem = o.rem - 1 /\ Traded(o).total = o.total + o.price
        /\ Traded(o).tag = o.tag /\ Traded(o).side = o.side /\ Traded(o).size = o.size
        /\ Traded(o) \in BookOrder
    BY <1>2 DEF Traded, BookOrder
  <1> QED
    BY <1>2, <1>3 DEF Grown

LEMMA StaysGrown ==
    ASSUME NEW o \in BookOrder
    PROVE  Grown(o, o)
  BY DEF Grown, BookOrder

\* A trade leaves less of one order, or none of it, and touches no other.
LEMMA FillFacts ==
    ASSUME IsBook(book), held \in Nat, NEW oid \in DOMAIN book, Fill(oid),
           \A o \in DOMAIN book : book[o].rem > 0 /\ book[o].rem <= book[o].size
    PROVE  /\ IsBook(book') /\ held' \in Nat
           /\ DOMAIN book' \subseteq DOMAIN book
           /\ \A o \in DOMAIN book' :
                 /\ Grown(book[o], book'[o])
                 /\ book'[o].rem > 0 /\ book'[o].rem <= book'[o].size
           /\ UNCHANGED <<nextOid, late>>
  <1>1. book[oid] \in BookOrder /\ \A o \in DOMAIN book : book[o] \in BookOrder
    BY DEF IsBook
  <1>2. held' \in Nat
    <2>1. book[oid].side = "buy" \/ book[oid].side = "sell"
      BY <1>1, ExchangeAssumption DEF BookOrder
    <2> QED
      BY <2>1 DEF Fill
  <1>3. UNCHANGED <<nextOid, late>>
    BY DEF Fill
  <1>4. CASE book[oid].rem = 1
    <2>1. book' = Restrict(book, DOMAIN book \ {oid})
      BY <1>4 DEF Fill
    <2>2. IsBook(book') /\ DOMAIN book' = DOMAIN book \ {oid}
            /\ \A o \in DOMAIN book' : book'[o] = book[o]
      BY <2>1, PartOfBook
    <2> QED
      BY <1>1, <1>2, <1>3, <2>2, StaysGrown
  <1>5. CASE book[oid].rem # 1
    <2>1. book' = [book EXCEPT ![oid] = Traded(book[oid])]
      BY <1>5 DEF Fill
    <2>2. DOMAIN book' = DOMAIN book /\ book'[oid] = Traded(book[oid])
            /\ \A o \in DOMAIN book : o # oid => book'[o] = book[o]
      BY <2>1
    <2>3. /\ Traded(book[oid]) \in BookOrder /\ Grown(book[oid], Traded(book[oid]))
          /\ Traded(book[oid]).rem > 0 /\ Traded(book[oid]).rem <= Traded(book[oid]).size
      BY <1>1, <1>5, TradedFacts
    <2>4. IsBook(book')
      BY <1>1, <2>1, <2>2, <2>3 DEF IsBook
    <2> QED
      BY <1>1, <1>2, <1>3, <2>2, <2>3, <2>4, StaysGrown
  <1> QED
    BY <1>4, <1>5

LEMMA WithdrawFacts ==
    ASSUME IsBook(book), NEW oid, Withdraw(oid)
    PROVE  /\ IsBook(book')
           /\ DOMAIN book' = DOMAIN book \ {oid}
           /\ \A o \in DOMAIN book' : book'[o] = book[o]
           /\ UNCHANGED <<nextOid, held, late>>
  BY PartOfBook DEF Withdraw

\* Dropping orders drops their tags and keeps everything else.
LEMMA UntrackFacts ==
    ASSUME IsOrderMap(open), NEW oids, Untrack(oids)
    PROVE  /\ IsOrderMap(open')
           /\ DOMAIN open' = DOMAIN open \ oids
           /\ \A o \in DOMAIN open' : open'[o] = open[o]
           /\ DOMAIN byTag' = DOMAIN byTag \ TagsOf(oids)
           /\ \A t \in DOMAIN byTag' : byTag'[t] = byTag[t]
  <1>1. open' = Restrict(open, DOMAIN open \ oids)
    BY DEF Untrack
  <1>2. byTag' = Restrict(byTag, DOMAIN byTag \ TagsOf(oids))
    BY DEF Untrack
  <1>3. DOMAIN byTag' = DOMAIN byTag \ TagsOf(oids)
    BY <1>2 DEF Restrict
  <1>4. \A t \in DOMAIN byTag' : byTag'[t] = byTag[t]
    BY <1>2, <1>3 DEF Restrict
  <1> QED
    BY <1>1, <1>3, <1>4, PartOfOrderMap

-----------------------------------------------------------------------------
(* Type correctness                                                        *)

\* What is known of the call under way, by where it stands.
LEMMA PlaceShape ==
    ASSUME CallOK, call.op = "place"
    PROVE  /\ call.tag \in 1..MaxNonce /\ call.req \in Request
           /\ call.at \in {"limiter", "sent", "accepted"}
           /\ call.at \in {"limiter", "sent"}
                => call \in [op : {"place"}, at : {"limiter", "sent"}, tag : 1..MaxNonce,
                             req : Request]
           /\ call.at = "accepted" => call.oid \in 1..MaxOid
  BY DEF CallOK, Idle, At

LEMMA CancelShape ==
    ASSUME CallOK, call.op = "cancel"
    PROVE  call \in [op : {"cancel"}, at : {"sent", "cancelled", "gone"}, oid : DOMAIN open]
  BY DEF CallOK, Idle, At

LEMMA CancelAllShape ==
    ASSUME CallOK, call.op = "cancelAll"
    PROVE  call \in [op : {"cancelAll"}, at : {"sent", "cancelled"}, oids : {DOMAIN open}]
  BY DEF CallOK, Idle, At

LEMMA ListShape ==
    ASSUME CallOK, At("reconcile", "listed")
    PROVE  IsOrderMap(call.orders)
  BY DEF CallOK, Idle, At

LEMMA CallKept ==
    ASSUME CallOK, call' = call, DOMAIN open' = DOMAIN open
    PROVE  CallOK'
  BY DEF CallOK, At

LEMMA CallEnds ==
    ASSUME call' = Idle
    PROVE  CallOK'
  BY DEF CallOK

LEMMA InitEngineTypeOK == EngineInit => EngineTypeOK
  <1> SUFFICES ASSUME EngineInit
               PROVE  EngineTypeOK
    OBVIOUS
  <1>1. CallOK
    BY DEF EngineInit, CallOK
  <1> QED
    BY <1>1, NoOrdersFacts, ExchangeAssumption, OrderEngineAssumption
       DEF ExchangeInit, EngineInit, EngineTypeOK

\* What create_order() answers is an order.
LEMMA AnswerTypes ==
    ASSUME EngineTypeOK, At("place", "accepted"), NEW order \in Answers
    PROVE  order \in BookOrder
  <1>1. call.tag \in 1..MaxNonce /\ call.req \in Request /\ call.oid \in 1..MaxOid
    BY PlaceShape DEF EngineTypeOK, At
  <1>2. /\ call.req.side \in Sides /\ call.req.size \in Nat /\ call.req.price \in Nat
        /\ call.req.size * call.req.price \in Nat
    BY <1>1, RequestFacts
  <1>3. NewOrder(call.tag, call.req) \in BookOrder
    BY <1>1, <1>2 DEF NewOrder, BookOrder
  <1>4. \A oid \in DOMAIN book : book[oid] \in BookOrder
    BY DEF EngineTypeOK, IsBook
  <1>5. [NewOrder(call.tag, call.req) EXCEPT !.rem = 0, !.total = call.req.size * call.req.price]
          \in BookOrder
    BY <1>2, <1>3 DEF BookOrder
  <1> QED
    BY <1>3, <1>4, <1>5 DEF Answers

\* What the answer of place() does to the maps.
LEMMA PlaceConfirmedFacts ==
    ASSUME EngineTypeOK, PlaceConfirmed
    PROVE  /\ call.oid \in 1..MaxOid /\ call.tag \in 1..MaxNonce
           /\ IsOrderMap(open')
           /\ DOMAIN open' = DOMAIN open \cup {call.oid}
           /\ \E order \in Answers : open'[call.oid] = FromGateOrder(order)
           /\ \A o \in DOMAIN open : o # call.oid => open'[o] = open[o]
           /\ DOMAIN byTag' = DOMAIN byTag \cup {call.tag}
           /\ byTag'[call.tag] = call.oid
           /\ \A t \in DOMAIN byTag : t # call.tag => byTag'[t] = byTag[t]
           /\ byTag' \in [DOMAIN byTag' -> 1..MaxOid]
  <1>1. IsOrderMap(open) /\ CallOK /\ At("place", "accepted")
    BY DEF EngineTypeOK, PlaceConfirmed
  <1>2. call.tag \in 1..MaxNonce /\ call.req \in Request /\ call.oid \in 1..MaxOid
    BY <1>1, PlaceShape DEF At
  <1>3. PICK order \in Answers :
          /\ open' = [o \in DOMAIN open \cup {call.oid} |->
                        IF o = call.oid THEN FromGateOrder(order) ELSE open[o]]
          /\ byTag' = [t \in DOMAIN byTag \cup {call.tag} |->
                         IF t = call.tag THEN call.oid ELSE byTag[t]]
    BY DEF PlaceConfirmed, Track
  <1>4. FromGateOrder(order) \in Order
    BY <1>1, AnswerTypes, FromGateOrderFacts
  <1>5. DOMAIN open' = DOMAIN open \cup {call.oid} /\ DOMAIN byTag' = DOMAIN byTag \cup {call.tag}
    BY <1>3
  <1>6. open'[call.oid] = FromGateOrder(order)
    BY <1>3
  <1>7. \A o \in DOMAIN open : o # call.oid => open'[o] = open[o]
    BY <1>3
  <1>8. byTag'[call.tag] = call.oid /\ \A t \in DOMAIN byTag : t # call.tag => byTag'[t] = byTag[t]
    BY <1>3
  <1>9. IsOrderMap(open')
    <2>1. \A o \in DOMAIN open' : open'[o] \in Order
      BY <1>1, <1>4, <1>5, <1>6, <1>7 DEF IsOrderMap
    <2>2. open' = [o \in DOMAIN open' |-> open'[o]]
      BY <1>3
    <2> QED
      BY <1>1, <1>2, <1>5, <2>1, <2>2 DEF IsOrderMap
  <1>10. byTag' \in [DOMAIN byTag' -> 1..MaxOid]
    <2>1. \A t \in DOMAIN byTag' : byTag'[t] \in 1..MaxOid
      BY <1>2, <1>5, <1>8 DEF EngineTypeOK
    <2>2. byTag' = [t \in DOMAIN byTag' |-> byTag'[t]]
      BY <1>3
    <2> QED
      BY <2>1, <2>2
  <1> QED
    BY <1>2, <1>5, <1>6, <1>7, <1>8, <1>9, <1>10

LEMMA PlaceTypeOK ==
    ASSUME EngineTypeOK,
           \/ \E req \in Request : PlaceCall(req)
           \/ PlaceLimited \/ PlaceSubmit \/ VenueAccepts
           \/ PlaceConfirmed \/ PlaceFailed \/ PlaceBroken
    PROVE  EngineTypeOK'
  <1> USE OrderEngineAssumption DEF exchangeVars
  <1>1. CallOK /\ IsBook(book) /\ IsOrderMap(open) /\ nextOid \in 1..(MaxOid + 1)
    BY DEF EngineTypeOK
  <1>2. ASSUME NEW req \in Request, PlaceCall(req)
        PROVE  EngineTypeOK'
    <2>1. nonce' \in 1..MaxNonce
      BY <1>2 DEF PlaceCall, EngineTypeOK
    <2>2. CallOK'
      BY <1>2, <2>1 DEF PlaceCall, CallOK
    <2> QED
      BY <1>2, <2>1, <2>2 DEF PlaceCall, EngineTypeOK
  <1>3. CASE PlaceLimited
    BY <1>3, CallEnds DEF PlaceLimited, EngineTypeOK
  <1>4. CASE PlaceSubmit
    <2>1. call \in [op : {"place"}, at : {"limiter", "sent"}, tag : 1..MaxNonce, req : Request]
      BY <1>1, <1>4, PlaceShape DEF PlaceSubmit, At
    <2>2. CallOK' /\ pending' \subseteq 1..MaxNonce
      BY <1>4, <2>1 DEF PlaceSubmit, CallOK, EngineTypeOK
    <2> QED
      BY <1>4, <2>2 DEF PlaceSubmit, EngineTypeOK
  <1>5. CASE VenueAccepts
    <2>1. call.tag \in 1..MaxNonce /\ call.req \in Request /\ Accept(call.tag, call.req)
      BY <1>1, <1>5, PlaceShape DEF VenueAccepts, At
    <2>2. /\ IsBook(book')
          /\ nextOid \in 1..MaxOid /\ nextOid' \in 1..(MaxOid + 1) /\ nextOid < nextOid'
          /\ DOMAIN book' = DOMAIN book \cup {nextOid}
          /\ book'[nextOid].rem > 0 /\ book'[nextOid].rem <= book'[nextOid].size
          /\ \A oid \in DOMAIN book : oid # nextOid => book'[oid] = book[oid]
      BY <1>1, <2>1, AcceptFacts
    <2>3. \A oid \in DOMAIN book' :
             book'[oid].rem > 0 /\ book'[oid].rem <= book'[oid].size /\ oid < nextOid'
      <3>1. \A oid \in DOMAIN book :
               /\ oid # nextOid /\ oid < nextOid'
               /\ book[oid].rem > 0 /\ book[oid].rem <= book[oid].size
        BY <1>1, <2>2 DEF EngineTypeOK, IsBook
      <3> QED
        BY <2>2, <3>1
    <2>4. CallOK'
      BY <1>5, <2>1, <2>2 DEF VenueAccepts, CallOK
    <2> QED
      BY <1>5, <2>2, <2>3, <2>4 DEF VenueAccepts, EngineTypeOK
  <1>6. CASE PlaceConfirmed
    <2>1. IsOrderMap(open') /\ DOMAIN byTag' \subseteq 1..MaxNonce
            /\ byTag' \in [DOMAIN byTag' -> 1..MaxOid]
      BY <1>6, PlaceConfirmedFacts DEF EngineTypeOK
    <2> QED
      BY <1>6, <2>1, CallEnds DEF PlaceConfirmed, EngineTypeOK
  <1>7. CASE PlaceFailed
    <2>1. call.at = "accepted" => call.oid \in 1..MaxOid
      BY <1>1, <1>7, PlaceShape DEF PlaceFailed, At
    <2> QED
      BY <1>7, <2>1, CallEnds DEF PlaceFailed, EngineTypeOK
  <1>8. CASE PlaceBroken
    <2>1. /\ call.at = "accepted" => call.oid \in 1..MaxOid
          /\ call.tag \in 1..MaxNonce /\ call.req \in Request
      BY <1>1, <1>8, PlaceShape DEF PlaceBroken, At
    <2>2. late' \subseteq [tag : 1..MaxNonce, req : Request] /\ adrift' \subseteq 1..MaxOid
      BY <1>8, <2>1 DEF PlaceBroken, EngineTypeOK
    <2> QED
      BY <1>8, <2>2, CallEnds DEF PlaceBroken, EngineTypeOK
  <1> QED
    BY <1>2, <1>3, <1>4, <1>5, <1>6, <1>7, <1>8

LEMMA UntrackTypeOK ==
    ASSUME EngineTypeOK, NEW oids, Untrack(oids), End("done"),
           UNCHANGED <<exchangeVars, pending, nonce, adrift, restarts>>
    PROVE  EngineTypeOK'
  <1>1. IsOrderMap(open)
    BY DEF EngineTypeOK
  <1>2. /\ IsOrderMap(open')
        /\ DOMAIN byTag' \subseteq DOMAIN byTag
        /\ \A t \in DOMAIN byTag' : byTag'[t] = byTag[t]
    BY <1>1, UntrackFacts
  <1>3. DOMAIN byTag' \subseteq 1..MaxNonce /\ byTag' \in [DOMAIN byTag' -> 1..MaxOid]
    <2>1. byTag' = [t \in DOMAIN byTag' |-> byTag'[t]]
      BY DEF Untrack, Restrict
    <2> QED
      BY <1>2, <2>1 DEF EngineTypeOK
  <1> QED
    BY <1>2, <1>3, CallEnds DEF EngineTypeOK, exchangeVars, End, Outcomes

LEMMA CancelTypeOK ==
    ASSUME EngineTypeOK,
           \/ \E oid \in 1..MaxOid : Cancel(oid)
           \/ \E tag \in 1..MaxNonce : CancelByTag(tag)
           \/ VenueCancels \/ CancelConfirmed \/ CancelFailed
    PROVE  EngineTypeOK'
  <1> USE DEF exchangeVars
  <1>1. CallOK
    BY DEF EngineTypeOK
  <1>2. ASSUME NEW oid, Cancel(oid)
        PROVE  EngineTypeOK'
    <2>1. CallOK' /\ result' \in {"none"} \cup Outcomes
      BY <1>2 DEF Cancel, End, CallOK, EngineTypeOK, Outcomes
    <2> QED
      BY <1>2, <2>1 DEF Cancel, EngineTypeOK
  <1>3. ASSUME NEW tag, CancelByTag(tag)
        PROVE  EngineTypeOK'
    <2>1. CASE Cancel(byTag[tag])
      BY <1>2, <2>1
    <2>2. CASE /\ End("done")
               /\ UNCHANGED <<exchangeVars, open, byTag, pending, nonce, adrift, restarts>>
      BY <2>2, CallEnds DEF End, EngineTypeOK, Outcomes
    <2> QED
      BY <1>3, <2>1, <2>2 DEF CancelByTag
  <1>4. CASE VenueCancels
    <2>1. call \in [op : {"cancel"}, at : {"sent", "cancelled", "gone"}, oid : DOMAIN open]
      BY <1>1, <1>4, CancelShape DEF VenueCancels, At
    <2>2. CallOK'
      BY <1>4, <2>1 DEF VenueCancels, CallOK
    <2>3. CASE Withdraw(call.oid)
      <3>1. /\ IsBook(book')
            /\ DOMAIN book' = DOMAIN book \ {call.oid}
            /\ \A o \in DOMAIN book' : book'[o] = book[o]
            /\ UNCHANGED <<nextOid, held, late>>
        BY <2>3, WithdrawFacts DEF EngineTypeOK
      <3>2. \A o \in DOMAIN book' :
               book'[o].rem > 0 /\ book'[o].rem <= book'[o].size /\ o < nextOid'
        BY <3>1 DEF EngineTypeOK
      <3> QED
        BY <1>4, <2>2, <3>1, <3>2 DEF VenueCancels, EngineTypeOK
    <2>4. CASE UNCHANGED exchangeVars
      BY <1>4, <2>2, <2>4 DEF VenueCancels, EngineTypeOK
    <2> QED
      BY <1>4, <2>3, <2>4 DEF VenueCancels
  <1>5. CASE CancelConfirmed
    BY <1>5, UntrackTypeOK DEF CancelConfirmed
  <1>6. CASE CancelFailed
    BY <1>6, CallEnds DEF CancelFailed, End, Outcomes, EngineTypeOK
  <1> QED
    BY <1>2, <1>3, <1>4, <1>5, <1>6

LEMMA CancelAllTypeOK ==
    ASSUME EngineTypeOK,
           CancelAll \/ VenueCancelsAll \/ CancelAllConfirmed \/ CancelAllFailed
    PROVE  EngineTypeOK'
  <1> USE DEF exchangeVars
  <1>1. CallOK
    BY DEF EngineTypeOK
  <1>2. CASE CancelAll
    <2>1. CallOK' /\ result' \in {"none"} \cup Outcomes
      BY <1>2 DEF CancelAll, End, CallOK, EngineTypeOK, Outcomes
    <2> QED
      BY <1>2, <2>1 DEF CancelAll, EngineTypeOK
  <1>3. CASE VenueCancelsAll
    <2>1. call \in [op : {"cancelAll"}, at : {"sent", "cancelled"}, oids : {DOMAIN open}]
      BY <1>1, <1>3, CancelAllShape DEF VenueCancelsAll, At
    <2>2. CallOK'
      BY <1>3, <2>1 DEF VenueCancelsAll, CallOK
    <2>3. IsBook(book') /\ DOMAIN book' = {}
      BY <1>3, NoOrdersFacts DEF VenueCancelsAll
    <2> QED
      BY <1>3, <2>2, <2>3 DEF VenueCancelsAll, EngineTypeOK
  <1>4. CASE CancelAllConfirmed
    BY <1>4, UntrackTypeOK DEF CancelAllConfirmed
  <1>5. CASE CancelAllFailed
    BY <1>5, CallEnds DEF CancelAllFailed, End, Outcomes, EngineTypeOK
  <1> QED
    BY <1>2, <1>3, <1>4, <1>5

LEMMA ReconcileTypeOK ==
    ASSUME EngineTypeOK,
           Reconcile \/ VenueLists \/ ReconcileDone \/ ReconcileFailed \/ ResultRead
    PROVE  EngineTypeOK'
  <1> USE DEF exchangeVars
  <1>1. CallOK
    BY DEF EngineTypeOK
  <1>2. CASE Reconcile
    <2>1. CallOK'
      BY <1>2 DEF Reconcile, CallOK
    <2> QED
      BY <1>2, <2>1 DEF Reconcile, EngineTypeOK
  <1>3. CASE VenueLists
    <2>1. IsOrderMap([oid \in DOMAIN book |-> FromGateOrder(book[oid])])
      <3>1. DOMAIN book \subseteq 1..MaxOid /\ \A oid \in DOMAIN book : book[oid] \in BookOrder
        BY DEF EngineTypeOK, IsBook
      <3> QED
        BY <3>1, FromGateOrderFacts DEF IsOrderMap
    <2>2. CallOK'
      <3> DEFINE listed == [oid \in DOMAIN book |-> FromGateOrder(book[oid])]
      <3>1. call' = [op |-> "reconcile", at |-> "listed", orders |-> listed] /\ IsOrderMap(listed)
        BY <1>3, <2>1 DEF VenueLists
      <3> HIDE DEF listed
      <3>2. DOMAIN call' = {"op", "at", "orders"} /\ call'.orders = listed
              /\ call'.op = "reconcile" /\ call'.at = "listed"
        BY <3>1
      <3> QED
        BY <3>1, <3>2 DEF CallOK, At, IsOrderMap
    <2> QED
      BY <1>3, <2>2 DEF VenueLists, EngineTypeOK
  <1>4. CASE ReconcileDone
    <2>1. IsOrderMap(call.orders) /\ open' = call.orders
      BY <1>1, <1>4, ListShape DEF ReconcileDone
    <2>2. PICK index \in TagIndexes(call.orders) :
            byTag' = [t \in (DOMAIN byTag \ TagsOf(DOMAIN open \ DOMAIN call.orders))
                               \cup DOMAIN index |->
                        IF t \in DOMAIN index THEN index[t] ELSE byTag[t]]
      BY <1>4 DEF ReconcileDone
    <2>3. \A t \in DOMAIN index : t \in 1..MaxNonce /\ index[t] \in 1..MaxOid
      BY <2>1, <2>2 DEF TagIndexes, IsOrderMap, Order
    <2>4. DOMAIN byTag' \subseteq 1..MaxNonce /\ byTag' \in [DOMAIN byTag' -> 1..MaxOid]
      BY <2>2, <2>3 DEF EngineTypeOK
    <2> QED
      BY <1>4, <2>1, <2>4, CallEnds DEF ReconcileDone, End, Outcomes, EngineTypeOK
  <1>5. CASE ReconcileFailed
    BY <1>5, CallEnds DEF ReconcileFailed, End, Outcomes, EngineTypeOK
  <1>6. CASE ResultRead
    BY <1>6, CallKept DEF ResultRead, EngineTypeOK
  <1> QED
    BY <1>2, <1>3, <1>4, <1>5, <1>6

LEMMA VenueTypeOK ==
    ASSUME EngineTypeOK, VenueMoves
    PROVE  EngineTypeOK'
  <1> USE ExchangeAssumption, OrderEngineAssumption
  <1>1. ASSUME NEW oid \in DOMAIN book, VenueFills(oid)
        PROVE  EngineTypeOK'
    <2>1. UNCHANGED <<open, byTag, pending, nonce, call, result, adrift, restarts>>
      BY <1>1 DEF VenueFills, engineVars
    <2>2. /\ IsBook(book') /\ held' \in Nat
          /\ DOMAIN book' \subseteq DOMAIN book
          /\ \A o \in DOMAIN book' : book'[o].rem > 0 /\ book'[o].rem <= book'[o].size
          /\ UNCHANGED <<nextOid, late>>
      BY <1>1, FillFacts DEF VenueFills, EngineTypeOK
    <2>3. \A o \in DOMAIN book' :
             book'[o].rem > 0 /\ book'[o].rem <= book'[o].size /\ o < nextOid'
      BY <2>2 DEF EngineTypeOK
    <2> QED
      BY <2>1, <2>2, <2>3, CallKept DEF EngineTypeOK
  <1>2. ASSUME NEW oid \in DOMAIN book, VenueWithdraws(oid)
        PROVE  EngineTypeOK'
    <2>1. UNCHANGED <<open, byTag, pending, nonce, call, result, adrift, restarts>>
      BY <1>2 DEF VenueWithdraws, engineVars
    <2>2. /\ IsBook(book')
          /\ DOMAIN book' = DOMAIN book \ {oid}
          /\ \A o \in DOMAIN book' : book'[o] = book[o]
          /\ UNCHANGED <<nextOid, held, late>>
      BY <1>2, WithdrawFacts DEF VenueWithdraws, EngineTypeOK
    <2>3. \A o \in DOMAIN book' :
             book'[o].rem > 0 /\ book'[o].rem <= book'[o].size /\ o < nextOid'
      BY <2>2 DEF EngineTypeOK
    <2> QED
      BY <2>1, <2>2, <2>3, CallKept DEF EngineTypeOK
  <1>3. ASSUME NEW s \in late, SubmissionArrivesLate(s)
        PROVE  EngineTypeOK'
    <2>1. s.tag \in 1..MaxNonce /\ s.req \in Request
      BY DEF EngineTypeOK
    <2>2. /\ IsBook(book')
          /\ nextOid \in 1..MaxOid /\ nextOid' \in 1..(MaxOid + 1) /\ nextOid < nextOid'
          /\ DOMAIN book' = DOMAIN book \cup {nextOid}
          /\ book'[nextOid].rem > 0 /\ book'[nextOid].rem <= book'[nextOid].size
          /\ \A oid \in DOMAIN book : oid # nextOid => book'[oid] = book[oid]
      BY <1>3, <2>1, AcceptFacts DEF SubmissionArrivesLate, AcceptLate, EngineTypeOK
    <2>3. \A oid \in DOMAIN book' :
             book'[oid].rem > 0 /\ book'[oid].rem <= book'[oid].size /\ oid < nextOid'
      <3>1. \A oid \in DOMAIN book :
               /\ oid # nextOid /\ oid < nextOid'
               /\ book[oid].rem > 0 /\ book[oid].rem <= book[oid].size
        BY <2>2 DEF EngineTypeOK, IsBook
      <3> QED
        BY <2>2, <3>1
    <2>4. CallOK'
      BY <1>3, CallKept DEF SubmissionArrivesLate, EngineTypeOK
    <2> QED
      BY <1>3, <2>2, <2>3, <2>4 DEF SubmissionArrivesLate, AcceptLate, EngineTypeOK
  <1> QED
    BY <1>1, <1>2, <1>3 DEF VenueMoves

LEMMA DeathTypeOK ==
    ASSUME EngineTypeOK, ProcessDies
    PROVE  EngineTypeOK'
  <1> USE ExchangeAssumption, OrderEngineAssumption
  <1>1. At("place", "sent") => call.tag \in 1..MaxNonce /\ call.req \in Request
    BY PlaceShape DEF EngineTypeOK, At
  <1>2. late' \subseteq [tag : 1..MaxNonce, req : Request]
    BY <1>1 DEF ProcessDies, EngineTypeOK
  <1>3. restarts' \in 0..MaxRestarts /\ adrift' \subseteq 1..MaxOid
    BY DEF ProcessDies, EngineTypeOK, IsBook
  <1> QED
    BY <1>2, <1>3, CallEnds, NoOrdersFacts DEF ProcessDies, EngineTypeOK

LEMMA NextEngineTypeOK == EngineTypeOK /\ [EngineNext]_tradingVars => EngineTypeOK'
  <1> SUFFICES ASSUME EngineTypeOK, [EngineNext]_tradingVars
               PROVE  EngineTypeOK'
    OBVIOUS
  <1>1. CASE CallerStep
    BY <1>1, PlaceTypeOK, CancelTypeOK, CancelAllTypeOK, ReconcileTypeOK DEF CallerStep
  <1>2. CASE EngineStep
    BY <1>2, PlaceTypeOK, CancelTypeOK, CancelAllTypeOK, ReconcileTypeOK DEF EngineStep
  <1>3. CASE VenueMoves
    BY <1>3, VenueTypeOK
  <1>4. CASE ProcessDies
    BY <1>4, DeathTypeOK
  <1>5. CASE UNCHANGED tradingVars
    BY <1>5, CallKept DEF tradingVars, exchangeVars, engineVars, EngineTypeOK
  <1> QED
    BY <1>1, <1>2, <1>3, <1>4, <1>5 DEF EngineNext

\* Every variable keeps its type: the maps of the engine never hold anything but
\* orders and order ids, and each await resumes with the locals it left.
THEOREM EngineTypeCorrect == EngineSpec => []EngineTypeOK
  BY InitEngineTypeOK, NextEngineTypeOK, PTL DEF EngineSpec

-----------------------------------------------------------------------------
(***************************************************************************)
(* The engine and the venue                                                *)
(*                                                                         *)
(* The three invariants speak of _open, _by_tag and the book.  They hold   *)
(* because of what is true of a call between the venue's step and the      *)
(* answer: ids are never used again, an order under way is not tracked,    *)
(* a list on its way covers the book, and a confirmed cancellation is of   *)
(* orders that are gone.                                                   *)
(***************************************************************************)
Arriving == At("place", "accepted")
Listed == At("reconcile", "listed")
Cancelled == At("cancel", "cancelled")
AllCancelled == At("cancelAll", "cancelled")

IdsIssued ==
    /\ \A oid \in DOMAIN open : oid < nextOid
    /\ Arriving => call.oid < nextOid /\ call.oid \notin DOMAIN open
    /\ Listed => \A oid \in DOMAIN call.orders : oid < nextOid

TagsAgree ==
    \A oid \in DOMAIN book \cap DOMAIN open :
        book[oid].tag = open[oid].tag /\ book[oid].side = open[oid].side

\* r is what the client made of the record o, as it is or as it was.
Reports(r, o) ==
    r.tag = o.tag /\ r.side = o.side /\ r.size = o.size /\ r.filled <= o.total

AnswerFits ==
    Arriving /\ call.oid \in DOMAIN book =>
        /\ book[call.oid].tag = call.tag /\ book[call.oid].side = call.req.side
        /\ book[call.oid].size = call.req.size

ListFits ==
    Listed =>
        /\ DOMAIN book \subseteq DOMAIN call.orders \cup adrift
        /\ \A oid \in DOMAIN book \cap DOMAIN call.orders : Reports(call.orders[oid], book[oid])
        /\ \A oid \in DOMAIN open \cap DOMAIN call.orders :
              open[oid].tag = call.orders[oid].tag

CancelledGone ==
    /\ Cancelled => call.oid \notin DOMAIN book
    /\ AllCancelled => call.oids \cap DOMAIN book = {}

EngineInv ==
    /\ EngineTypeOK /\ IdsIssued /\ TagsAgree
    /\ AnswerFits /\ ListFits /\ CancelledGone
    /\ NothingForgotten /\ ReportsNotAhead /\ TagsLeadToTheirOrder

\* No answer of the venue is on its way to be acted on.
Quiet == ~ Arriving /\ ~ Listed /\ ~ Cancelled /\ ~ AllCancelled

LEMMA IdleIsQuiet == ASSUME call = Idle PROVE Quiet
  BY DEF Quiet, Arriving, Listed, Cancelled, AllCancelled, At, Idle

LEMMA NextIdleIsQuiet == ASSUME call' = Idle PROVE Quiet'
  BY DEF Quiet, Arriving, Listed, Cancelled, AllCancelled, At, Idle

LEMMA TypesOfOrders ==
    ASSUME EngineTypeOK
    PROVE  /\ \A oid \in DOMAIN book :
                 /\ oid \in 1..MaxOid /\ oid < nextOid
                 /\ book[oid] \in BookOrder /\ book[oid].total \in Nat /\ book[oid].rem \in Nat
                 /\ book[oid].size \in Nat
           /\ \A oid \in DOMAIN open :
                 oid \in 1..MaxOid /\ open[oid].filled \in Nat /\ open[oid].size \in Nat
           /\ nextOid \in Nat
  BY DEF EngineTypeOK, IsBook, BookOrder, IsOrderMap, Order

LEMMA InitEngineInv == EngineInit => EngineInv
  <1> SUFFICES ASSUME EngineInit
               PROVE  EngineInv
    OBVIOUS
  <1>1. EngineTypeOK /\ Quiet /\ DOMAIN book = {} /\ DOMAIN open = {} /\ DOMAIN byTag = {}
    BY InitEngineTypeOK, IdleIsQuiet DEF ExchangeInit, EngineInit, NoOrders
  <1> QED
    BY <1>1 DEF EngineInv, IdsIssued, TagsAgree, AnswerFits, ListFits, CancelledGone, Quiet,
                NothingForgotten, ReportsNotAhead, TagsLeadToTheirOrder

(***************************************************************************)
(* The steps that change neither the maps nor the book.  adrift may grow,  *)
(* by the order of the answer if that is lost.                             *)
(***************************************************************************)
LEMMA QuietStep ==
    ASSUME EngineInv, EngineTypeOK', Quiet',
           UNCHANGED <<book, nextOid, open, byTag>>, adrift \cup Answering \subseteq adrift'
    PROVE  EngineInv'
  <1>1. NothingForgotten'
    BY DEF EngineInv, NothingForgotten, Answering
  <1>2. IdsIssued' /\ AnswerFits' /\ ListFits' /\ CancelledGone'
    BY DEF EngineInv, IdsIssued, AnswerFits, ListFits, CancelledGone, Quiet
  <1>3. TagsAgree' /\ ReportsNotAhead' /\ TagsLeadToTheirOrder'
    BY DEF EngineInv, TagsAgree, ReportsNotAhead, TagsLeadToTheirOrder
  <1> QED
    BY <1>1, <1>2, <1>3 DEF EngineInv

\* An order comes into the book under a new id, which nobody has seen.
LEMMA BookGrows ==
    ASSUME EngineInv, EngineTypeOK', nextOid < nextOid',
           DOMAIN book' = DOMAIN book \cup {nextOid},
           \A oid \in DOMAIN book : oid # nextOid => book'[oid] = book[oid],
           UNCHANGED <<open, byTag>>,
           \/ /\ call' = call
              /\ adrift' = adrift \cup {nextOid}
           \/ /\ call.op = "place" /\ call.at = "sent"
              /\ Arriving' /\ call'.oid = nextOid /\ adrift' = adrift
              /\ book'[nextOid].tag = call'.tag /\ book'[nextOid].side = call'.req.side
              /\ book'[nextOid].size = call'.req.size
    PROVE  EngineInv'
  <1>1. nextOid \in Nat /\ nextOid' \in Nat /\ nextOid \notin DOMAIN book
    BY DEF EngineInv, EngineTypeOK
  <1>2. nextOid \notin DOMAIN open
    BY <1>1 DEF EngineInv, IdsIssued
  <1>3. \A oid \in DOMAIN open : oid < nextOid'
    BY <1>1, TypesOfOrders DEF EngineInv, IdsIssued
  <1>4. TagsAgree' /\ ReportsNotAhead' /\ TagsLeadToTheirOrder'
    BY <1>2 DEF EngineInv, TagsAgree, ReportsNotAhead, TagsLeadToTheirOrder
  <1>5. CASE call' = call /\ adrift' = adrift \cup {nextOid}
    <2>1. Arriving => call.oid \in Nat /\ call.oid < nextOid
      BY PlaceShape DEF EngineInv, EngineTypeOK, IdsIssued, Arriving, At
    <2>2. Listed => \A oid \in DOMAIN call.orders : oid \in Nat /\ oid < nextOid
      BY ListShape DEF EngineInv, EngineTypeOK, IdsIssued, Listed, IsOrderMap
    <2>3. IdsIssued'
      BY <1>1, <1>3, <1>5, <2>1, <2>2 DEF EngineInv, IdsIssued, Arriving, Listed, At
    <2>4. AnswerFits'
      BY <1>1, <1>5, <2>1 DEF EngineInv, AnswerFits, Arriving, At
    <2>5. ListFits'
      <3> SUFFICES ASSUME Listed
                   PROVE  ListFits'
        BY <1>5 DEF ListFits, Listed, At
      <3>1. nextOid \notin DOMAIN call.orders
        BY <1>1, <2>2
      <3> QED
        BY <1>1, <1>5, <3>1 DEF EngineInv, ListFits
    <2>6. CancelledGone'
      <3>1. Cancelled => call.oid # nextOid
        BY <1>2, CancelShape DEF EngineInv, EngineTypeOK, Cancelled, At
      <3>2. AllCancelled => nextOid \notin call.oids
        BY <1>2, CancelAllShape DEF EngineInv, EngineTypeOK, AllCancelled, At
      <3> QED
        BY <1>5, <3>1, <3>2 DEF EngineInv, CancelledGone, Cancelled, AllCancelled, At
    <2>7. NothingForgotten'
      BY <1>5 DEF EngineInv, NothingForgotten, Answering, At
    <2> QED
      BY <1>4, <2>3, <2>4, <2>5, <2>6, <2>7 DEF EngineInv
  <1>6. CASE /\ call.op = "place" /\ call.at = "sent"
             /\ Arriving' /\ call'.oid = nextOid /\ adrift' = adrift
             /\ book'[nextOid].tag = call'.tag /\ book'[nextOid].side = call'.req.side
             /\ book'[nextOid].size = call'.req.size
    <2>1. ~ Listed' /\ ~ Cancelled' /\ ~ AllCancelled' /\ ~ Arriving
      BY <1>6 DEF Arriving, Listed, Cancelled, AllCancelled, At
    <2>2. IdsIssued' /\ AnswerFits' /\ ListFits' /\ CancelledGone'
      BY <1>1, <1>2, <1>3, <1>6, <2>1 DEF IdsIssued, AnswerFits, ListFits, CancelledGone
    <2>3. NothingForgotten'
      BY <1>6, <2>1 DEF EngineInv, NothingForgotten, Answering, Arriving
    <2> QED
      BY <1>4, <2>2, <2>3 DEF EngineInv
  <1> QED
    BY <1>5, <1>6

\* Orders in the book are filled or leave it, on the venue's own account or
\* because the call under way has cancelled them.
LEMMA BookShrinks ==
    ASSUME EngineInv, EngineTypeOK', DOMAIN book' \subseteq DOMAIN book,
           \A oid \in DOMAIN book' : Grown(book[oid], book'[oid]),
           UNCHANGED <<nextOid, open, byTag, adrift>>,
           \/ call' = call
           \/ /\ ~ Arriving /\ ~ Arriving' /\ ~ Listed'
              /\ Cancelled' => call'.oid \notin DOMAIN book'
              /\ AllCancelled' => call'.oids \cap DOMAIN book' = {}
    PROVE  EngineInv'
  <1>1. \A oid \in DOMAIN book : book[oid].total \in Nat
    BY TypesOfOrders DEF EngineInv
  <1>2. \A oid \in DOMAIN book' : book'[oid].total \in Nat
    BY DEF EngineTypeOK, IsBook, BookOrder
  <1>3. TagsAgree' /\ TagsLeadToTheirOrder'
    BY DEF EngineInv, TagsAgree, TagsLeadToTheirOrder, Grown
  <1>4. ReportsNotAhead'
    BY <1>1, <1>2, TypesOfOrders DEF EngineInv, ReportsNotAhead, Grown
  <1>5. CASE call' = call
    <2>1. IdsIssued' /\ CancelledGone'
      BY <1>5 DEF EngineInv, IdsIssued, CancelledGone, Arriving, Listed, Cancelled, AllCancelled,
                  At
    <2>2. AnswerFits'
      BY <1>5 DEF EngineInv, AnswerFits, Arriving, At, Grown
    <2>3. ListFits'
      <3> SUFFICES ASSUME Listed
                   PROVE  ListFits'
        BY <1>5 DEF ListFits, Listed, At
      <3>1. \A oid \in DOMAIN call.orders : call.orders[oid].filled \in Nat
        BY ListShape DEF EngineInv, EngineTypeOK, Listed, IsOrderMap, Order
      <3>2. ASSUME NEW oid \in DOMAIN book' \cap DOMAIN call.orders
            PROVE  Reports(call.orders[oid], book'[oid])
        BY <1>1, <1>2, <3>1 DEF EngineInv, ListFits, Reports, Grown
      <3> QED
        BY <1>5, <3>2 DEF EngineInv, ListFits
    <2>4. NothingForgotten'
      BY <1>5 DEF EngineInv, NothingForgotten, Answering, At
    <2> QED
      BY <1>3, <1>4, <2>1, <2>2, <2>3, <2>4 DEF EngineInv
  <1>6. CASE /\ ~ Arriving /\ ~ Arriving' /\ ~ Listed'
             /\ Cancelled' => call'.oid \notin DOMAIN book'
             /\ AllCancelled' => call'.oids \cap DOMAIN book' = {}
    <2>1. IdsIssued' /\ AnswerFits' /\ ListFits' /\ CancelledGone'
      BY <1>6 DEF EngineInv, IdsIssued, AnswerFits, ListFits, CancelledGone
    <2>2. NothingForgotten'
      BY <1>6 DEF EngineInv, NothingForgotten, Answering, Arriving
    <2> QED
      BY <1>3, <1>4, <2>1, <2>2 DEF EngineInv
  <1> QED
    BY <1>5, <1>6

\* The answer is about the order that was submitted.
LEMMA AnswerReports ==
    ASSUME EngineInv, PlaceConfirmed
    PROVE  /\ open'[call.oid].tag = call.tag /\ open'[call.oid].side = call.req.side
           /\ open'[call.oid].size = call.req.size /\ open'[call.oid].filled \in Nat
           /\ call.oid \in DOMAIN book => Reports(open'[call.oid], book[call.oid])
  <1>1. At("place", "accepted") /\ EngineTypeOK /\ AnswerFits /\ Arriving
    BY DEF PlaceConfirmed, EngineInv, Arriving
  <1>2. PICK order \in Answers : open'[call.oid] = FromGateOrder(order)
    BY <1>1, PlaceConfirmedFacts
  <1>3. order \in BookOrder /\ order.total \in Nat
    BY <1>1, AnswerTypes DEF BookOrder
  <1>4. /\ order.tag = call.tag /\ order.side = call.req.side /\ order.size = call.req.size
        /\ call.oid \in DOMAIN book => order.total = 0 \/ order = book[call.oid]
    <2> DEFINE new == NewOrder(call.tag, call.req)
    <2>1. /\ new.tag = call.tag /\ new.side = call.req.side /\ new.size = call.req.size
          /\ new.total = 0
          /\ new = [tag |-> new.tag, side |-> new.side, size |-> new.size, price |-> new.price,
                    rem |-> new.rem, total |-> new.total]
      BY DEF NewOrder
    <2>2. order = new \/ IF call.oid \in DOMAIN book THEN order = book[call.oid]
            ELSE order = [new EXCEPT !.rem = 0, !.total = call.req.size * call.req.price]
      BY DEF Answers
    <2> HIDE DEF new
    <2>3. CASE order = new
      BY <2>1, <2>3
    <2>4. CASE call.oid \in DOMAIN book /\ order = book[call.oid]
      BY <1>1, <2>4 DEF AnswerFits
    <2>5. CASE /\ call.oid \notin DOMAIN book
               /\ order = [new EXCEPT !.rem = 0, !.total = call.req.size * call.req.price]
      BY <2>1, <2>5
    <2> QED
      BY <2>2, <2>3, <2>4, <2>5
  <1>5. /\ open'[call.oid].tag = order.tag /\ open'[call.oid].side = order.side
        /\ open'[call.oid].size = order.size /\ open'[call.oid].filled = order.total
    BY <1>2, <1>3, FromGateOrderFacts
  <1>6. ASSUME call.oid \in DOMAIN book
        PROVE  Reports(open'[call.oid], book[call.oid])
    <2>1. book[call.oid].total \in Nat
      BY <1>1, <1>6, TypesOfOrders
    <2>2. order.total <= book[call.oid].total
      BY <1>3, <1>4, <1>6, <2>1
    <2>3. /\ book[call.oid].tag = call.tag /\ book[call.oid].side = call.req.side
          /\ book[call.oid].size = call.req.size
      BY <1>1, <1>6 DEF AnswerFits
    <2> QED
      BY <1>4, <1>5, <2>2, <2>3 DEF Reports
  <1> QED
    BY <1>3, <1>4, <1>5, <1>6

\* A confirmed placement is tracked from now on.
LEMMA TrackKeepsInv ==
    ASSUME EngineInv, EngineTypeOK', PlaceConfirmed
    PROVE  EngineInv'
  <1>1. /\ call.oid \in 1..MaxOid /\ call.tag \in 1..MaxNonce
        /\ DOMAIN open' = DOMAIN open \cup {call.oid}
        /\ open'[call.oid].tag = call.tag
        /\ call.oid \in DOMAIN book => Reports(open'[call.oid], book[call.oid])
        /\ \A o \in DOMAIN open : o # call.oid => open'[o] = open[o]
        /\ DOMAIN byTag' = DOMAIN byTag \cup {call.tag}
        /\ byTag'[call.tag] = call.oid
        /\ \A t \in DOMAIN byTag : t # call.tag => byTag'[t] = byTag[t]
    BY PlaceConfirmedFacts, AnswerReports DEF EngineInv
  <1>2. Arriving /\ call.oid < nextOid /\ call.oid \notin DOMAIN open
    BY DEF PlaceConfirmed, EngineInv, IdsIssued, Arriving
  <1>3. UNCHANGED <<book, nextOid, adrift>> /\ Quiet'
    BY NextIdleIsQuiet DEF PlaceConfirmed, exchangeVars
  <1>4. IdsIssued' /\ AnswerFits' /\ ListFits' /\ CancelledGone'
    BY <1>1, <1>2, <1>3 DEF EngineInv, IdsIssued, AnswerFits, ListFits, CancelledGone, Quiet
  <1>5. NothingForgotten'
    BY <1>1, <1>3 DEF EngineInv, NothingForgotten, Answering, Arriving
  <1>6. TagsAgree'
    BY <1>1, <1>2, <1>3 DEF EngineInv, TagsAgree, Reports
  <1>7. ReportsNotAhead'
    BY <1>1, <1>3 DEF EngineInv, ReportsNotAhead, Reports
  <1>8. TagsLeadToTheirOrder'
    BY <1>1, <1>2 DEF EngineInv, TagsLeadToTheirOrder
  <1> QED
    BY <1>4, <1>5, <1>6, <1>7, <1>8 DEF EngineInv

\* Orders that are gone from the book are no longer tracked.
LEMMA UntrackKeepsInv ==
    ASSUME EngineInv, EngineTypeOK', NEW oids, oids \cap DOMAIN book = {}, Untrack(oids),
           ~ Arriving, call' = Idle, UNCHANGED <<book, nextOid, adrift>>
    PROVE  EngineInv'
  <1>1. /\ DOMAIN open' = DOMAIN open \ oids
        /\ \A o \in DOMAIN open' : open'[o] = open[o]
        /\ DOMAIN byTag' = DOMAIN byTag \ TagsOf(oids)
        /\ \A t \in DOMAIN byTag' : byTag'[t] = byTag[t]
    BY UntrackFacts DEF EngineInv, EngineTypeOK
  <1>2. Quiet'
    BY NextIdleIsQuiet
  <1>3. IdsIssued' /\ AnswerFits' /\ ListFits' /\ CancelledGone'
    BY <1>1, <1>2 DEF EngineInv, IdsIssued, AnswerFits, ListFits, CancelledGone, Quiet
  <1>4. NothingForgotten'
    BY <1>1 DEF EngineInv, NothingForgotten, Answering, Arriving
  <1>5. TagsAgree' /\ ReportsNotAhead'
    BY <1>1 DEF EngineInv, TagsAgree, ReportsNotAhead
  <1>6. TagsLeadToTheirOrder'
    <2> SUFFICES ASSUME NEW t \in DOMAIN byTag'
                 PROVE  byTag[t] \in DOMAIN open' /\ open'[byTag[t]].tag = t
      BY <1>1 DEF TagsLeadToTheirOrder
    <2>1. t \in DOMAIN byTag /\ t \notin TagsOf(oids)
      BY <1>1
    <2>2. byTag[t] \in DOMAIN open /\ open[byTag[t]].tag = t
      BY <2>1 DEF EngineInv, TagsLeadToTheirOrder
    <2>3. byTag[t] \notin oids
      BY <2>1, <2>2 DEF TagsOf
    <2> QED
      BY <1>1, <2>2, <2>3
  <1> QED
    BY <1>3, <1>4, <1>5, <1>6 DEF EngineInv

\* The list is adopted: what it does not hold has left the book, and each of its
\* tags leads to an order that bears it.
LEMMA ReconcileKeepsInv ==
    ASSUME EngineInv, EngineTypeOK', ReconcileDone
    PROVE  EngineInv'
  <1>1. Listed /\ ~ Arriving /\ Quiet' /\ open' = call.orders
          /\ adrift' = adrift \ DOMAIN call.orders /\ UNCHANGED <<book, nextOid>>
    BY NextIdleIsQuiet DEF ReconcileDone, End, exchangeVars, Listed, Arriving, At
  <1>2. IdsIssued' /\ AnswerFits' /\ ListFits' /\ CancelledGone'
    BY <1>1 DEF EngineInv, IdsIssued, AnswerFits, ListFits, CancelledGone, Quiet
  <1>3. NothingForgotten' /\ TagsAgree' /\ ReportsNotAhead'
    BY <1>1 DEF EngineInv, ListFits, NothingForgotten, TagsAgree, ReportsNotAhead, Reports
  <1>4. TagsLeadToTheirOrder'
    <2> DEFINE stale == DOMAIN open \ DOMAIN call.orders
    <2>1. PICK index \in TagIndexes(call.orders) :
            byTag' = [t \in (DOMAIN byTag \ TagsOf(stale)) \cup DOMAIN index |->
                        IF t \in DOMAIN index THEN index[t] ELSE byTag[t]]
      BY DEF ReconcileDone
    <2>2. /\ DOMAIN index = {call.orders[oid].tag : oid \in DOMAIN call.orders}
          /\ \A t \in DOMAIN index :
                index[t] \in DOMAIN call.orders /\ call.orders[index[t]].tag = t
      BY DEF TagIndexes
    <2> SUFFICES ASSUME NEW t \in DOMAIN byTag'
                 PROVE  byTag'[t] \in DOMAIN call.orders /\ call.orders[byTag'[t]].tag = t
      BY <1>1 DEF TagsLeadToTheirOrder
    <2>3. CASE t \in DOMAIN index
      BY <2>1, <2>2, <2>3
    <2>4. CASE t \notin DOMAIN index
      <3>1. t \in DOMAIN byTag /\ t \notin TagsOf(stale)
        BY <2>1, <2>4
      <3>2. byTag[t] \in DOMAIN open /\ open[byTag[t]].tag = t
        BY <3>1 DEF EngineInv, TagsLeadToTheirOrder
      <3>3. byTag[t] \in DOMAIN call.orders
        BY <3>1, <3>2 DEF TagsOf
      <3>4. call.orders[byTag[t]].tag = t
        BY <1>1, <3>2, <3>3 DEF EngineInv, ListFits
      <3> QED
        BY <2>2, <2>4, <3>3, <3>4
    <2> QED
      BY <2>3, <2>4
  <1> QED
    BY <1>2, <1>3, <1>4 DEF EngineInv

LEMMA PlaceInv ==
    ASSUME EngineInv, EngineTypeOK',
           \/ \E req \in Request : PlaceCall(req)
           \/ PlaceLimited \/ PlaceSubmit \/ VenueAccepts
           \/ PlaceConfirmed \/ PlaceFailed \/ PlaceBroken
    PROVE  EngineInv'
  <1>1. CASE (\E req \in Request : PlaceCall(req)) \/ PlaceLimited \/ PlaceSubmit
    <2>1. ~ Arriving /\ UNCHANGED <<book, nextOid, open, byTag, adrift>>
      BY <1>1, IdleIsQuiet
         DEF PlaceCall, PlaceLimited, PlaceSubmit, exchangeVars, Quiet, Arriving, At
    <2>2. Quiet'
      <3>1. ASSUME NEW req \in Request, PlaceCall(req)
            PROVE  call'.op = "place" /\ call'.at = "limiter"
        BY <3>1 DEF PlaceCall
      <3>2. CASE PlaceSubmit
        <4>1. call \in [op : {"place"}, at : {"limiter", "sent"}, tag : 1..MaxNonce,
                        req : Request]
          BY <3>2, PlaceShape DEF PlaceSubmit, At, EngineInv, EngineTypeOK
        <4>2. call' = [call EXCEPT !.at = "sent"]
          BY <3>2 DEF PlaceSubmit
        <4>3. call'.op = "place" /\ call'.at = "sent"
          BY <4>1, <4>2
        <4> QED
          BY <4>3 DEF Quiet, Arriving, Listed, Cancelled, AllCancelled, At
      <3>3. CASE PlaceLimited
        BY <3>3, NextIdleIsQuiet DEF PlaceLimited
      <3> QED
        BY <1>1, <3>1, <3>2, <3>3 DEF Quiet, Arriving, Listed, Cancelled, AllCancelled, At
    <2> QED
      BY <2>1, <2>2, QuietStep DEF Answering, Arriving
  <1>2. CASE VenueAccepts
    <2>1. /\ call.op = "place" /\ call.at = "sent"
          /\ call.tag \in 1..MaxNonce /\ call.req \in Request
      BY <1>2, PlaceShape DEF VenueAccepts, At, EngineInv, EngineTypeOK
    <2>2. /\ nextOid < nextOid'
          /\ DOMAIN book' = DOMAIN book \cup {nextOid}
          /\ book'[nextOid] = NewOrder(call.tag, call.req)
          /\ \A oid \in DOMAIN book : oid # nextOid => book'[oid] = book[oid]
      BY <1>2, <2>1, AcceptFacts DEF VenueAccepts, EngineInv, EngineTypeOK
    <2>3. /\ Arriving' /\ call'.oid = nextOid
          /\ call'.tag = call.tag /\ call'.req = call.req
          /\ UNCHANGED <<open, byTag, adrift>>
      BY <1>2 DEF VenueAccepts, Arriving, At
    <2>4. /\ book'[nextOid].tag = call'.tag /\ book'[nextOid].side = call'.req.side
          /\ book'[nextOid].size = call'.req.size
      BY <2>2, <2>3 DEF NewOrder
    <2> QED
      BY <2>1, <2>2, <2>3, <2>4, BookGrows
  <1>3. CASE PlaceConfirmed
    BY <1>3, TrackKeepsInv
  <1>4. CASE PlaceFailed \/ PlaceBroken
    <2>1. /\ call' = Idle /\ adrift \cup Answering \subseteq adrift'
          /\ UNCHANGED <<book, nextOid, open, byTag>>
      BY <1>4 DEF PlaceFailed, PlaceBroken, exchangeVars, Answering, At
    <2> QED
      BY <2>1, NextIdleIsQuiet, QuietStep
  <1> QED
    BY <1>1, <1>2, <1>3, <1>4

LEMMA CancelInv ==
    ASSUME EngineInv, EngineTypeOK',
           \/ \E oid \in 1..MaxOid : Cancel(oid)
           \/ \E tag \in 1..MaxNonce : CancelByTag(tag)
           \/ VenueCancels \/ CancelConfirmed \/ CancelFailed
    PROVE  EngineInv'
  <1>1. ASSUME NEW oid, Cancel(oid)
        PROVE  EngineInv'
    <2>1. /\ Quiet' /\ ~ Arriving
          /\ UNCHANGED <<book, nextOid, open, byTag, adrift>>
      BY <1>1, IdleIsQuiet, NextIdleIsQuiet
         DEF Cancel, End, exchangeVars, Quiet, Arriving, Listed, Cancelled, AllCancelled, At
    <2> QED
      BY <2>1, QuietStep DEF Answering, Arriving
  <1>2. ASSUME NEW tag, CancelByTag(tag)
        PROVE  EngineInv'
    <2>1. CASE Cancel(byTag[tag])
      BY <1>1, <2>1
    <2>2. CASE call = Idle /\ End("done")
                 /\ UNCHANGED <<exchangeVars, open, byTag, pending, nonce, adrift, restarts>>
      <3>1. /\ Quiet' /\ ~ Arriving
            /\ UNCHANGED <<book, nextOid, open, byTag, adrift>>
        BY <2>2, IdleIsQuiet, NextIdleIsQuiet DEF End, exchangeVars, Quiet
      <3> QED
        BY <3>1, QuietStep DEF Answering, Arriving
    <2> QED
      BY <1>2, <2>1, <2>2 DEF CancelByTag
  <1>3. CASE VenueCancels
    <2>1. /\ call.op = "cancel" /\ call.at = "sent"
          /\ call \in [op : {"cancel"}, at : {"sent", "cancelled", "gone"}, oid : DOMAIN open]
      BY <1>3, CancelShape DEF VenueCancels, At, EngineInv, EngineTypeOK
    <2>2. ~ Arriving /\ UNCHANGED <<open, byTag, adrift>>
      BY <1>3, <2>1 DEF VenueCancels, Arriving, At
    <2>3. CASE call.oid \in DOMAIN book
      <3>1. call' = [call EXCEPT !.at = "cancelled"] /\ Withdraw(call.oid)
        BY <1>3, <2>3 DEF VenueCancels
      <3>2. call'.op = "cancel" /\ call'.oid = call.oid
        BY <2>1, <3>1
      <3>3. /\ DOMAIN book' = DOMAIN book \ {call.oid}
            /\ \A o \in DOMAIN book' : book'[o] = book[o]
            /\ nextOid' = nextOid
        BY <3>1, WithdrawFacts DEF EngineInv, EngineTypeOK
      <3>4. \A o \in DOMAIN book' : Grown(book[o], book'[o])
        BY <3>3, TypesOfOrders, StaysGrown DEF EngineInv
      <3>5. ~ Arriving' /\ ~ Listed' /\ ~ AllCancelled'
        BY <3>2 DEF Arriving, Listed, AllCancelled, At
      <3> QED
        BY <2>2, <3>2, <3>3, <3>4, <3>5, BookShrinks
    <2>4. CASE call.oid \notin DOMAIN book
      <3>1. call' = [call EXCEPT !.at = "gone"] /\ UNCHANGED exchangeVars
        BY <1>3, <2>4 DEF VenueCancels
      <3>2. call'.op = "cancel" /\ call'.at = "gone"
        BY <2>1, <3>1
      <3>3. Quiet'
        BY <3>2 DEF Quiet, Arriving, Listed, Cancelled, AllCancelled, At
      <3> QED
        BY <2>2, <3>1, <3>3, QuietStep DEF exchangeVars, Answering, Arriving
    <2> QED
      BY <2>3, <2>4
  <1>4. CASE CancelConfirmed
    <2>1. Cancelled /\ ~ Arriving /\ {call.oid} \cap DOMAIN book = {}
      BY <1>4 DEF CancelConfirmed, EngineInv, CancelledGone, Cancelled, Arriving, At
    <2>2. /\ Untrack({call.oid}) /\ call' = Idle /\ UNCHANGED <<book, nextOid, adrift>>
      BY <1>4 DEF CancelConfirmed, End, exchangeVars
    <2> QED
      BY <2>1, <2>2, UntrackKeepsInv
  <1>5. CASE CancelFailed
    <2>1. /\ call' = Idle /\ ~ Arriving
          /\ UNCHANGED <<book, nextOid, open, byTag, adrift>>
      BY <1>5 DEF CancelFailed, End, exchangeVars, Arriving, At
    <2> QED
      BY <2>1, NextIdleIsQuiet, QuietStep DEF Answering, Arriving
  <1> QED
    BY <1>1, <1>2, <1>3, <1>4, <1>5

LEMMA CancelAllInv ==
    ASSUME EngineInv, EngineTypeOK',
           CancelAll \/ VenueCancelsAll \/ CancelAllConfirmed \/ CancelAllFailed
    PROVE  EngineInv'
  <1>1. CASE CancelAll
    <2>1. /\ Quiet' /\ ~ Arriving
          /\ UNCHANGED <<book, nextOid, open, byTag, adrift>>
      BY <1>1, IdleIsQuiet, NextIdleIsQuiet
         DEF CancelAll, End, exchangeVars, Quiet, Arriving, Listed, Cancelled, AllCancelled, At
    <2> QED
      BY <2>1, QuietStep DEF Answering, Arriving
  <1>2. CASE VenueCancelsAll
    <2>1. call \in [op : {"cancelAll"}, at : {"sent", "cancelled"}, oids : {DOMAIN open}]
      BY <1>2, CancelAllShape DEF VenueCancelsAll, At, EngineInv, EngineTypeOK
    <2>2. call' = [call EXCEPT !.at = "cancelled"]
      BY <1>2 DEF VenueCancelsAll
    <2>3. call.op = "cancelAll" /\ call'.op = "cancelAll"
      BY <2>1, <2>2
    <2>4. ~ Arriving /\ ~ Arriving' /\ ~ Listed' /\ ~ Cancelled'
      BY <2>3 DEF Arriving, Listed, Cancelled, At
    <2>5. DOMAIN book' = {} /\ UNCHANGED <<nextOid, open, byTag, adrift>>
      BY <1>2 DEF VenueCancelsAll, NoOrders
    <2> QED
      BY <2>4, <2>5, BookShrinks
  <1>3. CASE CancelAllConfirmed
    <2>1. AllCancelled /\ ~ Arriving /\ call.oids \cap DOMAIN book = {}
      BY <1>3 DEF CancelAllConfirmed, EngineInv, CancelledGone, AllCancelled, Arriving, At
    <2>2. /\ Untrack(call.oids) /\ call' = Idle /\ UNCHANGED <<book, nextOid, adrift>>
      BY <1>3 DEF CancelAllConfirmed, End, exchangeVars
    <2> QED
      BY <2>1, <2>2, UntrackKeepsInv
  <1>4. CASE CancelAllFailed
    <2>1. /\ call' = Idle /\ ~ Arriving
          /\ UNCHANGED <<book, nextOid, open, byTag, adrift>>
      BY <1>4 DEF CancelAllFailed, End, exchangeVars, Arriving, At
    <2> QED
      BY <2>1, NextIdleIsQuiet, QuietStep DEF Answering, Arriving
  <1> QED
    BY <1>1, <1>2, <1>3, <1>4

LEMMA ReconcileInv ==
    ASSUME EngineInv, EngineTypeOK',
           Reconcile \/ VenueLists \/ ReconcileDone \/ ReconcileFailed \/ ResultRead
    PROVE  EngineInv'
  <1>1. CASE Reconcile \/ ReconcileFailed \/ ResultRead
    <2>1. /\ Quiet' /\ ~ Arriving
          /\ UNCHANGED <<book, nextOid, open, byTag, adrift>>
      BY <1>1, IdleIsQuiet, NextIdleIsQuiet
         DEF Reconcile, ReconcileFailed, ResultRead, End, exchangeVars, Quiet, Arriving, Listed,
             Cancelled, AllCancelled, At
    <2> QED
      BY <2>1, QuietStep DEF Answering, Arriving
  <1>2. CASE VenueLists
    <2> DEFINE listed == [oid \in DOMAIN book |-> FromGateOrder(book[oid])]
    <2>1. /\ call' = [op |-> "reconcile", at |-> "listed", orders |-> listed]
          /\ UNCHANGED <<book, nextOid, open, byTag, adrift>>
      BY <1>2 DEF VenueLists, exchangeVars
    <2>5. DOMAIN listed = DOMAIN book /\ \A oid \in DOMAIN book : Reports(listed[oid], book[oid])
      <3>1. ASSUME NEW oid \in DOMAIN book
            PROVE  Reports(listed[oid], book[oid])
        BY TypesOfOrders, FromGateOrderFacts DEF EngineInv, Reports
      <3> QED
        BY <3>1
    <2> HIDE DEF listed
    <2>2. ~ Arriving /\ ~ Arriving' /\ ~ Cancelled' /\ ~ AllCancelled' /\ call'.orders = listed
      BY <1>2, <2>1 DEF VenueLists, Arriving, Cancelled, AllCancelled, At
    <2>3. IdsIssued' /\ AnswerFits' /\ CancelledGone'
      BY <2>1, <2>5, <2>2, TypesOfOrders DEF EngineInv, IdsIssued, AnswerFits, CancelledGone
    <2>4. ListFits'
      BY <2>1, <2>5, <2>2 DEF EngineInv, ListFits, TagsAgree, Reports
    <2>6. NothingForgotten' /\ TagsAgree' /\ ReportsNotAhead' /\ TagsLeadToTheirOrder'
      BY <2>1, <2>2 DEF EngineInv, NothingForgotten, Answering, Arriving, TagsAgree,
                        ReportsNotAhead, TagsLeadToTheirOrder
    <2> QED
      BY <2>3, <2>4, <2>6 DEF EngineInv
  <1>3. CASE ReconcileDone
    BY <1>3, ReconcileKeepsInv
  <1> QED
    BY <1>1, <1>2, <1>3

LEMMA VenueInv ==
    ASSUME EngineInv, EngineTypeOK', VenueMoves
    PROVE  EngineInv'
  <1>1. ASSUME NEW oid \in DOMAIN book, VenueFills(oid)
        PROVE  EngineInv'
    <2>1. UNCHANGED <<open, byTag, call, adrift>>
      BY <1>1 DEF VenueFills, engineVars
    <2>2. /\ DOMAIN book' \subseteq DOMAIN book
          /\ \A o \in DOMAIN book' : Grown(book[o], book'[o])
          /\ nextOid' = nextOid
      BY <1>1, FillFacts DEF VenueFills, EngineInv, EngineTypeOK
    <2> QED
      BY <2>1, <2>2, BookShrinks
  <1>2. ASSUME NEW oid \in DOMAIN book, VenueWithdraws(oid)
        PROVE  EngineInv'
    <2>1. UNCHANGED <<open, byTag, call, adrift>>
      BY <1>2 DEF VenueWithdraws, engineVars
    <2>2. /\ DOMAIN book' = DOMAIN book \ {oid}
          /\ \A o \in DOMAIN book' : book'[o] = book[o]
          /\ nextOid' = nextOid
      BY <1>2, WithdrawFacts DEF VenueWithdraws, EngineInv, EngineTypeOK
    <2>3. \A o \in DOMAIN book' : Grown(book[o], book'[o])
      BY <2>2, TypesOfOrders, StaysGrown DEF EngineInv
    <2> QED
      BY <2>1, <2>2, <2>3, BookShrinks
  <1>3. ASSUME NEW s \in late, SubmissionArrivesLate(s)
        PROVE  EngineInv'
    <2>1. s.tag \in 1..MaxNonce /\ s.req \in Request
      BY DEF EngineInv, EngineTypeOK
    <2>2. /\ nextOid < nextOid'
          /\ DOMAIN book' = DOMAIN book \cup {nextOid}
          /\ \A oid \in DOMAIN book : oid # nextOid => book'[oid] = book[oid]
      BY <1>3, <2>1, AcceptFacts DEF SubmissionArrivesLate, AcceptLate, EngineInv, EngineTypeOK
    <2>3. /\ UNCHANGED <<open, byTag, call>> /\ adrift' = adrift \cup {nextOid}
      BY <1>3 DEF SubmissionArrivesLate
    <2> QED
      BY <2>2, <2>3, BookGrows
  <1> QED
    BY <1>1, <1>2, <1>3 DEF VenueMoves

LEMMA DeathInv ==
    ASSUME EngineInv, EngineTypeOK', ProcessDies
    PROVE  EngineInv'
  <1>1. /\ Quiet' /\ DOMAIN open' = {} /\ DOMAIN byTag' = {} /\ adrift' = DOMAIN book
        /\ UNCHANGED <<book, nextOid>>
    BY NextIdleIsQuiet DEF ProcessDies, NoOrders
  <1> QED
    BY <1>1 DEF EngineInv, IdsIssued, TagsAgree, AnswerFits, ListFits, CancelledGone, Quiet,
                NothingForgotten, ReportsNotAhead, TagsLeadToTheirOrder

LEMMA NextEngineInv == EngineInv /\ [EngineNext]_tradingVars => EngineInv'
  <1> SUFFICES ASSUME EngineInv, [EngineNext]_tradingVars
               PROVE  EngineInv'
    OBVIOUS
  <1>1. EngineTypeOK'
    BY NextEngineTypeOK DEF EngineInv
  <1>2. CASE CallerStep
    BY <1>1, <1>2, PlaceInv, CancelInv, CancelAllInv, ReconcileInv DEF CallerStep
  <1>3. CASE EngineStep
    BY <1>1, <1>3, PlaceInv, CancelInv, CancelAllInv, ReconcileInv DEF EngineStep
  <1>4. CASE VenueMoves
    BY <1>1, <1>4, VenueInv
  <1>5. CASE ProcessDies
    BY <1>1, <1>5, DeathInv
  <1>6. CASE UNCHANGED tradingVars
    <2>1. UNCHANGED <<book, nextOid, open, byTag, call, adrift>>
      BY <1>6 DEF tradingVars, exchangeVars, engineVars
    <2> QED
      BY <1>1, <2>1 DEF EngineInv, IdsIssued, TagsAgree, AnswerFits, ListFits, CancelledGone,
         NothingForgotten, Answering, ReportsNotAhead, TagsLeadToTheirOrder, Arriving,
         Listed, Cancelled, AllCancelled, At
  <1> QED
    BY <1>2, <1>3, <1>4, <1>5, <1>6 DEF EngineNext

\* A live order the engine does not track is one this process was never told about,
\* whatever failed, raced or arrived late between a call and its answer.
THEOREM NoOrderForgotten == EngineSpec => []NothingForgotten
  <1>1. EngineInv => NothingForgotten
    BY DEF EngineInv
  <1> QED
    BY <1>1, InitEngineInv, NextEngineInv, PTL DEF EngineSpec

\* What the engine holds of a live order it tracks is the venue's record of that order,
\* as it is or as it was before some of its fills, of the size it was ordered in.
THEOREM ReportsFollowTheBook == EngineSpec => []ReportsNotAhead
  <1>1. EngineInv => ReportsNotAhead
    BY DEF EngineInv
  <1> QED
    BY <1>1, InitEngineInv, NextEngineInv, PTL DEF EngineSpec

\* A tag in _by_tag leads to a tracked order that carries it, over crashes and the
\* reuse of tags that follows them.
THEOREM NoDanglingTag == EngineSpec => []TagsLeadToTheirOrder
  <1>1. EngineInv => TagsLeadToTheirOrder
    BY DEF EngineInv
  <1> QED
    BY <1>1, InitEngineInv, NextEngineInv, PTL DEF EngineSpec

-----------------------------------------------------------------------------
(***************************************************************************)
(* Tags in one life of the process                                         *)
(*                                                                         *)
(* Until the first crash no tag is drawn twice, so it is in one place at a *)
(* time: with the submission on its way, or on one order id, wherever that *)
(* order is written down.                                                  *)
(***************************************************************************)
Tagged(orders, t) == {oid \in DOMAIN orders : orders[oid].tag = t}

\* The ids under which the book, the engine or an answer on its way knows tag t.
Named(t) ==
    Tagged(book, t) \cup Tagged(open, t)
      \cup (IF Listed THEN Tagged(call.orders, t) ELSE {})
      \cup (IF Arriving /\ call.tag = t THEN {call.oid} ELSE {})

\* The tags of submissions that the venue has not seen.
Unsent == IF At("place", "limiter") \/ At("place", "sent") THEN {call.tag} ELSE {}
LateTags == {s.tag : s \in late}

OneLifeInv ==
    restarts = 0 =>
        /\ \A t \in 1..MaxNonce : Named(t) # {} => t <= nonce
        /\ \A t \in 1..MaxNonce : \A o, p \in Named(t) : o = p
        /\ \A t \in Unsent \cup LateTags : t <= nonce /\ Named(t) = {}
        /\ Unsent \cap LateTags = {}
        /\ \A s, r \in late : s.tag = r.tag => s = r
        /\ EveryOrderFoundByTag

LEMMA InitOneLife == EngineInit => OneLifeInv
  BY DEF EngineInit, ExchangeInit, OneLifeInv, Named, Tagged, Unsent, LateTags, Listed,
         Arriving, At, Idle, NoOrders, EveryOrderFoundByTag

\* Orders that go away leave less to confuse.
LEMMA FewerTags ==
    ASSUME EngineInv, OneLifeInv, nonce' = nonce, restarts' = restarts,
           \A t \in 1..MaxNonce : Named(t)' \subseteq Named(t),
           Unsent' \subseteq Unsent, late' \subseteq late,
           restarts = 0 => EveryOrderFoundByTag'
    PROVE  OneLifeInv'
  <1> SUFFICES ASSUME restarts = 0
               PROVE  OneLifeInv'
    BY DEF OneLifeInv
  <1>1. /\ Unsent \cup LateTags \subseteq 1..MaxNonce
        /\ LateTags' \subseteq LateTags
    <2>1. Unsent \subseteq 1..MaxNonce
      BY PlaceShape DEF EngineInv, EngineTypeOK, Unsent, At
    <2> QED
      BY <2>1 DEF EngineInv, EngineTypeOK, LateTags
  <1>2. \A t \in 1..MaxNonce : Named(t)' # {} => t <= nonce'
    BY DEF OneLifeInv
  <1>3. \A t \in 1..MaxNonce : \A o, p \in Named(t)' : o = p
    BY DEF OneLifeInv
  <1>4. \A t \in Unsent' \cup LateTags' : t <= nonce' /\ Named(t)' = {}
    BY <1>1 DEF OneLifeInv
  <1>5. Unsent' \cap LateTags' = {} /\ \A s, r \in late' : s.tag = r.tag => s = r
    BY <1>1 DEF OneLifeInv
  <1> QED
    BY <1>2, <1>3, <1>4, <1>5 DEF OneLifeInv

\* As above, for a step that leaves no answer on its way.
LEMMA QuietTags ==
    ASSUME EngineInv, OneLifeInv, nonce' = nonce, restarts' = restarts,
           \A o \in DOMAIN book' : o \in DOMAIN book /\ book'[o].tag = book[o].tag,
           UNCHANGED <<open, byTag>>, ~ Listed', ~ Arriving',
           Unsent' \subseteq Unsent, late' \subseteq late
    PROVE  OneLifeInv'
  <1>1. \A t \in 1..MaxNonce : Named(t)' \subseteq Named(t)
    BY DEF Named, Tagged
  <1>2. restarts = 0 => EveryOrderFoundByTag'
    BY DEF OneLifeInv, EveryOrderFoundByTag
  <1> QED
    BY <1>1, <1>2, FewerTags

\* A submission reaches the venue: its tag moves to the order's id.
LEMMA TagArrives ==
    ASSUME EngineInv, OneLifeInv, nonce' = nonce, restarts' = restarts,
           NEW tag \in Unsent \cup LateTags, tag \in 1..MaxNonce,
           DOMAIN book' = DOMAIN book \cup {nextOid},
           book'[nextOid].tag = tag,
           \A o \in DOMAIN book : o # nextOid => book'[o] = book[o],
           UNCHANGED <<open, byTag>>,
           \A t \in 1..MaxNonce :
               Named(t)' \subseteq IF t = tag THEN Named(t) \cup {nextOid} ELSE Named(t),
           Unsent' \subseteq Unsent \ {tag}, LateTags' \subseteq LateTags \ {tag},
           late' \subseteq late
    PROVE  OneLifeInv'
  <1> SUFFICES ASSUME restarts = 0
               PROVE  OneLifeInv'
    BY DEF OneLifeInv
  <1>1. Unsent \cup LateTags \subseteq 1..MaxNonce
    <2>1. Unsent \subseteq 1..MaxNonce
      BY PlaceShape DEF EngineInv, EngineTypeOK, Unsent, At
    <2> QED
      BY <2>1 DEF EngineInv, EngineTypeOK, LateTags
  <1>2. Named(tag) = {} /\ tag <= nonce
    BY DEF OneLifeInv
  <1>3. \A t \in 1..MaxNonce : Named(t)' # {} => t <= nonce'
    BY <1>2 DEF OneLifeInv
  <1>4. \A t \in 1..MaxNonce : \A o, p \in Named(t)' : o = p
    BY <1>2 DEF OneLifeInv
  <1>5. \A t \in Unsent' \cup LateTags' : t <= nonce' /\ Named(t)' = {}
    BY <1>1 DEF OneLifeInv
  <1>6. Unsent' \cap LateTags' = {} /\ \A s, r \in late' : s.tag = r.tag => s = r
    BY DEF OneLifeInv
  <1>7. EveryOrderFoundByTag'
    BY DEF OneLifeInv, EveryOrderFoundByTag
  <1> QED
    BY <1>3, <1>4, <1>5, <1>6, <1>7 DEF OneLifeInv

LEMMA PlaceOneLife ==
    ASSUME EngineInv, EngineInv', OneLifeInv,
           \/ \E req \in Request : PlaceCall(req)
           \/ PlaceLimited \/ PlaceSubmit \/ VenueAccepts
           \/ PlaceConfirmed \/ PlaceFailed \/ PlaceBroken
    PROVE  OneLifeInv'
  <1> USE DEF exchangeVars
  <1>0. EngineTypeOK /\ CallOK
    BY DEF EngineInv, EngineTypeOK
  <1>1. ASSUME NEW req \in Request, PlaceCall(req)
        PROVE  OneLifeInv'
    <2> SUFFICES ASSUME restarts = 0
                 PROVE  OneLifeInv'
      BY <1>1 DEF PlaceCall, OneLifeInv
    <2>1. /\ call = Idle /\ nonce' = nonce + 1 /\ nonce \in Nat /\ nonce + 1 \in 1..MaxNonce
          /\ Unsent' = {nonce + 1} /\ late' = late
          /\ ~ Listed' /\ ~ Arriving' /\ ~ Listed /\ ~ Arriving
          /\ UNCHANGED <<book, open, byTag, restarts>>
      BY <1>0, <1>1, OrderEngineAssumption
      DEF PlaceCall, EngineTypeOK, Unsent, Listed, Arriving, At, Idle
    <2>2. \A t \in 1..MaxNonce : Named(t)' = Named(t)
      BY <2>1 DEF Named, Tagged
    <2>3. \A t \in 1..MaxNonce : Named(t) # {} => t <= nonce
      BY DEF OneLifeInv
    <2>4. \A t \in LateTags : t \in 1..MaxNonce /\ t <= nonce /\ Named(t) = {}
      BY <1>0 DEF OneLifeInv, EngineTypeOK, LateTags
    <2>5. Named(nonce + 1) = {}
      BY <2>1, <2>3
    <2>6. \A t \in Unsent' \cup LateTags' : t <= nonce' /\ Named(t)' = {}
      BY <2>1, <2>2, <2>4, <2>5 DEF LateTags
    <2>7. Unsent' \cap LateTags' = {}
      BY <2>1, <2>4 DEF LateTags
    <2>8. \A t \in 1..MaxNonce : Named(t)' # {} => t <= nonce'
      BY <2>1, <2>2, <2>3
    <2>9. \A t \in 1..MaxNonce : \A o, p \in Named(t)' : o = p
      BY <2>2 DEF OneLifeInv
    <2>10. EveryOrderFoundByTag' /\ \A s, r \in late' : s.tag = r.tag => s = r
      BY <2>1 DEF OneLifeInv, EveryOrderFoundByTag
    <2> QED
      BY <2>6, <2>7, <2>8, <2>9, <2>10 DEF OneLifeInv
  <1>2. CASE PlaceLimited \/ PlaceSubmit \/ PlaceFailed
    <2>1. /\ UNCHANGED <<book, open, byTag, nonce, restarts, late>>
          /\ ~ Listed' /\ ~ Arriving' /\ Unsent' \subseteq Unsent
      BY <1>0, <1>2, PlaceShape
      DEF PlaceLimited, PlaceSubmit, PlaceFailed, Unsent, Listed, Arriving, At, Idle
    <2> QED
      BY <2>1, QuietTags
  <1>3. CASE VenueAccepts
    <2>1. /\ At("place", "sent") /\ call.tag \in 1..MaxNonce /\ call.req \in Request
          /\ Accept(call.tag, call.req) /\ ~ Listed /\ ~ Arriving
          /\ UNCHANGED <<late, open, byTag, nonce, restarts>>
          /\ call' = [op |-> "place", at |-> "accepted", tag |-> call.tag, req |-> call.req,
                      oid |-> nextOid]
      BY <1>0, <1>3, PlaceShape DEF VenueAccepts, Listed, Arriving, At
    <2>2. /\ DOMAIN book' = DOMAIN book \cup {nextOid}
          /\ book'[nextOid].tag = call.tag
          /\ \A o \in DOMAIN book : o # nextOid => book'[o] = book[o]
      BY <2>1 DEF Accept, NewOrder
    <2>3. Unsent = {call.tag} /\ Unsent' = {} /\ ~ Listed' /\ call'.tag = call.tag
            /\ call'.oid = nextOid
      BY <2>1 DEF Unsent, Listed, At
    <2>4. \A t \in 1..MaxNonce :
             Named(t)' \subseteq IF t = call.tag THEN Named(t) \cup {nextOid} ELSE Named(t)
      BY <2>1, <2>2, <2>3 DEF Named, Tagged
    <2>5. restarts = 0 => LateTags' \subseteq LateTags \ {call.tag}
      BY <2>1, <2>3 DEF OneLifeInv, LateTags
    <2> QED
      BY <2>1, <2>2, <2>3, <2>4, <2>5, TagArrives DEF OneLifeInv
  <1>4. CASE PlaceConfirmed
    <2>1. /\ call.oid \in 1..MaxOid /\ call.tag \in 1..MaxNonce /\ Arriving /\ ~ Listed
          /\ DOMAIN open' = DOMAIN open \cup {call.oid}
          /\ open'[call.oid].tag = call.tag
          /\ \A o \in DOMAIN open : o # call.oid => open'[o] = open[o]
          /\ byTag' = [t \in DOMAIN byTag \cup {call.tag} |->
                          IF t = call.tag THEN call.oid ELSE byTag[t]]
          /\ UNCHANGED <<book, late, nonce, restarts>>
          /\ call' = Idle
      <3>1. byTag' = [t \in DOMAIN byTag \cup {call.tag} |->
                         IF t = call.tag THEN call.oid ELSE byTag[t]]
        BY <1>4 DEF PlaceConfirmed, Track
      <3> QED
        BY <1>0, <1>4, <3>1, PlaceConfirmedFacts, AnswerReports
        DEF PlaceConfirmed, Arriving, Listed, At
    <2>2. ~ Listed' /\ ~ Arriving' /\ Unsent' = {}
      BY <2>1 DEF Listed, Arriving, Unsent, At, Idle
    <2>3. \A t \in 1..MaxNonce : Named(t)' \subseteq Named(t)
      BY <2>1, <2>2 DEF Named, Tagged
    <2>4. ASSUME restarts = 0, NEW o \in DOMAIN open'
          PROVE  open'[o].tag \in DOMAIN byTag' /\ byTag'[open'[o].tag] = o
      <3>1. CASE o = call.oid
        BY <2>1, <3>1
      <3>2. CASE o # call.oid
        <4>1. o \in DOMAIN open /\ open'[o] = open[o]
          BY <2>1, <3>2
        <4>2. open[o].tag \in DOMAIN byTag /\ byTag[open[o].tag] = o
          BY <2>4, <4>1 DEF OneLifeInv, EveryOrderFoundByTag
        <4>3. open[o].tag # call.tag
          <5>1. o \in Named(open[o].tag) /\ call.oid \in Named(call.tag)
            BY <2>1, <4>1 DEF Named, Tagged
          <5> QED
            BY <2>1, <2>4, <3>2, <5>1 DEF OneLifeInv
        <4> QED
          BY <2>1, <4>1, <4>2, <4>3
      <3> QED
        BY <3>1, <3>2
    <2>5. restarts = 0 => EveryOrderFoundByTag'
      BY <2>4 DEF EveryOrderFoundByTag
    <2> QED
      BY <2>1, <2>2, <2>3, <2>5, FewerTags
  <1>5. CASE PlaceBroken /\ call.at = "accepted"
    <2>1. /\ UNCHANGED <<book, open, byTag, nonce, restarts, late>>
          /\ ~ Listed' /\ ~ Arriving' /\ Unsent' \subseteq Unsent
      BY <1>0, <1>5, PlaceShape DEF PlaceBroken, Unsent, Listed, Arriving, At, Idle
    <2> QED
      BY <2>1, QuietTags
  <1>6. CASE PlaceBroken /\ call.at = "sent"
    <2> SUFFICES ASSUME restarts = 0
                 PROVE  OneLifeInv'
      BY <1>6 DEF PlaceBroken, OneLifeInv
    <2>1. /\ At("place", "sent") /\ call.tag \in 1..MaxNonce /\ call' = Idle
          /\ late' = late \cup {[tag |-> call.tag, req |-> call.req]}
          /\ UNCHANGED <<book, open, byTag, nonce, restarts>>
          /\ ~ Listed' /\ ~ Arriving' /\ Unsent' = {} /\ Unsent = {call.tag}
      BY <1>0, <1>6, PlaceShape DEF PlaceBroken, Unsent, Listed, Arriving, At, Idle
    <2>2. LateTags' = LateTags \cup {call.tag}
      <3> DEFINE lost == [tag |-> call.tag, req |-> call.req]
      <3>1. late' = late \cup {lost} /\ lost.tag = call.tag
        BY <2>1
      <3> HIDE DEF lost
      <3> QED
        BY <3>1 DEF LateTags
    <2>3. \A t \in 1..MaxNonce : Named(t)' \subseteq Named(t)
      BY <2>1 DEF Named, Tagged
    <2>4. \A t \in Unsent \cup LateTags : t \in 1..MaxNonce
      BY <1>0, <2>1 DEF EngineTypeOK, LateTags
    <2>5. \A t \in Unsent' \cup LateTags' : t <= nonce' /\ Named(t)' = {}
      BY <2>1, <2>2, <2>3, <2>4 DEF OneLifeInv
    <2>6. \A s, r \in late' : s.tag = r.tag => s = r
      BY <2>1 DEF OneLifeInv, LateTags
    <2>7. \A t \in 1..MaxNonce : Named(t)' # {} => t <= nonce'
      BY <2>1, <2>3 DEF OneLifeInv
    <2>8. \A t \in 1..MaxNonce : \A o, p \in Named(t)' : o = p
      BY <2>3 DEF OneLifeInv
    <2>9. EveryOrderFoundByTag'
      BY <2>1 DEF OneLifeInv, EveryOrderFoundByTag
    <2> QED
      BY <2>1, <2>5, <2>6, <2>7, <2>8, <2>9 DEF OneLifeInv
  <1>7. PlaceBroken => call.at = "accepted" \/ call.at = "sent"
    BY DEF PlaceBroken, At
  <1> QED
    BY <1>1, <1>2, <1>3, <1>4, <1>5, <1>6, <1>7

\* Orders untracked take their own tags with them and no other.
LEMMA UntrackOneLife ==
    ASSUME EngineInv, OneLifeInv, NEW oids, oids \subseteq DOMAIN open, Untrack(oids),
           End("done"), UNCHANGED <<exchangeVars, pending, nonce, adrift, restarts>>
    PROVE  OneLifeInv'
  <1>1. /\ DOMAIN open' = DOMAIN open \ oids
        /\ \A o \in DOMAIN open' : open'[o] = open[o]
        /\ DOMAIN byTag' = DOMAIN byTag \ TagsOf(oids)
        /\ \A t \in DOMAIN byTag' : byTag'[t] = byTag[t]
    BY UntrackFacts DEF EngineInv, EngineTypeOK
  <1>2. ~ Listed' /\ ~ Arriving' /\ Unsent' = {}
          /\ UNCHANGED <<book, late, nonce, restarts>>
    BY DEF End, Listed, Arriving, Unsent, At, Idle, exchangeVars
  <1>3. \A t \in 1..MaxNonce : Named(t)' \subseteq Named(t)
    BY <1>1, <1>2 DEF Named, Tagged
  <1>4. ASSUME restarts = 0, NEW o \in DOMAIN open'
        PROVE  open'[o].tag \in DOMAIN byTag' /\ byTag'[open'[o].tag] = o
    <2>1. o \in DOMAIN open /\ o \notin oids /\ open'[o] = open[o]
      BY <1>1
    <2>2. open[o].tag \in DOMAIN byTag /\ byTag[open[o].tag] = o
      BY <1>4, <2>1 DEF OneLifeInv, EveryOrderFoundByTag
    <2>3. open[o].tag \notin TagsOf(oids)
      <3> SUFFICES ASSUME NEW p \in oids, open[p].tag = open[o].tag
                   PROVE  FALSE
        BY DEF TagsOf
      <3>1. byTag[open[p].tag] = p
        BY <1>4 DEF OneLifeInv, EveryOrderFoundByTag
      <3> QED
        BY <2>1, <2>2, <3>1
    <2> QED
      BY <1>1, <2>1, <2>2, <2>3
  <1>5. restarts = 0 => EveryOrderFoundByTag'
    BY <1>4 DEF EveryOrderFoundByTag
  <1> QED
    BY <1>2, <1>3, <1>5, FewerTags

LEMMA ReconcileOneLife ==
    ASSUME EngineInv, OneLifeInv, ReconcileDone
    PROVE  OneLifeInv'
  <1>1. /\ Listed /\ open' = call.orders /\ call' = Idle
        /\ UNCHANGED <<book, late, nonce, restarts>>
    BY DEF ReconcileDone, End, Listed, exchangeVars
  <1>2. ~ Listed' /\ ~ Arriving' /\ Unsent' = {}
    BY <1>1 DEF Listed, Arriving, Unsent, At, Idle
  <1>3. \A t \in 1..MaxNonce : Named(t)' \subseteq Named(t)
    BY <1>1, <1>2 DEF Named, Tagged
  <1>4. PICK index \in TagIndexes(call.orders) :
           byTag' = [t \in (DOMAIN byTag \ TagsOf(DOMAIN open \ DOMAIN call.orders))
                             \cup DOMAIN index |->
                       IF t \in DOMAIN index THEN index[t] ELSE byTag[t]]
    BY DEF ReconcileDone
  <1>5. /\ DOMAIN index = {call.orders[oid].tag : oid \in DOMAIN call.orders}
        /\ \A t \in DOMAIN index :
              index[t] \in DOMAIN call.orders /\ call.orders[index[t]].tag = t
    BY <1>4 DEF TagIndexes
  <1>6. ASSUME restarts = 0, NEW o \in DOMAIN open'
        PROVE  open'[o].tag \in DOMAIN byTag' /\ byTag'[open'[o].tag] = o
    <2> DEFINE t == call.orders[o].tag
    <2>1. o \in DOMAIN call.orders /\ open'[o].tag = t
      BY <1>1, <1>6
    <2>2. t \in DOMAIN index /\ t \in 1..MaxNonce
      <3>1. IsOrderMap(call.orders)
        BY <1>1, ListShape DEF Listed, EngineInv, EngineTypeOK
      <3> QED
        BY <1>5, <2>1, <3>1 DEF IsOrderMap, Order
    <2>3. o \in Named(t) /\ index[t] \in Named(t)
      BY <1>1, <1>5, <2>1, <2>2 DEF Named, Tagged
    <2>4. index[t] = o
      BY <1>6, <2>2, <2>3 DEF OneLifeInv
    <2> QED
      BY <1>4, <2>1, <2>2, <2>4
  <1>7. restarts = 0 => EveryOrderFoundByTag'
    BY <1>6 DEF EveryOrderFoundByTag
  <1> QED
    BY <1>1, <1>2, <1>3, <1>7, FewerTags

LEMMA VenueOneLife ==
    ASSUME EngineInv, OneLifeInv, VenueMoves
    PROVE  OneLifeInv'
  <1>0. EngineTypeOK
    BY DEF EngineInv
  <1>1. ASSUME NEW oid \in DOMAIN book, VenueFills(oid) \/ VenueWithdraws(oid)
        PROVE  OneLifeInv'
    <2>1. /\ \A o \in DOMAIN book' : o \in DOMAIN book /\ book'[o].tag = book[o].tag
          /\ late' = late
      <3>1. CASE VenueFills(oid)
        BY <1>0, <3>1, FillFacts DEF VenueFills, EngineTypeOK, Grown
      <3>2. CASE VenueWithdraws(oid)
        BY <1>0, <3>2, WithdrawFacts DEF VenueWithdraws, EngineTypeOK
      <3> QED
        BY <1>1, <3>1, <3>2
    <2>2. UNCHANGED <<open, byTag, nonce, call, restarts>>
      BY <1>1 DEF VenueFills, VenueWithdraws, engineVars
    <2>3. \A t \in 1..MaxNonce : Named(t)' \subseteq Named(t)
      BY <2>1, <2>2 DEF Named, Tagged, Listed, Arriving, At
    <2>4. Unsent' = Unsent /\ (restarts = 0 => EveryOrderFoundByTag')
      BY <2>2 DEF Unsent, At, OneLifeInv, EveryOrderFoundByTag
    <2> QED
      BY <2>1, <2>2, <2>3, <2>4, FewerTags
  <1>2. ASSUME NEW s \in late, SubmissionArrivesLate(s)
        PROVE  OneLifeInv'
    <2>1. /\ s.tag \in 1..MaxNonce /\ late' = late \ {s}
          /\ UNCHANGED <<open, byTag, nonce, call, restarts>>
          /\ DOMAIN book' = DOMAIN book \cup {nextOid}
          /\ book'[nextOid].tag = s.tag
          /\ \A o \in DOMAIN book : o # nextOid => book'[o] = book[o]
      BY <1>0, <1>2 DEF SubmissionArrivesLate, AcceptLate, Accept, NewOrder, EngineTypeOK
    <2>2. \A t \in 1..MaxNonce :
             Named(t)' \subseteq IF t = s.tag THEN Named(t) \cup {nextOid} ELSE Named(t)
      BY <2>1 DEF Named, Tagged, Listed, Arriving, At
    <2>3. s.tag \in LateTags /\ Unsent' = Unsent
      BY <2>1 DEF LateTags, Unsent, At
    <2>4. restarts = 0 =>
             Unsent' \subseteq Unsent \ {s.tag} /\ LateTags' \subseteq LateTags \ {s.tag}
      BY <2>1, <2>3 DEF OneLifeInv, LateTags
    <2> QED
      BY <2>1, <2>2, <2>3, <2>4, TagArrives DEF OneLifeInv
  <1> QED
    BY <1>1, <1>2 DEF VenueMoves

LEMMA NextOneLife ==
    EngineInv /\ EngineInv' /\ OneLifeInv /\ [EngineNext]_tradingVars => OneLifeInv'
  <1> SUFFICES ASSUME EngineInv, EngineInv', OneLifeInv, [EngineNext]_tradingVars
               PROVE  OneLifeInv'
    OBVIOUS
  <1>0. CallOK
    BY DEF EngineInv, EngineTypeOK
  <1>1. ASSUME UNCHANGED <<exchangeVars, open, byTag, nonce, restarts>>, ~ Listed',
               ~ Arriving', Unsent' \subseteq Unsent
        PROVE  OneLifeInv'
    BY <1>1, QuietTags DEF exchangeVars
  <1>2. CASE \/ \E req \in Request : PlaceCall(req)
             \/ PlaceLimited \/ PlaceSubmit \/ VenueAccepts
             \/ PlaceConfirmed \/ PlaceFailed \/ PlaceBroken
    BY <1>2, PlaceOneLife
  <1>3. CASE \/ \E oid \in 1..MaxOid : Cancel(oid)
             \/ \E tag \in 1..MaxNonce : CancelByTag(tag)
             \/ CancelAll \/ Reconcile \/ ResultRead
             \/ CancelFailed \/ CancelAllFailed \/ ReconcileFailed
    BY <1>1, <1>3
    DEF Cancel, CancelByTag, CancelAll, Reconcile, ResultRead, CancelFailed, CancelAllFailed,
        ReconcileFailed, End, Listed, Arriving, Unsent, At, Idle
  <1>4. CASE VenueCancels
    <2>1. /\ \A o \in DOMAIN book' : o \in DOMAIN book /\ book'[o].tag = book[o].tag
          /\ late' = late
      BY <1>4, WithdrawFacts DEF VenueCancels, exchangeVars, EngineInv, EngineTypeOK
    <2>2. ~ Listed' /\ ~ Arriving' /\ Unsent' = {} /\ UNCHANGED <<open, byTag, nonce, restarts>>
      <3>1. call'.op = "cancel"
        BY <1>0, <1>4, CancelShape DEF VenueCancels, At
      <3> QED
        BY <1>4, <3>1 DEF VenueCancels, Listed, Arriving, Unsent, At
    <2> QED
      BY <2>1, <2>2, QuietTags
  <1>5. CASE VenueCancelsAll
    <2>1. DOMAIN book' = {} /\ UNCHANGED <<late, open, byTag, nonce, restarts>>
      BY <1>5 DEF VenueCancelsAll, NoOrders
    <2>2. ~ Listed' /\ ~ Arriving' /\ Unsent' = {}
      <3>1. call'.op = "cancelAll"
        BY <1>0, <1>5, CancelAllShape DEF VenueCancelsAll, At
      <3> QED
        BY <3>1 DEF Listed, Arriving, Unsent, At
    <2> QED
      BY <2>1, <2>2, QuietTags
  <1>6. CASE CancelConfirmed
    <2>1. {call.oid} \subseteq DOMAIN open
      BY <1>0, <1>6, CancelShape DEF CancelConfirmed, At
    <2> QED
      BY <1>6, <2>1, UntrackOneLife DEF CancelConfirmed
  <1>7. CASE CancelAllConfirmed
    <2>1. call.oids \subseteq DOMAIN open
      BY <1>0, <1>7, CancelAllShape DEF CancelAllConfirmed, At
    <2> QED
      BY <1>7, <2>1, UntrackOneLife DEF CancelAllConfirmed
  <1>8. CASE VenueLists
    <2> DEFINE listed == [oid \in DOMAIN book |-> FromGateOrder(book[oid])]
    <2>1. /\ call' = [op |-> "reconcile", at |-> "listed", orders |-> listed]
          /\ UNCHANGED <<book, late, open, byTag, nonce, restarts>>
      BY <1>8 DEF VenueLists, exchangeVars
    <2>2. ~ Arriving' /\ Unsent' = {} /\ call'.orders = listed
      BY <2>1 DEF Arriving, Unsent, At
    <2>3. \A t \in 1..MaxNonce : Named(t)' \subseteq Named(t)
      <3>1. DOMAIN listed = DOMAIN book /\ \A oid \in DOMAIN book : listed[oid].tag = book[oid].tag
        BY DEF FromGateOrder
      <3> QED
        BY <2>1, <2>2, <3>1 DEF Named, Tagged
    <2>4. restarts = 0 => EveryOrderFoundByTag'
      BY <2>1 DEF OneLifeInv, EveryOrderFoundByTag
    <2> QED
      BY <2>1, <2>2, <2>3, <2>4, FewerTags
  <1>9. CASE ReconcileDone
    BY <1>9, ReconcileOneLife
  <1>10. CASE VenueMoves
    BY <1>10, VenueOneLife
  <1>11. CASE ProcessDies
    <2>1. restarts' # 0
      BY <1>11 DEF ProcessDies, EngineInv, EngineTypeOK
    <2> QED
      BY <2>1 DEF OneLifeInv
  <1>12. CASE UNCHANGED tradingVars
    <2>1. UNCHANGED <<book, late, open, byTag, nonce, call, restarts>>
      BY <1>12 DEF tradingVars, exchangeVars, engineVars
    <2> QED
      BY <2>1
      DEF OneLifeInv, Named, Tagged, Unsent, LateTags, Listed, Arriving, At,
          EveryOrderFoundByTag
  <1> QED
    BY <1>2, <1>3, <1>4, <1>5, <1>6, <1>7, <1>8, <1>9, <1>10, <1>11, <1>12
    DEF EngineNext, CallerStep, EngineStep

\* Until the first crash every tracked order is found by its tag, through lost
\* answers, late arrivals and lists that race a fill.
THEOREM FoundByTag == EngineSpec => []FoundByTagInOneLife
  <1>1. OneLifeInv => FoundByTagInOneLife
    BY DEF OneLifeInv, FoundByTagInOneLife
  <1> QED
    BY <1>1, InitEngineInv, NextEngineInv, InitOneLife, NextOneLife, PTL DEF EngineSpec
=============================================================================
