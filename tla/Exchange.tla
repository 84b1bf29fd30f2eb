------------------------------- MODULE Exchange -------------------------------
(***************************************************************************)
(* The spot venue behind client/gate_client.py, as the code uses it: it    *)
(* numbers the orders it accepts, fills or cancels them on its own, and    *)
(* reports them as they are when it is asked.  One trading pair.           *)
(*                                                                         *)
(* An order trades at its own price.  Its record counts twice what was     *)
(* filled: rem is what is left of its size, in the base currency, and      *)
(* total is Gate's filled_total, what has been paid for the rest, in the   *)
(* quote currency.                                                         *)
(***************************************************************************)
EXTENDS Integers, FiniteSets, Functions

CONSTANTS
    Sides,          \* subset of {"buy", "sell"}
    Sizes,          \* the sizes that are ordered
    Prices,         \* the prices they are ordered at
    MaxOid          \* bound on the orders the venue accepts

ASSUME ExchangeAssumption ==
    /\ Sides \subseteq {"buy", "sell"}
    /\ Sizes \subseteq Nat \ {0}
    /\ Prices \subseteq Nat \ {0}
    /\ MaxOid \in Nat

VARIABLES
    book,           \* the live orders: order id -> order
    nextOid,        \* the id of the next order accepted
    held,           \* units of the base currency in the account
    late            \* submissions the client gave up that may still arrive

exchangeVars == <<book, nextOid, held, late>>

Request == [side : Sides, size : Sizes, price : Prices]

NewOrder(tag, req) ==
    [tag |-> tag, side |-> req.side, size |-> req.size, price |-> req.price,
     rem |-> req.size, total |-> 0]

\* _from_gate_order(): the Order that the client makes of the venue's answer.
\* Its filled_size is filled_total as it stands.
FromGateOrder(o) == [tag |-> o.tag, side |-> o.side, size |-> o.size, filled |-> o.total]

NoOrders == [oid \in {} |-> 0]

ExchangeInit ==
    /\ book = NoOrders
    /\ nextOid = 1
    /\ held = 0
    /\ late = {}

\* A submission arrives and is put in the book.
Accept(tag, req) ==
    /\ nextOid <= MaxOid
    /\ book' = [oid \in DOMAIN book \cup {nextOid} |->
                  IF oid = nextOid THEN NewOrder(tag, req) ELSE book[oid]]
    /\ nextOid' = nextOid + 1

\* A unit of the order has traded at the order's price.
Traded(o) == [o EXCEPT !.rem = o.rem - 1, !.total = o.total + o.price]

\* One unit of a live order trades; a sell needs a unit to deliver.
Fill(oid) ==
    /\ book[oid].side = "sell" => held > 0
    /\ held' = IF book[oid].side = "buy" THEN held + 1 ELSE held - 1
    /\ book' = IF book[oid].rem = 1 THEN Restrict(book, DOMAIN book \ {oid})
                                    ELSE [book EXCEPT ![oid] = Traded(@)]
    /\ UNCHANGED <<nextOid, late>>

\* The venue, or the account's owner, cancels an order.
Withdraw(oid) ==
    /\ book' = Restrict(book, DOMAIN book \ {oid})
    /\ UNCHANGED <<nextOid, held, late>>

\* A submission whose client has stopped waiting arrives after all.
AcceptLate(s) ==
    /\ Accept(s.tag, s.req)
    /\ late' = late \ {s}
    /\ UNCHANGED held
=============================================================================
