----------------------------- MODULE OrderEngine -----------------------------
(***************************************************************************)
(* LiveOrderEngine of order/order_engine.py over the venue of Exchange.    *)
(*                                                                         *)
(* Each public coroutine is cut where it awaits: the limiter, the REST     *)
(* call on its way, the venue's own step, the answer.  The bot's main task *)
(* is the only caller, so one call is under way at a time; the venue and   *)
(* the network move in between.  A REST call ends in an answer, in an      *)
(* ExchangeError (an HTTP error, even after the venue has acted) or in a   *)
(* raw transport error, which gate_client.py does not translate.           *)
(*                                                                         *)
(* A tag gt:<pair>:<nonce> is its nonce.  A price is checked and rounded   *)
(* before anything else happens; after that only the venue reads it.       *)
(***************************************************************************)
EXTENDS Exchange

CONSTANTS
    MaxNonce,       \* bound on the placements of one process
    MaxRestarts     \* bound on the crashes

ASSUME OrderEngineAssumption == MaxNonce \in Nat /\ MaxRestarts \in Nat

VARIABLES
    open,           \* _open: order id -> order as last reported
    byTag,          \* _by_tag: tag -> order id
    pending,        \* the keys of _pending
    nonce,          \* _nonce
    call,           \* the coroutine under way and where it awaits
    result,         \* how the last coroutine ended (not place(): every caller ignores that)
    adrift,         \* history: orders in the book this process was never told about
    restarts        \* history: crashes so far

engineVars == <<open, byTag, pending, nonce, call, result, adrift, restarts>>
tradingVars == <<exchangeVars, engineVars>>

Idle == [op |-> "idle"]

EngineInit ==
    /\ ExchangeInit
    /\ open = NoOrders
    /\ byTag = [t \in {} |-> 0]
    /\ pending = {}
    /\ nonce = 0
    /\ call = Idle
    /\ result = "none"
    /\ adrift = {}
    /\ restarts = 0

At(op, where) == call.op = op /\ call.at = where

\* Returned after the venue's answer (or with nothing to ask), returned after
\* an error that was caught and turned into False, 0 or set(), or raised.
Outcomes == {"done", "swallowed", "raised"}

End(how) == call' = Idle /\ result' = how

TagsOf(oids) == {open[oid].tag : oid \in oids}

MutUntrackKeepsTags(oids) ==
    /\ open' = Restrict(open, DOMAIN open \ oids)
    /\ UNCHANGED byTag

\* _open.pop and _by_tag.pop for each of oids.
Untrack(oids) ==
    /\ open' = Restrict(open, DOMAIN open \ oids)
    /\ byTag' = Restrict(byTag, DOMAIN byTag \ TagsOf(oids))

\* The answer's order goes into _open, and its tag into _by_tag.
Track(oid, tag, order) ==
    /\ open' = [o \in DOMAIN open \cup {oid} |-> IF o = oid THEN order ELSE open[o]]
    /\ byTag' = [t \in DOMAIN byTag \cup {tag} |-> IF t = tag THEN oid ELSE byTag[t]]

-----------------------------------------------------------------------------
(* place()                                                                 *)

\* _validate has passed (it raises ValueError before anything has changed) and
\* the tag is drawn.
PlaceCall(req) ==
    /\ call = Idle
    /\ nonce < MaxNonce
    /\ nonce' = nonce + 1
    /\ call' = [op |-> "place", at |-> "limiter", tag |-> nonce + 1, req |-> req]
    /\ UNCHANGED <<exchangeVars, open, byTag, pending, result, adrift, restarts>>

\* rl.acquire() returned False: RateLimitExceeded.
PlaceLimited ==
    /\ At("place", "limiter")
    /\ call' = Idle
    /\ UNCHANGED <<exchangeVars, open, byTag, pending, nonce, result, adrift, restarts>>

PlaceSubmit ==
    /\ At("place", "limiter")
    /\ pending' = pending \cup {call.tag}
    /\ call' = [call EXCEPT !.at = "sent"]
    /\ UNCHANGED <<exchangeVars, open, byTag, nonce, result, adrift, restarts>>

VenueAccepts ==
    /\ At("place", "sent")
    /\ Accept(call.tag, call.req)
    /\ call' = [op |-> "place", at |-> "accepted", tag |-> call.tag, req |-> call.req,
                oid |-> nextOid]
    /\ UNCHANGED <<held, late, open, byTag, pending, nonce, result, adrift, restarts>>

\* The order as create_order() may answer it: as it was sent, as it stands after
\* a match on arrival, or all filled.
Answers ==
    LET new == NewOrder(call.tag, call.req)
    IN  {new, IF call.oid \in DOMAIN book
              THEN book[call.oid]
              ELSE [new EXCEPT !.rem = 0, !.total = call.req.size * call.req.price]}

MutPlaceConfirmedAsFilled ==
    /\ At("place", "accepted")
    /\ pending' = pending \ {call.tag}
    /\ Track(call.oid, call.tag,
             [FromGateOrder(NewOrder(call.tag, call.req)) EXCEPT !.filled = call.req.size])
    /\ call' = Idle
    /\ UNCHANGED <<exchangeVars, nonce, result, adrift, restarts>>

PlaceConfirmed ==
    /\ At("place", "accepted")
    /\ pending' = pending \ {call.tag}
    /\ \E order \in Answers : Track(call.oid, call.tag, FromGateOrder(order))
    /\ call' = Idle
    /\ UNCHANGED <<exchangeVars, nonce, result, adrift, restarts>>

\* The order may be in the book all the same: an HTTP error after the venue acted.
PlaceFailed ==
    /\ At("place", "sent") \/ At("place", "accepted")
    /\ adrift' = IF call.at = "accepted" THEN adrift \cup {call.oid} ELSE adrift
    /\ pending' = pending \ {call.tag}
    /\ call' = Idle
    /\ UNCHANGED <<exchangeVars, open, byTag, nonce, result, restarts>>

\* Only ExchangeError is caught: a transport error leaves the tag pending,
\* and a submission still on its way may reach the venue later.
PlaceBroken ==
    /\ At("place", "sent") \/ At("place", "accepted")
    /\ adrift' = IF call.at = "accepted" THEN adrift \cup {call.oid} ELSE adrift
    /\ late' = IF call.at = "sent" THEN late \cup {[tag |-> call.tag, req |-> call.req]}
                                   ELSE late
    /\ call' = Idle
    /\ UNCHANGED <<book, nextOid, held, open, byTag, pending, nonce, result, restarts>>

-----------------------------------------------------------------------------
(* cancel() and cancel_by_tag()                                            *)

MutCancelUnchecked(oid) ==
    /\ call = Idle
    /\ call' = [op |-> "cancel", at |-> "sent", oid |-> oid]
    /\ UNCHANGED <<exchangeVars, open, byTag, pending, nonce, result, adrift, restarts>>

Cancel(oid) ==
    /\ call = Idle
    /\ IF oid \in DOMAIN open
       THEN call' = [op |-> "cancel", at |-> "sent", oid |-> oid] /\ UNCHANGED result
       ELSE End("done")
    /\ UNCHANGED <<exchangeVars, open, byTag, pending, nonce, adrift, restarts>>

CancelByTag(tag) ==
    \/ tag \in DOMAIN byTag /\ Cancel(byTag[tag])
    \/ /\ tag \notin DOMAIN byTag
       /\ call = Idle
       /\ End("done")
       /\ UNCHANGED <<exchangeVars, open, byTag, pending, nonce, adrift, restarts>>

VenueCancels ==
    /\ At("cancel", "sent")
    /\ IF call.oid \in DOMAIN book
       THEN call' = [call EXCEPT !.at = "cancelled"] /\ Withdraw(call.oid)
       ELSE call' = [call EXCEPT !.at = "gone"] /\ UNCHANGED exchangeVars
    /\ UNCHANGED <<open, byTag, pending, nonce, result, adrift, restarts>>

CancelConfirmed ==
    /\ At("cancel", "cancelled")
    /\ Untrack({call.oid})
    /\ End("done")
    /\ UNCHANGED <<exchangeVars, pending, nonce, adrift, restarts>>

MutCancelFailedUntracks ==
    /\ call.op = "cancel"
    /\ call.at # "cancelled"
    /\ Untrack({call.oid})
    /\ End("done")
    /\ UNCHANGED <<exchangeVars, pending, nonce, adrift, restarts>>

\* Not found (404 or a status other than cancelled) or an error: the order
\* stays tracked.  A transport error is raised, the others return False.
CancelFailed ==
    /\ call.op = "cancel"
    /\ \E how \in {"swallowed", "raised"} : End(how)
    /\ UNCHANGED <<exchangeVars, open, byTag, pending, nonce, adrift, restarts>>

-----------------------------------------------------------------------------
(* cancel_all()                                                            *)

CancelAll ==
    /\ call = Idle
    /\ IF open = NoOrders
       THEN End("done")
       ELSE /\ call' = [op |-> "cancelAll", at |-> "sent", oids |-> DOMAIN open]
            /\ UNCHANGED result
    /\ UNCHANGED <<exchangeVars, open, byTag, pending, nonce, adrift, restarts>>

VenueCancelsAll ==
    /\ At("cancelAll", "sent")
    /\ call' = [call EXCEPT !.at = "cancelled"]
    /\ book' = NoOrders
    /\ UNCHANGED <<nextOid, held, late, open, byTag, pending, nonce, result, adrift, restarts>>

CancelAllConfirmed ==
    /\ At("cancelAll", "cancelled")
    /\ Untrack(call.oids)
    /\ End("done")
    /\ UNCHANGED <<exchangeVars, pending, nonce, adrift, restarts>>

\* An ExchangeError is turned into 0, a transport error is raised.
CancelAllFailed ==
    /\ call.op = "cancelAll"
    /\ \E how \in {"swallowed", "raised"} : End(how)
    /\ UNCHANGED <<exchangeVars, open, byTag, pending, nonce, adrift, restarts>>

-----------------------------------------------------------------------------
(* reconcile()                                                             *)

Reconcile ==
    /\ call = Idle
    /\ call' = [op |-> "reconcile", at |-> "sent"]
    /\ UNCHANGED <<exchangeVars, open, byTag, pending, nonce, result, adrift, restarts>>

VenueLists ==
    /\ At("reconcile", "sent")
    /\ call' = [op |-> "reconcile", at |-> "listed",
                orders |-> [oid \in DOMAIN book |-> FromGateOrder(book[oid])]]
    /\ UNCHANGED <<exchangeVars, open, byTag, pending, nonce, result, adrift, restarts>>

\* The orders of the answer under each of their tags; of two orders with the
\* same tag the one listed last is kept, and the venue's order is not known.
TagIndexes(orders) ==
    LET tags == {orders[oid].tag : oid \in DOMAIN orders}
    IN  {f \in [tags -> DOMAIN orders] : \A t \in tags : orders[f[t]].tag = t}

MutReconcileIgnoresOrphans ==
    /\ At("reconcile", "listed")
    /\ open' = [oid \in DOMAIN open \cap DOMAIN call.orders |-> call.orders[oid]]
    /\ byTag' = Restrict(byTag, DOMAIN byTag \ TagsOf(DOMAIN open \ DOMAIN call.orders))
    /\ adrift' = adrift \ DOMAIN call.orders
    /\ End("done")
    /\ UNCHANGED <<exchangeVars, pending, nonce, restarts>>

MutReconcileKeepsOldTags ==
    /\ At("reconcile", "listed")
    /\ open' = call.orders
    /\ byTag' = Restrict(byTag, DOMAIN byTag \ TagsOf(DOMAIN open \ DOMAIN call.orders))
    /\ adrift' = adrift \ DOMAIN call.orders
    /\ End("done")
    /\ UNCHANGED <<exchangeVars, pending, nonce, restarts>>

\* Stale orders are dropped with their tags, then every listed order is
\* adopted as reported, the orphans included.
ReconcileDone ==
    /\ At("reconcile", "listed")
    /\ open' = call.orders
    /\ \E index \in TagIndexes(call.orders) :
          LET stale == TagsOf(DOMAIN open \ DOMAIN call.orders)
          IN  byTag' = [t \in (DOMAIN byTag \ stale) \cup DOMAIN index |->
                          IF t \in DOMAIN index THEN index[t] ELSE byTag[t]]
    /\ adrift' = adrift \ DOMAIN call.orders
    /\ End("done")
    /\ UNCHANGED <<exchangeVars, pending, nonce, restarts>>

ReconcileFailed ==
    /\ call.op = "reconcile"
    /\ \E how \in {"swallowed", "raised"} : End(how)
    /\ UNCHANGED <<exchangeVars, open, byTag, pending, nonce, adrift, restarts>>

\* The caller has looked at the result of its last call.
ResultRead ==
    /\ call = Idle
    /\ result' = "none"
    /\ UNCHANGED <<exchangeVars, open, byTag, pending, nonce, call, adrift, restarts>>

-----------------------------------------------------------------------------
(* The venue, the network and the process, on their own account.           *)

VenueFills(oid) == Fill(oid) /\ UNCHANGED engineVars

VenueWithdraws(oid) == Withdraw(oid) /\ UNCHANGED engineVars

SubmissionArrivesLate(s) ==
    /\ AcceptLate(s)
    /\ adrift' = adrift \cup {nextOid}
    /\ UNCHANGED <<open, byTag, pending, nonce, call, result, restarts>>

VenueMoves ==
    \/ \E oid \in DOMAIN book : VenueFills(oid) \/ VenueWithdraws(oid)
    \/ \E s \in late : SubmissionArrivesLate(s)

\* The process dies and a new one starts with nothing: every live order is
\* unknown to it, and a submission on its way may still arrive.
ProcessDies ==
    /\ restarts < MaxRestarts
    /\ restarts' = restarts + 1
    /\ open' = NoOrders
    /\ byTag' = [t \in {} |-> 0]
    /\ pending' = {}
    /\ nonce' = 0
    /\ call' = Idle
    /\ result' = "none"
    /\ adrift' = DOMAIN book
    /\ late' = IF At("place", "sent") THEN late \cup {[tag |-> call.tag, req |-> call.req]}
                                     ELSE late
    /\ UNCHANGED <<book, nextOid, held>>

\* The steps of the call under way.
EngineStep ==
    \/ PlaceLimited \/ PlaceSubmit \/ VenueAccepts
    \/ PlaceConfirmed \/ PlaceFailed \/ PlaceBroken
    \/ VenueCancels \/ CancelConfirmed \/ CancelFailed
    \/ VenueCancelsAll \/ CancelAllConfirmed \/ CancelAllFailed
    \/ VenueLists \/ ReconcileDone \/ ReconcileFailed

\* The calls of the interface, by a caller that waits for each to end.
CallerStep ==
    \/ \E req \in Request : PlaceCall(req)
    \/ \E oid \in 1..MaxOid : Cancel(oid)
    \/ \E tag \in 1..MaxNonce : CancelByTag(tag)
    \/ CancelAll
    \/ Reconcile
    \/ ResultRead

EngineNext == CallerStep \/ EngineStep \/ VenueMoves \/ ProcessDies

EngineSpec == EngineInit /\ [][EngineNext]_tradingVars

-----------------------------------------------------------------------------
Order == [tag : 1..MaxNonce, side : Sides, size : Nat, filled : Nat]

IsOrderMap(m) == DOMAIN m \subseteq 1..MaxOid /\ m \in [DOMAIN m -> Order]

BookOrder ==
    [tag : 1..MaxNonce, side : Sides, size : Nat, price : Nat, rem : Nat, total : Nat]

IsBook(m) == DOMAIN m \subseteq 1..MaxOid /\ m \in [DOMAIN m -> BookOrder]

CallOK ==
    \/ call = Idle
    \/ call \in [op : {"place"}, at : {"limiter", "sent"}, tag : 1..MaxNonce, req : Request]
    \/ call \in [op : {"place"}, at : {"accepted"}, tag : 1..MaxNonce, req : Request,
                 oid : 1..MaxOid]
    \/ call \in [op : {"cancel"}, at : {"sent", "cancelled", "gone"}, oid : DOMAIN open]
    \/ call \in [op : {"cancelAll"}, at : {"sent", "cancelled"}, oids : {DOMAIN open}]
    \/ call = [op |-> "reconcile", at |-> "sent"]
    \/ /\ DOMAIN call = {"op", "at", "orders"}
       /\ At("reconcile", "listed")
       /\ IsOrderMap(call.orders)

EngineTypeOK ==
    /\ IsBook(book) /\ IsOrderMap(open)
    /\ \A oid \in DOMAIN book :
          book[oid].rem > 0 /\ book[oid].rem <= book[oid].size /\ oid < nextOid
    /\ nextOid \in 1..(MaxOid + 1)
    /\ held \in Nat
    /\ late \subseteq [tag : 1..MaxNonce, req : Request]
    /\ DOMAIN byTag \subseteq 1..MaxNonce /\ byTag \in [DOMAIN byTag -> 1..MaxOid]
    /\ pending \subseteq 1..MaxNonce
    /\ nonce \in 0..MaxNonce
    /\ CallOK
    /\ result \in {"none"} \cup Outcomes
    /\ adrift \subseteq 1..MaxOid
    /\ restarts \in 0..MaxRestarts

\* The order whose answer is on its way.
Answering == IF At("place", "accepted") THEN {call.oid} ELSE {}

(***************************************************************************)
(* The bot's view of its exposure is complete: a live order it does not    *)
(* track is one it was never told about (a lost answer, a late arrival, an *)
(* earlier process).  No cancellation that failed, and no reconciliation   *)
(* racing a fill, drops a live order from _open.                           *)
(***************************************************************************)
NothingForgotten == DOMAIN book \subseteq DOMAIN open \cup adrift \cup Answering

(***************************************************************************)
(* ... and it is never ahead of the book: whatever fills while an answer   *)
(* or a list is on its way, what _open holds of a live order is the venue's *)
(* record of that order, of the same size, as it is or as it was.          *)
(***************************************************************************)
ReportsNotAhead ==
    \A oid \in DOMAIN book \cap DOMAIN open :
        open[oid].size = book[oid].size /\ open[oid].filled <= book[oid].total

(***************************************************************************)
(* The risk manager takes filled_size from size to know what a buy may     *)
(* still add to the position: filled_size is never more than what has been *)
(* filled of the size.  (It is as soon as a unit costs more than one.)     *)
(***************************************************************************)
FilledSizeIsInBase ==
    \A oid \in DOMAIN book \cap DOMAIN open :
        open[oid].filled <= book[oid].size - book[oid].rem

(***************************************************************************)
(* order_by_tag() and cancel_by_tag() never reach a dead or a wrong order: *)
(* every tag leads to a tracked order that carries it.                     *)
(***************************************************************************)
TagsLeadToTheirOrder ==
    \A t \in DOMAIN byTag : byTag[t] \in DOMAIN open /\ open[byTag[t]].tag = t

(***************************************************************************)
(* "Every order is tagged ... so the engine can match exchange state to    *)
(* internal state": every tracked order is found by its tag.               *)
(***************************************************************************)
EveryOrderFoundByTag ==
    \A oid \in DOMAIN open :
        open[oid].tag \in DOMAIN byTag /\ byTag[open[oid].tag] = oid

\* It holds for as long as the process that numbers the tags lives.
FoundByTagInOneLife == restarts = 0 => EveryOrderFoundByTag
=============================================================================
