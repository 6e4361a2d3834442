---------------------------- MODULE ClientOrders ----------------------------
(***************************************************************************)
(* order_service.py: what the client does with an order.  Creating,        *)
(* selecting a driver and confirming are one step; publishing, editing and *)
(* cancelling read the order without a lock and write it later.            *)
(***************************************************************************)
EXTENDS OrderData

ClientCancelAllowed == {"draft", "published", "bidding", "accepted"}

ClientRequest(op, o, rt) ==
    [op |-> op, order |-> o, driver |-> None, seen |-> orders[o].status,
     bid |-> None, offer |-> None, price |-> None, route |-> rt, online |-> FALSE]

\* create_order_draft
CreateOrderDraft(o, rt) ==
    /\ FreeWorker
    /\ orders[o].status = None
    /\ WriteStatus(o, [NoOrder EXCEPT !.status = "draft", !.route = rt], None, "client")
    /\ UNCHANGED <<bids, offers, drivers, rate, req>>

\* publish_order, up to the write: a draft, complete by construction.
BeginPublish(r, o) ==
    /\ orders[o].status = "draft"
    /\ Begin(r, ClientRequest("publish", o, orders[o].route))

\* find_matched_drivers_for_order
Matched(rt) == {d \in Drivers : Eligible(d) /\ ServesRoute(d, rt)}

\* Mutant: offers that exist are written again.
OffersRefreshed(o, rt) ==
    [d \in Drivers |-> IF d \in Matched(rt) THEN "shown" ELSE offers[o][d]]

\* create_order_offers_for_published_order skips the offers that exist.
OffersAfterPublish(o, rt) ==
    [d \in Drivers |-> IF d \in Matched(rt) /\ offers[o][d] = None
                       THEN "shown" ELSE offers[o][d]]

\* publish_order, from the write on; it matches on the route it has read.
CommitPublish(r) ==
    /\ Pending(r, "publish")
    /\ LET o == req[r].order IN
       /\ WriteStatus(o, [orders[o] EXCEPT !.status = "published"], req[r].seen, "client")
       /\ offers' = [offers EXCEPT ![o] = OffersAfterPublish(o, req[r].route)]
    /\ Finish(r)
    /\ UNCHANGED <<bids, drivers, rate>>

\* update_order with another route: allowed on a draft only.  An edit that
\* keeps the route writes columns that nothing modelled here depends on.
BeginEdit(r, o, rt) ==
    /\ orders[o].status = "draft"
    /\ rt # orders[o].route
    /\ Begin(r, ClientRequest("edit", o, rt))

CommitEdit(r) ==
    /\ Pending(r, "edit")
    /\ orders' = [orders EXCEPT ![req[r].order].route = req[r].route]
    /\ Finish(r)
    /\ UNCHANGED <<bids, offers, history, drivers, rate>>

\* cancel_order: bids and offers stay as they are.
BeginCancel(r, o) ==
    /\ orders[o].status \in ClientCancelAllowed
    /\ Begin(r, ClientRequest("cancel", o, None))

CommitCancel(r) ==
    /\ Pending(r, "cancel")
    /\ LET o == req[r].order IN
       WriteStatus(o, [orders[o] EXCEPT !.status = "cancelled"], req[r].seen, "client")
    /\ Finish(r)
    /\ UNCHANGED <<bids, offers, drivers, rate>>

CanSelect(o, d) == /\ orders[o].status = "bidding"
                   /\ bids[o][d] # None
                   /\ bids[o][d].status = "active"
                   /\ InGoodStanding(d)

\* Mutant: as in a manual assignment, only active bids are closed.
ActiveBidsAfterSelection(o, d) ==
    [x \in Drivers |->
        IF bids[o][x] = None \/ (x # d /\ bids[o][x].status # "active") THEN bids[o][x]
        ELSE [bids[o][x] EXCEPT !.status = IF x = d THEN "accepted" ELSE "closed"]]

\* Mutant: the other bids are left alone.
OnlySelectedBidChanges(o, d) ==
    [x \in Drivers |-> IF x = d THEN [bids[o][x] EXCEPT !.status = "accepted"]
                                ELSE bids[o][x]]

\* The selected bid is accepted; every other bid of the order, whatever its
\* status, is closed.
BidsAfterSelection(o, d) ==
    [x \in Drivers |->
        IF bids[o][x] = None THEN None
        ELSE [bids[o][x] EXCEPT !.status = IF x = d THEN "accepted" ELSE "closed"]]

\* Mutant: the cheapest of the bids.
CheapestPrice(o, d) ==
    CHOOSE p \in {bids[o][x].price : x \in {y \in Drivers : bids[o][y] # None}} :
        \A x \in Drivers : bids[o][x] # None => p <= bids[o][x].price

\* The price the bid has now.
AgreedPrice(o, d) == bids[o][d].price

\* select_driver_for_order
SelectDriver(o, d) ==
    /\ FreeWorker
    /\ CanSelect(o, d)
    /\ WriteStatus(o, [orders[o] EXCEPT !.status = "accepted",
                                        !.assigned = d,
                                        !.acceptedBid = d,
                                        !.final = OrderIncome(AgreedPrice(o, d), rate)],
                   "bidding", "client")
    /\ bids' = [bids EXCEPT ![o] = BidsAfterSelection(o, d)]
    /\ offers' = [offers EXCEPT ![o][d] = IF @ = None THEN None ELSE "bid_sent"]
    /\ UNCHANGED <<drivers, rate, req>>

CanConfirm(o) == /\ orders[o].status = "delivered"
                 /\ orders[o].assigned # None

\* Mutant: the payment status is forgotten.
ConfirmUnpaid(o) ==
    /\ FreeWorker
    /\ CanConfirm(o)
    /\ WriteStatus(o, [orders[o] EXCEPT !.status = "confirmed"], "delivered", "client")
    /\ UNCHANGED <<bids, offers, drivers, rate, req>>

\* confirm_delivered_order: cash, paid by hand.
ConfirmDelivered(o) ==
    /\ FreeWorker
    /\ CanConfirm(o)
    /\ WriteStatus(o, [orders[o] EXCEPT !.status = "confirmed", !.paid = TRUE],
                   "delivered", "client")
    /\ UNCHANGED <<bids, offers, drivers, rate, req>>
=============================================================================
