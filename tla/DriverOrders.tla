---------------------------- MODULE DriverOrders ----------------------------
(***************************************************************************)
(* driver_order_service.py: bidding, declining, and moving an assigned     *)
(* order along.  Bids and declines read the order, the bid and the offer   *)
(* without a lock.  The delivery steps lock the order row, but they have   *)
(* read the driver's profile and user before they wait for that lock.      *)
(***************************************************************************)
EXTENDS OrderData

DriverRequest(op, o, d, p) ==
    [op |-> op, order |-> o, driver |-> d, seen |-> orders[o].status,
     bid |-> bids[o][d], offer |-> offers[o][d], price |-> p, route |-> None,
     online |-> FALSE]

\* ensure_order_visible for a driver without a bid on the order
Visible(o, d) == \/ orders[o].assigned = d
                 \/ /\ offers[o][d] # "rejected"
                    /\ ServesRoute(d, orders[o].route)

CanBid(o, d) == /\ Eligible(d)
                /\ orders[o].status \in OpenFeed
                /\ Visible(o, d)
                /\ bids[o][d] = None

\* create_bid, the tests
BeginBid(r, o, d, p) ==
    /\ CanBid(o, d)
    /\ Begin(r, DriverRequest("bid", o, d, p))

\* create_bid, the writes.  The two unique constraints refuse a second bid,
\* and an offer row inserted twice.  The first bid also moves the order from
\* published to bidding: from the published that was read, that is.
CommitBid(r) ==
    /\ Pending(r, "bid")
    /\ LET o == req[r].order
           d == req[r].driver
       IN  /\ bids[o][d] = None
           /\ req[r].offer = None => offers[o][d] = None
           /\ bids' = [bids EXCEPT ![o][d] =
                          [status |-> "active", price |-> req[r].price, updates |-> 0]]
           /\ offers' = [offers EXCEPT ![o][d] = "bid_sent"]
           /\ IF req[r].seen = "published"
              THEN WriteStatus(o, [orders[o] EXCEPT !.status = "bidding"], "published", "driver")
              ELSE UNCHANGED <<orders, history>>
    /\ Finish(r)
    /\ UNCHANGED <<drivers, rate>>

\* Mutant: one change too many.
CanChangePriceOnceMore(bid, p) == /\ bid # None
                                  /\ bid.status = "active"
                                  /\ bid.price # p
                                  /\ bid.updates <= MaxBidPriceUpdates

CanChangePrice(bid, p) == /\ bid # None
                          /\ bid.status = "active"
                          /\ bid.price # p
                          /\ bid.updates < MaxBidPriceUpdates

\* update_bid with another price.  With the same price it changes no row but
\* a notification.
BeginUpdateBid(r, o, d, p) ==
    /\ Eligible(d)
    /\ orders[o].status \in OpenFeed
    /\ CanChangePrice(bids[o][d], p)
    /\ Begin(r, DriverRequest("update_bid", o, d, p))

\* The price and the counter are written from what was read; the status was
\* "active" when it was read, so the ORM does not send it.
Repriced(bid, read, p) == [bid EXCEPT !.price = p, !.updates = read.updates + 1]

CommitUpdateBid(r) ==
    /\ Pending(r, "update_bid")
    /\ bids' = [bids EXCEPT ![req[r].order][req[r].driver] =
                   Repriced(@, req[r].bid, req[r].price)]
    /\ Finish(r)
    /\ UNCHANGED <<orders, offers, history, drivers, rate>>

CanReject(o, d) == /\ Eligible(d)
                   /\ orders[o].status \notin {None, "cancelled", "confirmed"}
                   /\ orders[o].assigned \in {None, d}
                   /\ ServesRoute(d, orders[o].route) \/ offers[o][d] # None

\* reject_order, the tests
BeginReject(r, o, d) ==
    /\ CanReject(o, d)
    /\ Begin(r, DriverRequest("reject", o, d, None))

\* Mutant: the bid is forgotten.
BidStands(bid, read) == bid

\* A bid that was read as active is rejected, whatever it is by now.
BidDeclined(bid, read) ==
    IF read # None /\ read.status = "active" THEN [bid EXCEPT !.status = "rejected"] ELSE bid

\* reject_order, the writes: the offer is rejected (not sent again when it was
\* read as rejected), and the bid with it.
CommitReject(r) ==
    /\ Pending(r, "reject")
    /\ LET o == req[r].order
           d == req[r].driver
       IN  /\ req[r].offer = None => offers[o][d] = None
           /\ offers' = [offers EXCEPT ![o][d] =
                            IF req[r].offer = "rejected" THEN @ ELSE "rejected"]
           /\ bids' = [bids EXCEPT ![o][d] = BidDeclined(@, req[r].bid)]
    /\ Finish(r)
    /\ UNCHANGED <<orders, history, drivers, rate>>

-----------------------------------------------------------------------------
\* DRIVER_STATUS_TRANSITIONS, from the expected status to the new one
DriverTransition == [accepted |-> "picked_up",
                     picked_up |-> "in_transit",
                     in_transit |-> "delivered"]

\* The profile and the user are read, the order not yet.
BeginDelivery(r, op, o, d) ==
    /\ InGoodStanding(d)
    /\ Begin(r, [op |-> op, order |-> o, driver |-> d, seen |-> None,
                 bid |-> None, offer |-> None, price |-> None, route |-> None,
                 online |-> FALSE])

\* mark_driver_order_status, under the lock
CommitMark(r) ==
    /\ Pending(r, "mark")
    /\ LET o == req[r].order IN
       /\ orders[o].assigned = req[r].driver
       /\ orders[o].status \in DOMAIN DriverTransition
       /\ WriteStatus(o, [orders[o] EXCEPT !.status = DriverTransition[@]],
                      orders[o].status, "driver")
    /\ Finish(r)
    /\ UNCHANGED <<bids, offers, drivers, rate>>

\* cancel_assigned_order_by_driver, under the lock: the bids stay.
CommitDriverCancel(r) ==
    /\ Pending(r, "driver_cancel")
    /\ LET o == req[r].order IN
       /\ orders[o].assigned = req[r].driver
       /\ orders[o].status = "accepted"
       /\ WriteStatus(o, [orders[o] EXCEPT !.status = "cancelled"], "accepted", "driver")
    /\ Finish(r)
    /\ UNCHANGED <<bids, offers, drivers, rate>>
=============================================================================
