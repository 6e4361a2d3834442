----------------------------- MODULE Marketplace -----------------------------
(***************************************************************************)
(* The whole: clients, drivers and staff send requests to the endpoints in *)
(* Ops, and the worker threads run them.                                   *)
(***************************************************************************)
EXTENDS ClientOrders, DriverOrders, AdminOrders, DriverAccounts, Disputes

MarketInit == Init /\ DisputesInit

MarketTypeOK == TypeOK /\ DisputesTypeOK

\* Handlers that leave the disputes table alone, by who sends the request.
ClientNext ==
    \/ \E o \in Orders, rt \in Routes :
          "create" \in Ops /\ CreateOrderDraft(o, rt)
    \/ \E o \in Orders, d \in Drivers :
          "select" \in Ops /\ SelectDriver(o, d)
    \/ \E o \in Orders :
          "confirm" \in Ops /\ ConfirmDelivered(o)
    \/ \E r \in Slots, o \in Orders :
          \/ "publish" \in Ops /\ BeginPublish(r, o)
          \/ "cancel" \in Ops /\ BeginCancel(r, o)
          \/ \E rt \in Routes : "edit" \in Ops /\ BeginEdit(r, o, rt)
    \/ \E r \in Slots : CommitPublish(r) \/ CommitEdit(r) \/ CommitCancel(r)

DriverNext ==
    \/ \E r \in Slots, o \in Orders, d \in Drivers :
          \/ "reject" \in Ops /\ BeginReject(r, o, d)
          \/ "mark" \in Ops /\ BeginDelivery(r, "mark", o, d)
          \/ "driver_cancel" \in Ops /\ BeginDelivery(r, "driver_cancel", o, d)
          \/ \E p \in Prices : \/ "bid" \in Ops /\ BeginBid(r, o, d, p)
                               \/ "update_bid" \in Ops /\ BeginUpdateBid(r, o, d, p)
    \/ \E r \in Slots : \/ CommitBid(r) \/ CommitUpdateBid(r) \/ CommitReject(r)
                        \/ CommitMark(r) \/ CommitDriverCancel(r)

StaffNext ==
    \/ \E o \in Orders, role \in StaffRoles :
          \/ "admin_cancel" \in Ops /\ CancelOrderManually(o, role)
          \/ \E target \in OrderStatus :
                "admin_status" \in Ops /\ UpdateOrderStatus(o, target, role)
          \/ \E d \in Drivers, mills \in RawPrices :
                "assign" \in Ops /\ AssignDriver(o, d, mills, role)
    \/ \E p \in Percents : "commission" \in Ops /\ UpdateDriverCommission(p)

AccountNext ==
    \/ \E d \in Drivers : \/ "availability" \in Ops /\ GoOffline(d)
                          \/ "block" \in Ops /\ BlockDriver(d)
    \/ \E r \in Slots, d \in Drivers :
          \/ "availability" \in Ops /\ BeginGoOnline(r, d)
          \/ "delete_account" \in Ops /\ BeginDeleteAccount(r, d)
    \/ \E r \in Slots : CommitGoOnline(r) \/ CommitDeleteAccount(r)

DisputeNext ==
    \E k \in DisputeIds, role \in Roles :
       \/ \E o \in Orders : "dispute" \in Ops /\ OpenDispute(k, o, role)
       \/ /\ role \in StaffRoles
          /\ \E target \in ActiveDispute \cup FinalDispute :
                "settle" \in Ops /\ UpdateDispute(k, target, role)

Next ==
    \/ (ClientNext \/ DriverNext \/ StaffNext \/ AccountNext \/ \E r \in Slots : Abort(r))
          /\ UNCHANGED disputes
    \/ DisputeNext

Spec == MarketInit /\ [][Next]_vars

-----------------------------------------------------------------------------
(* Invariants of every interleaving.                                       *)

\* An order has a driver exactly when it has a price; an accepted bid is a bid
\* of that driver; and what the driver and the system get add up to the price.
AssignmentIsPriced ==
    \A o \in Orders :
       LET order == orders[o] IN
       /\ order.assigned = None <=> order.final = None
       /\ order.acceptedBid # None => /\ order.acceptedBid = order.assigned
                                      /\ bids[o][order.assigned] # None
       /\ order.final # None => /\ order.final.fee + order.final.income = order.final.price
                                /\ order.final.income >= 0

\* Whatever detour it took through staff corrections and disputes, an order
\* that shows as confirmed has been paid.
ConfirmedIsPaid == \A o \in Orders : orders[o].status = "confirmed" => orders[o].paid

\* open_dispute admits one active dispute per order, although the table has
\* no constraint to enforce it.
OneActiveDispute ==
    \A j, k \in DisputeIds :
       /\ disputes[j] # None /\ disputes[j].status \in ActiveDispute
       /\ disputes[k] # None /\ disputes[k].status \in ActiveDispute
       /\ disputes[j].order = disputes[k].order
       => j = k

\* A disputed order is never stuck: there is an active dispute whose
\* settlement restores it.  (Not when staff set the status by hand.)
DisputedCanBeSettled ==
    \A o \in Orders : orders[o].status = "disputed" => HasActiveDispute(o)

\* From acceptance to confirmation an order has a driver, even if it was
\* disputed in between.  (Not when staff set the status by hand.)
DeliveryHasDriver ==
    \A o \in Orders : orders[o].status \in Assigned => orders[o].assigned # None

\* However often an order goes back to bidding, by a correction, a settlement
\* or a late bid, selecting again leaves one accepted bid.  (Not when staff
\* assign a driver: they close only the active bids.)
OneAcceptedBid ==
    \A o \in Orders, d, e \in Drivers :
       /\ bids[o][d] # None /\ bids[o][d].status = "accepted"
       /\ bids[o][e] # None /\ bids[o][e].status = "accepted"
       => d = e

\* A driver who has bid on an order has answered its offer.
BidAnswersOffer ==
    \A o \in Orders, d \in Drivers :
       bids[o][d] # None => offers[o][d] \in {"bid_sent", "rejected"}

-----------------------------------------------------------------------------
(* What holds when requests do not overlap, and is lost when they do, as   *)
(* the run LateCancel shows for the cancellation by a client.              *)

\* Each history row starts from the status the order really had, so the rows
\* of an order form a chain.
HistoryIsChain ==
    [][\A o \in Orders : history'[o] # history[o] => history'[o].old = orders[o].status]_vars

\* Nothing brings a cancelled order back.
CancelledIsFinal ==
    [][\A o \in Orders : orders[o].status = "cancelled" => orders'[o].status = "cancelled"]_vars

\* A client cancels before pickup or not at all.
ClientCancelsBeforePickup ==
    [][\A o \in Orders :
         /\ orders[o].status # "cancelled"
         /\ orders'[o].status = "cancelled"
         /\ history'[o].by = "client"
         => orders[o].status \in ClientCancelAllowed]_vars

\* The auction of an order that a driver won is over: the accepted bid is
\* accepted and no other bid is active or accepted.
AuctionIsSettled ==
    \A o \in Orders, d \in Drivers :
       /\ orders[o].status \in Assigned
       /\ bids[o][d] # None
       => IF orders[o].acceptedBid = d THEN bids[o][d].status = "accepted"
                                       ELSE bids[o][d].status \in {"closed", "rejected"}

\* The client pays the price of the bid that was selected.
ClientPaysTheBid ==
    \A o \in Orders :
       LET d == orders[o].acceptedBid IN
       orders[o].status \in Assigned /\ d # None => orders[o].final.price = bids[o][d].price

\* A bid is placed on an order that is open for bids (create_bid; lost when the
\* order is cancelled or won between the test and the insert).
BidsOnOpenOrders ==
    [][\A o \in Orders, d \in Drivers :
         bids[o][d] = None /\ bids'[o][d] # None => orders[o].status \in OpenFeed]_vars

\* A driver who declined an order cannot be selected for it.
DeclinedIsNotActive ==
    \A o \in Orders, d \in Drivers :
       offers[o][d] = "rejected" /\ bids[o][d] # None => bids[o][d].status # "active"

\* Every change of a bid's price uses up one of the three the driver has
\* (update_bid; lost when two changes read the same count).
PriceChangesAreCounted ==
    [][\A o \in Orders, d \in Drivers :
         /\ bids[o][d] # None
         /\ bids'[o][d].price # bids[o][d].price
         => bids'[o][d].updates = bids[o][d].updates + 1]_vars

\* Once drivers have been shown an order, its route stays (update_order; lost when
\* the draft is published between the test and the write).
PublishedRouteIsLocked ==
    [][\A o \in Orders : orders[o].status \notin {None, "draft"} =>
                            orders'[o].route = orders[o].route]_vars

\* A blocked driver is not online.
BlockedIsOffline == \A d \in Drivers : drivers[d].verification = "blocked" => ~drivers[d].available

\* No order is on its way with a driver whose account is gone.
DeletedDriverCarriesNothing ==
    \A d \in Drivers : drivers[d].user = "deleted" => BlockingOrders(d) = {}

\* A dispute that was settled has no further effect: an order leaves
\* "disputed" only when an active dispute of its own is settled.
SettledIsFinal ==
    [][\A o \in Orders :
         orders[o].status = "disputed" /\ orders'[o].status # "disputed" =>
            \E k \in DisputeIds : /\ disputes[k] # None /\ disputes[k].order = o
                                   /\ disputes[k].status \in ActiveDispute
                                   /\ disputes'[k].status \in FinalDispute]_vars

-----------------------------------------------------------------------------
(* Without overlap and without manual corrections, an order keeps the      *)
(* promise of OrderLifecycle.                                              *)

Lifecycle == INSTANCE OrderLifecycle WITH
    status <- [o \in Orders |-> orders[o].status],
    driver <- [o \in Orders |-> orders[o].assigned],
    by <- [o \in Orders |-> history[o].by],
    disputedAt <- [o \in Orders |->
        {disputes[k].prev : k \in {j \in DisputeIds : disputes[j] # None /\ disputes[j].order = o}}]

\* The handlers implement the lifecycle README.md describes: every step of
\* every service is one of its steps, taken by the party it allows.
ImplementsLifecycle == Lifecycle!Spec
=============================================================================
