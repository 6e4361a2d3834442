----------------------------- MODULE AdminOrders -----------------------------
(***************************************************************************)
(* admin_order_service.py and the commission setting: what operators and   *)
(* admins do.  Every handler locks the order row first.                    *)
(***************************************************************************)
EXTENDS OrderData

StaffRoles == {"operator", "admin"}       \* a super_admin acts as an admin

\* MANUAL_TARGET_STATUSES
ManualTargets == OrderStatus \ {"draft"}

\* Mutant: a cancelled order can be corrected like any other.
CanSetAnyStatus(o, target, role) ==
    /\ orders[o].status \notin {None, target}
    /\ target \in ManualTargets
    /\ orders[o].status = "confirmed" => /\ target \in {"cancelled", "disputed"}
                                         /\ role # "operator"

\* validate_manual_status_transition
CanSetStatus(o, target, role) ==
    /\ orders[o].status \notin {None, "cancelled", target}
    /\ target \in ManualTargets
    /\ orders[o].status = "confirmed" => /\ target \in {"cancelled", "disputed"}
                                         /\ role # "operator"

\* Mutant: a manual confirmation does not settle the payment.
PaidAsBefore(o, target) == orders[o].paid

\* A manual confirmation settles the payment; nothing unsettles it.
PaidAfter(o, target) == orders[o].paid \/ target = "confirmed"

\* update_admin_order_status: the driver, the bids and the disputes of the
\* order stay as they are.
UpdateOrderStatus(o, target, role) ==
    /\ FreeWorker
    /\ CanSetStatus(o, target, role)
    /\ WriteStatus(o, [orders[o] EXCEPT !.status = target,
                                        !.paid = PaidAfter(o, target)],
                   orders[o].status, role)
    /\ UNCHANGED <<bids, offers, drivers, rate, req>>

CanAssign(o, d) == /\ orders[o].status \in OpenFeed
                   /\ InGoodStanding(d)
                   /\ ServesCities(d, orders[o].route)

HasActiveBid(o, d) == /\ bids[o][d] # None
                      /\ bids[o][d].status = "active"

\* The active bids only: the driver's own is accepted, the others are closed.
BidsAfterAssignment(o, d) ==
    [x \in Drivers |->
        IF HasActiveBid(o, x)
        THEN [bids[o][x] EXCEPT !.status = IF x = d THEN "accepted" ELSE "closed"]
        ELSE bids[o][x]]

\* assign_driver_manually: the price is the one the staff agreed on, rounded
\* to hundredths on its way into the column.
AssignDriver(o, d, mills, role) ==
    /\ FreeWorker
    /\ CanAssign(o, d)
    /\ WriteStatus(o, [orders[o] EXCEPT !.status = "accepted",
                                        !.assigned = d,
                                        !.acceptedBid = IF HasActiveBid(o, d) THEN d ELSE None,
                                        !.final = OrderIncome(QuantizeMoney(mills), rate)],
                   orders[o].status, role)
    /\ bids' = [bids EXCEPT ![o] = BidsAfterAssignment(o, d)]
    /\ UNCHANGED <<offers, drivers, rate, req>>

CanCancelManually(o, role) == /\ orders[o].status \notin {None, "cancelled"}
                              /\ orders[o].status = "confirmed" => role # "operator"

\* close_active_bids
BidsClosed(o) ==
    [x \in Drivers |-> IF HasActiveBid(o, x)
                       THEN [bids[o][x] EXCEPT !.status = "closed"]
                       ELSE bids[o][x]]

\* cancel_order_manually
CancelOrderManually(o, role) ==
    /\ FreeWorker
    /\ CanCancelManually(o, role)
    /\ WriteStatus(o, [orders[o] EXCEPT !.status = "cancelled"], orders[o].status, role)
    /\ bids' = [bids EXCEPT ![o] = BidsClosed(o)]
    /\ UNCHANGED <<offers, drivers, rate, req>>

\* update_driver_commission: accepted orders keep the rate they were accepted at.
UpdateDriverCommission(millipercent) ==
    /\ FreeWorker
    /\ rate' = PercentToRate(millipercent)
    /\ UNCHANGED <<orders, bids, offers, history, drivers, req>>
=============================================================================
