------------------------------ MODULE Disputes ------------------------------
(***************************************************************************)
(* dispute_service.py.  Opening a dispute locks the order; settling one    *)
(* locks the dispute and then its order.  The table has no uniqueness      *)
(* constraint: one active dispute per order is up to open_dispute.         *)
(***************************************************************************)
EXTENDS OrderData

CONSTANT MaxDisputes       \* bound: rows of the disputes table

ASSUME MaxDisputesAssumption == MaxDisputes \in Nat

VARIABLE disputes          \* table disputes, in the order of insertion

vars == <<orders, bids, offers, history, drivers, rate, req, disputes>>

DisputeIds == 1..MaxDisputes
ActiveDispute == {"open", "under_review"}
FinalDispute == {"resolved", "rejected"}

\* Mutant: clients and drivers may dispute what they have confirmed.
UserDisputableTooLong == {"accepted", "picked_up", "in_transit", "delivered", "confirmed"}

UserDisputable == {"accepted", "picked_up", "in_transit", "delivered"}
AdminDisputable == {"published", "bidding", "confirmed"} \cup UserDisputable

\* Mutant: an order that had no driver yet is not restored.
RestorableOnceAssigned == UserDisputable \cup {"confirmed"}

Restorable == AdminDisputable

Dispute == [order: Orders, status: ActiveDispute \cup FinalDispute, prev: AdminDisputable]

ASSUME DisputeIsFresh == None \notin Dispute

DisputesTypeOK == disputes \in [DisputeIds -> Dispute \cup {None}]

DisputesInit == disputes = [k \in DisputeIds |-> None]

\* Mutant: a dispute under review does not count.
HasOpenDispute(o) == \E k \in DisputeIds : /\ disputes[k] # None
                                           /\ disputes[k].order = o
                                           /\ disputes[k].status = "open"

\* has_active_dispute
HasActiveDispute(o) == \E k \in DisputeIds : /\ disputes[k] # None
                                             /\ disputes[k].order = o
                                             /\ disputes[k].status \in ActiveDispute

\* The next row: ids are given out in order.
NextDispute(k) == /\ disputes[k] = None
                  /\ \A j \in DisputeIds : j < k => disputes[j] # None

\* can_user_access_order_for_dispute and validate_open_status: the client
\* owns the order, a driver must be assigned to it, staff may open any.
MayOpen(o, role) ==
    CASE role = "client" -> orders[o].status \in UserDisputable
      [] role = "driver" -> /\ orders[o].status \in UserDisputable
                            /\ \E d \in Drivers : /\ orders[o].assigned = d
                                                  /\ drivers[d].user = "active"
      [] OTHER -> orders[o].status \in AdminDisputable

\* open_dispute
OpenDispute(k, o, role) ==
    /\ FreeWorker
    /\ NextDispute(k)
    /\ ~HasActiveDispute(o)
    /\ MayOpen(o, role)
    /\ disputes' = [disputes EXCEPT ![k] =
                       [order |-> o, status |-> "open", prev |-> orders[o].status]]
    /\ WriteStatus(o, [orders[o] EXCEPT !.status = "disputed"], orders[o].status, role)
    /\ UNCHANGED <<bids, offers, drivers, rate, req>>

\* "Resolved or rejected disputes are final", unless the status stays the same
CanUpdateDispute(k, target) ==
    /\ disputes[k] # None
    /\ disputes[k].status \in FinalDispute => target = disputes[k].status

\* Settling a dispute gives a disputed order the status the dispute remembers.
RestoresOrder(k, target) == /\ target \in FinalDispute
                            /\ orders[disputes[k].order].status = "disputed"
                            /\ disputes[k].prev \in Restorable

\* Mutant: the delivery starts over.
RestoredToAccepted(k) == "accepted"

RestoredStatus(k) == disputes[k].prev

\* update_dispute
UpdateDispute(k, target, role) ==
    /\ FreeWorker
    /\ CanUpdateDispute(k, target)
    /\ disputes' = [disputes EXCEPT ![k].status = target]
    /\ LET o == disputes[k].order IN
       IF RestoresOrder(k, target)
       THEN WriteStatus(o, [orders[o] EXCEPT !.status = RestoredStatus(k)], "disputed", role)
       ELSE UNCHANGED <<orders, history>>
    /\ UNCHANGED <<bids, offers, drivers, rate, req>>
=============================================================================
