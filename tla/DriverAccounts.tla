--------------------------- MODULE DriverAccounts ---------------------------
(***************************************************************************)
(* What happens to a verified driver's account while orders are under way: *)
(* going online and offline (driver_service.py), being blocked             *)
(* (admin_driver_service.py) and deleting the account                      *)
(* (account_deletion_service.py).  Only blocking locks the profile row.    *)
(***************************************************************************)
EXTENDS OrderData

AccountRequest(op, d) ==
    [op |-> op, order |-> None, driver |-> d, seen |-> None, bid |-> None,
     offer |-> None, price |-> None, route |-> None,
     online |-> drivers[d].available]

\* update_availability with is_available = true, the tests
BeginGoOnline(r, d) ==
    /\ InGoodStanding(d)
    /\ ~drivers[d].available
    /\ Begin(r, AccountRequest("availability", d))

CommitGoOnline(r) ==
    /\ Pending(r, "availability")
    /\ drivers' = [drivers EXCEPT ![req[r].driver].available = TRUE]
    /\ Finish(r)
    /\ UNCHANGED <<orders, bids, offers, history, rate>>

\* update_availability with is_available = false: no test but the user's
\* status.  One step: read as true, the column is written as false; read as
\* false, it is not written, and the request had no effect when it read.
GoOffline(d) ==
    /\ FreeWorker
    /\ drivers[d].user = "active"
    /\ drivers' = [drivers EXCEPT ![d].available = FALSE]
    /\ UNCHANGED <<orders, bids, offers, history, rate, req>>

\* Mutant: the driver stays online.
BlockDriverOnline(d) ==
    /\ FreeWorker
    /\ drivers[d].verification # "blocked"
    /\ drivers' = [drivers EXCEPT ![d] = [verification |-> "blocked", available |-> @.available,
                                          user |-> "blocked", routes |-> {}]]
    /\ UNCHANGED <<orders, bids, offers, history, rate, req>>

\* block_driver: the profile, the user and the routes.  Orders under way are
\* counted in the answer and otherwise left to the staff.
BlockDriver(d) ==
    /\ FreeWorker
    /\ drivers[d].verification # "blocked"
    /\ drivers' = [drivers EXCEPT ![d] = [verification |-> "blocked", available |-> FALSE,
                                          user |-> "blocked", routes |-> {}]]
    /\ UNCHANGED <<orders, bids, offers, history, rate, req>>

\* IN_FLIGHT_ORDER_STATUSES
InFlight == {"published", "bidding", "accepted", "picked_up", "in_transit", "delivered"}

\* blocking_orders, of a driver
BlockingOrders(d) == {o \in Orders : /\ orders[o].status \in InFlight
                                     /\ orders[o].assigned = d}

\* delete_own_account of a driver, the tests
BeginDeleteAccount(r, d) ==
    /\ drivers[d].user = "active"
    /\ BlockingOrders(d) = {}
    /\ Begin(r, AccountRequest("delete_account", d))

\* The verification status of the profile survives.  A profile that was read
\* as unavailable stays as it is: the column is not sent.
CommitDeleteAccount(r) ==
    /\ Pending(r, "delete_account")
    /\ LET d == req[r].driver IN
       drivers' = [drivers EXCEPT ![d].available = @ /\ ~req[r].online,
                                  ![d].user = "deleted",
                                  ![d].routes = {}]
    /\ Finish(r)
    /\ UNCHANGED <<orders, bids, offers, history, rate>>
=============================================================================
