------------------------------ MODULE OrderData ------------------------------
(***************************************************************************)
(* The PostgreSQL rows that the request handlers of the parcel marketplace *)
(* share, and the worker threads that run those handlers.                  *)
(*                                                                         *)
(* The application runs at READ COMMITTED (no isolation level is set), one *)
(* transaction per request, one request per worker thread of the server.   *)
(* A handler that opens with SELECT ... FOR UPDATE on the order row is one *)
(* atomic step.  A handler that opens with a plain read is two steps:      *)
(* Begin reads and decides, Commit writes what was decided to the rows as  *)
(* they are by then.  Between the two, other requests commit.  The ORM     *)
(* sends only the columns whose value differs from the one that was read,  *)
(* so a Commit overwrites those columns and no others.                     *)
(*                                                                         *)
(* An early return of a handler leaves the database alone: it is the       *)
(* absence of a step, or Abort once the request has begun.                 *)
(***************************************************************************)
EXTENDS Integers, FiniteSets, Commission

CONSTANTS
    Orders,        \* ids of orders
    Drivers,       \* ids of driver profiles, each with its user
    Slots,         \* worker threads; one thread is serial execution
    Routes,        \* a route: a city pair and a district pair
    CityPair,      \* the city pair of a route
    Prices,        \* bid prices, in hundredths of a so'm
    RawPrices,     \* prices staff type in, in thousandths of a so'm
    Percents,      \* commissions staff type in, in thousandths of a percent
    Ops,           \* the endpoints in use
    None           \* SQL NULL, and the idle worker

ASSUME InputsAssumption == /\ Prices \subseteq Money \ {0}
                           /\ RawPrices \subseteq Nat \ {0}
                           /\ Percents \subseteq 0..FullPercent

VARIABLES
    orders,        \* table orders
    bids,          \* table bids: unique (order_id, driver_id)
    offers,        \* order_offers.result: unique (order_id, driver_id)
    history,       \* the newest row of status_history of each order
    drivers,       \* tables driver_profiles, users and driver_routes
    rate,          \* system_settings: driver_commission_rate
    req            \* what each worker thread has read and will write

dataVars == <<orders, bids, offers, history, drivers, rate>>
orderVars == <<orders, bids, offers, history, drivers, rate, req>>

-----------------------------------------------------------------------------
(* Statuses, in the sets the services name.                                *)

OrderStatus == {"draft", "published", "bidding", "accepted", "picked_up",
                "in_transit", "delivered", "confirmed", "cancelled", "disputed"}

OpenFeed == {"published", "bidding"}                \* OPEN_FEED_STATUSES
Assigned == {"accepted", "picked_up", "in_transit", "delivered", "confirmed"}

BidStatus == {"active", "accepted", "closed", "rejected"}
OfferResult == {"shown", "bid_sent", "rejected"}
Roles == {"client", "driver", "operator", "admin"}

MaxBidPriceUpdates == 3                             \* MAX_BID_PRICE_UPDATES

Order == [status: OrderStatus \cup {None}, route: Routes \cup {None},
          assigned: Drivers \cup {None}, acceptedBid: Drivers \cup {None},
          final: Income \cup {None}, paid: BOOLEAN]
Bid == [status: BidStatus, price: Prices, updates: 0..MaxBidPriceUpdates]
HistoryRow == [old: OrderStatus \cup {None}, new: OrderStatus \cup {None},
               by: Roles \cup {None}]
Driver == [verification: {"approved", "blocked"}, available: BOOLEAN,
           user: {"active", "blocked", "deleted"}, routes: SUBSET Routes]

UnlockedOps == {"publish", "edit", "cancel", "bid", "update_bid", "reject",
                "mark", "driver_cancel", "availability", "delete_account"}
Request == [op: UnlockedOps, order: Orders \cup {None},
            driver: Drivers \cup {None}, seen: OrderStatus \cup {None},
            bid: Bid \cup {None}, offer: OfferResult \cup {None},
            price: Prices \cup {None}, route: Routes \cup {None}, online: BOOLEAN]

\* NULL is none of the values a column can hold.
ASSUME NoneIsFresh ==
    /\ None \notin Orders /\ None \notin Drivers /\ None \notin Routes
    /\ None \notin Prices /\ None \notin OrderStatus /\ None \notin OfferResult
    /\ None \notin Roles /\ None \notin Bid /\ None \notin Income
    /\ None \notin Request

TypeOK ==
    /\ orders \in [Orders -> Order]
    /\ bids \in [Orders -> [Drivers -> Bid \cup {None}]]
    /\ offers \in [Orders -> [Drivers -> OfferResult \cup {None}]]
    /\ history \in [Orders -> HistoryRow]
    /\ drivers \in [Drivers -> Driver]
    /\ rate \in Rate
    /\ req \in [Slots -> Request \cup {None}]

-----------------------------------------------------------------------------
NoOrder == [status |-> None, route |-> None, assigned |-> None,
            acceptedBid |-> None, final |-> None, paid |-> FALSE]
NoHistory == [old |-> None, new |-> None, by |-> None]

\* No order yet; the drivers have passed verification (approve_driver leaves
\* them unavailable, they have since gone online) and have registered routes.
Init ==
    /\ orders = [o \in Orders |-> NoOrder]
    /\ bids = [o \in Orders |-> [d \in Drivers |-> None]]
    /\ offers = [o \in Orders |-> [d \in Drivers |-> None]]
    /\ history = [o \in Orders |-> NoHistory]
    /\ drivers = [d \in Drivers |-> [verification |-> "approved",
                                     available |-> TRUE, user |-> "active",
                                     routes |-> Routes]]
    /\ rate = DefaultRate
    /\ req = [r \in Slots |-> None]

-----------------------------------------------------------------------------
(* What the handlers of several services use.                              *)

\* ensure_driver_eligible
Eligible(d) == /\ drivers[d].user = "active"
               /\ drivers[d].verification = "approved"
               /\ drivers[d].available

\* Mutant: the user behind the profile is not looked at.
ProfileInGoodStanding(d) == drivers[d].verification = "approved"

\* ensure_assigned_driver_can_update_status, and the same pair of tests when a
\* driver is selected or assigned: availability does not matter there.
InGoodStanding(d) == /\ drivers[d].verification = "approved"
                     /\ drivers[d].user = "active"

\* driver_has_available_route_for_order: the districts count.
ServesRoute(d, rt) == rt \in drivers[d].routes

\* driver_has_available_route of the admin service: only the cities count.
ServesCities(d, rt) == \E x \in drivers[d].routes : CityPair[x] = CityPair[rt]

\* Mutant: the history row is filled in after the status was assigned.
WriteStatusThenRead(o, row, old, by) ==
    /\ orders' = [orders EXCEPT ![o] = row]
    /\ history' = [history EXCEPT ![o] = [old |-> row.status, new |-> row.status, by |-> by]]

\* A status write is always followed, in the same transaction, by a
\* status_history row that names the status the handler had read.
WriteStatus(o, row, old, by) ==
    /\ orders' = [orders EXCEPT ![o] = row]
    /\ history' = [history EXCEPT ![o] = [old |-> old, new |-> row.status, by |-> by]]

-----------------------------------------------------------------------------
(* Worker threads.                                                         *)

\* A FOR UPDATE handler runs in a thread of its own, in one step.
FreeWorker == \E r \in Slots : req[r] = None

\* An unlocked handler takes a thread and remembers what it read.
Begin(r, request) == /\ req[r] = None
                     /\ req' = [req EXCEPT ![r] = request]
                     /\ UNCHANGED dataVars

Pending(r, op) == /\ req[r] # None
                  /\ req[r].op = op

Finish(r) == req' = [req EXCEPT ![r] = None]

\* The transaction is rolled back: a constraint is violated at the flush, the
\* server picks it as the victim of a deadlock, the connection is lost, or
\* the row it waited for no longer passes the handler's tests.
Abort(r) == /\ req[r] # None
            /\ Finish(r)
            /\ UNCHANGED dataVars
=============================================================================
