---------------------------- MODULE DriverScreens ----------------------------
(***************************************************************************)
(* The driver's screens of the mobile app (ConnectedApp.tsx): routes with  *)
(* the one form that creates and edits them, the feed and its bid, the     *)
(* order on display with its next status, the profile and its documents.   *)
(***************************************************************************)
EXTENDS AppShell

CONSTANT Routes

VARIABLES
    editingRoute,   \* editingRouteId
    routeForm,      \* routeForm: whose content, and whether it can be saved
    driverOrder,    \* driverOrder
    feedOrder       \* selectedFeedOrder

driverVars == <<editingRoute, routeForm, driverOrder, feedOrder>>
routeVars  == <<editingRoute, routeForm>>

RouteOrNone == Routes \cup {None}

\* The statuses that offer a next one, and all others.
Step == {"accepted", "picked_up", "in_transit", "other"}
NextOf(s) == CASE s = "accepted"   -> "picked_up"
               [] s = "picked_up"  -> "in_transit"
               [] s = "in_transit" -> "delivered"
               [] OTHER            -> "none"

EmptyRoute == [of |-> None, ready |-> FALSE]
NoOrder    == [of |-> None, status |-> "other"]

DriverInit ==
    /\ editingRoute = None /\ routeForm = EmptyRoute
    /\ driverOrder = NoOrder /\ feedOrder = None

At(s) == signedIn /\ chosen = "driver" /\ screen = s

Enter(next) == Go(next) /\ UNCHANGED driverVars

Call(do, x) == Run(do, x) /\ UNCHANGED driverVars

DriverNav == \E tab \in {"driver-home", "driver-routes", "driver-feed",
                         "driver-orders", "driver-profile"} : Enter(tab)

---------------------------------------------------------------------------

DriverHome ==
    /\ At("driver-home")
    /\ \/ \E next \in {"driver-income", "driver-profile-form", "driver-documents"} : Enter(next)
       \/ ~busy /\ Call("availability", None)
       \/ DriverNav

ProfileForm ==
    /\ At("driver-profile-form")
    /\ Enter("driver-home") \/ Call("driver-profile", None)

DriverDocuments ==
    /\ At("driver-documents")
    /\ Enter("driver-home") \/ Call("document", None)

NewRoute ==
    /\ editingRoute' = None /\ routeForm' = EmptyRoute
    /\ Go("driver-add-route")
    /\ UNCHANGED <<driverOrder, feedOrder>>

StartEditDriverRoute(r) ==
    /\ editingRoute' = r
    /\ routeForm' = [of |-> r, ready |-> TRUE]
    /\ Go("driver-add-route")
    /\ UNCHANGED <<driverOrder, feedOrder>>

\* An empty list offers the form as it was left.
RoutesList ==
    /\ At("driver-routes")
    /\ \/ NewRoute
       \/ \E r \in Routes : StartEditDriverRoute(r) \/ Call("disable-route", r)
       \/ Enter("driver-add-route")
       \/ DriverNav

\* Choosing a city clears its district; openDistrictSelector asks for it.
ChooseRouteCity ==
    /\ \E ready \in BOOLEAN : routeForm' = [routeForm EXCEPT !.ready = ready]
    /\ UNCHANGED <<shell, editingRoute, driverOrder, feedOrder>>

LeaveRoute ==
    /\ editingRoute' = None
    /\ Go("driver-routes")
    /\ UNCHANGED <<routeForm, driverOrder, feedOrder>>

SaveRoute ==
    /\ routeForm.ready
    /\ IF editingRoute # None THEN Call("update-route", editingRoute)
       ELSE Call("create-route", None)

AddRoute ==
    /\ At("driver-add-route")
    /\ ChooseRouteCity \/ Enter("client-district-selector") \/ LeaveRoute \/ SaveRoute

RouteDistrict ==
    /\ At("client-district-selector")
    /\ \/ Enter("driver-add-route")
       \/ /\ \E ready \in BOOLEAN : routeForm' = [routeForm EXCEPT !.ready = ready]
          /\ Go("driver-add-route")
          /\ UNCHANGED <<editingRoute, driverOrder, feedOrder>>

OpenBid(o) ==
    /\ feedOrder' = o
    /\ Go("driver-bid")
    /\ UNCHANGED <<routeVars, driverOrder>>

FeedAndHistory ==
    /\ At("driver-feed") \/ At("driver-orders")
    /\ \/ \E o \in Orders : \/ Call("open-order", o)
                            \/ screen = "driver-feed" /\ (Call("reject", o) \/ OpenBid(o))
       \/ DriverNav

DriverBid ==
    /\ At("driver-bid") /\ feedOrder # None
    /\ Enter("driver-feed") \/ Call("bid", feedOrder)

DriverOrderDetail ==
    /\ At("driver-order-detail") /\ driverOrder # NoOrder
    /\ \/ Enter("driver-orders")
       \/ NextOf(driverOrder.status) # "none" /\ Call("next-status", driverOrder.of)

DriverIncome ==
    /\ At("driver-income")
    /\ (\E o \in Orders : Call("open-order", o)) \/ DriverNav

DriverProfile ==
    /\ At("driver-profile")
    /\ \/ ~busy /\ Call("availability", None)
       \/ \E next \in {"driver-profile-form", "driver-documents"} : Enter(next)
       \/ Call("logout", None)
       \/ DriverNav

\* The order's detail has come, first or again after a new status.
OrderShown(w) ==
    /\ job[w].do \in {"open-order", "refresh-order"}
    /\ \E s \in Step : driverOrder' = [of |-> job[w].of, status |-> s]
    /\ IF job[w].do = "open-order" THEN EndAt(w, "driver-order-detail", signedIn) ELSE End(w)
    /\ UNCHANGED <<routeVars, feedOrder>>

StatusUpdated(w) ==
    /\ job[w].do = "next-status"
    /\ Continue(w, "refresh-order")
    /\ UNCHANGED driverVars

RouteUpdated(w) ==
    /\ job[w].do = "update-route"
    /\ editingRoute' = None
    /\ Continue(w, "reload-routes")
    /\ UNCHANGED <<routeForm, driverOrder, feedOrder>>

\* The works that end by going to a screen, the reload before it included.
EndsAt == [do \in {"driver-profile", "create-route", "reload-routes", "bid"} |->
    CASE do = "driver-profile" -> "driver-home"
      [] do = "bid"            -> "driver-feed"
      [] OTHER                 -> "driver-routes"]

DriverConcluded(w) ==
    /\ job[w].do \in DOMAIN EndsAt
    /\ EndAt(w, EndsAt[job[w].do], signedIn)
    /\ UNCHANGED driverVars

\* An error, or the end of a work that goes nowhere.
DriverEnded(w) == End(w) /\ UNCHANGED driverVars

DriverAnswered(w) ==
    /\ chosen = "driver" /\ w \in Pending
    /\ job[w].do \notin {"request", "resend", "verify", "compare", "outdated", "logout"}
    /\ \/ OrderShown(w) \/ StatusUpdated(w) \/ RouteUpdated(w)
       \/ DriverConcluded(w) \/ DriverEnded(w)

DriverStep ==
    \/ DriverHome \/ ProfileForm \/ DriverDocuments \/ RoutesList \/ AddRoute
    \/ RouteDistrict \/ FeedAndHistory \/ DriverBid \/ DriverOrderDetail
    \/ DriverIncome \/ DriverProfile
    \/ \E w \in Works : DriverAnswered(w)
================================================================================
