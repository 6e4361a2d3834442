------------------------------ MODULE WebClient ------------------------------
(***************************************************************************)
(* The client's page of the web front end and of the Android app: the      *)
(* choice of the two ends of the route, the order that is published from   *)
(* it, and the screens of the orders.  Each screen holds its own busy      *)
(* flag, which is lost when the screen is left; the answer to its call     *)
(* still leads where it would have led.  What is typed into fields, and    *)
(* which order the screens of an order show, is not followed: an order may *)
(* show in any status.                                                     *)
(***************************************************************************)
EXTENDS WebSignIn

CONSTANTS Cities,
          Parted,      \* the cities that have districts
          WebCalls     \* bound: calls in flight at once

ASSUME WebClientAssumption == Parted \subseteq Cities

VARIABLES
    cscreen,    \* screen
    ctab,       \* tab
    menu,       \* menuOpen
    side,       \* the end being chosen
    pending,    \* pendingCity, and pendingDist by its city
    ends,       \* the draft's pickup and dropoff
    detecting,  \* Android: the current location is being looked up
    ccalls,     \* the calls in flight
    picked,     \* history: what the user confirmed for each end
    published,  \* history: the order in the draft has been published
    crossed     \* history: a screen was left while its call was in flight

choiceVars == <<side, pending, ends, picked>>
clientVars == <<cscreen, ctab, menu, choiceVars, detecting, ccalls, published, crossed>>

Side  == {"from", "to"}
Tabs  == {"home", "orders", "notifications", "profile"}
CityScreen     == [from |-> "city-select-from", to |-> "city-select-to"]
DistrictScreen == [from |-> "district-select-from", to |-> "district-select-to"]
MapScreen      == [from |-> "map-picker-from", to |-> "map-picker-to"]

NoPlace == [city |-> None, dist |-> None]
Place(c) == [city |-> c, dist |-> IF c \in Parted THEN c ELSE None]
NoEnds  == [s \in Side |-> NoPlace]
NoCCall == [do |-> "idle", here |-> FALSE]

ClientInit ==
    /\ cscreen = "home" /\ ctab = "home" /\ menu = FALSE
    /\ side = "from" /\ pending = NoPlace /\ ends = NoEnds /\ picked = NoEnds
    /\ detecting = (build = "android")
    /\ ccalls = [s \in WebCalls |-> NoCCall]
    /\ published = FALSE /\ crossed = FALSE

---------------------------------------------------------------------------
(* Moving between screens *)

\* A screen that is left loses its busy flag.
ShowWith(next, calls) ==
    /\ cscreen' = next
    /\ ccalls' = IF next = cscreen THEN calls
                 ELSE [s \in WebCalls |-> [calls[s] EXCEPT !.here = FALSE]]
    /\ crossed' = (crossed \/ (next # cscreen /\ \E s \in WebCalls : calls[s].here))

Show(next) == ShowWith(next, ccalls)
Still == UNCHANGED <<choiceVars, detecting, published>>
On(s) == cscreen = s /\ ~menu

GoTo(next) == Show(next) /\ UNCHANGED <<ctab, menu>> /\ Still
GoTab(tab) == Show(tab) /\ ctab' = tab /\ UNCHANGED menu /\ Still

Menu ==
    \/ /\ cscreen \in Tabs /\ ~menu /\ menu' = TRUE
       /\ UNCHANGED <<cscreen, ctab, ccalls, crossed>> /\ Still
    \/ /\ menu /\ menu' = FALSE
       /\ \/ UNCHANGED <<cscreen, ctab, ccalls, crossed>>
          \/ \E tab \in Tabs : Show(tab) /\ ctab' = tab
          \/ \E s \in {"c-support", "c-settings"} : Show(s) /\ UNCHANGED ctab
       /\ Still

\* Android: any screen is left for its tab; success is left with the draft kept.
HardwareBack ==
    /\ build = "android" /\ ~menu /\ cscreen \notin Tabs
    /\ cscreen' = ctab
    /\ ccalls' = [s \in WebCalls |-> [ccalls[s] EXCEPT !.here = FALSE]]
    /\ crossed' = (crossed \/ cscreen = "order-success" \/ \E s \in WebCalls : ccalls[s].here)
    /\ UNCHANGED <<ctab, menu>> /\ Still

---------------------------------------------------------------------------
(* The two ends of the route *)

Choosing == UNCHANGED <<ctab, menu, ends, picked, detecting, published>>

SelectEnd(s) == side' = s /\ Show(CityScreen[s]) /\ UNCHANGED pending /\ Choosing

ClientHome ==
    /\ On("home")
    /\ \/ \E s \in Side : SelectEnd(s)
       \/ (\A s \in Side : ends[s] # NoPlace) /\ GoTo("contacts")
       \/ GoTo("c-support")

\* Mutant: the district chosen for another city is kept.
HandleCityKeeping(c, s) ==
    /\ side' = s /\ pending' = [pending EXCEPT !.city = c]
    /\ Show(IF c \in Parted THEN DistrictScreen[s] ELSE MapScreen[s])
    /\ Choosing

HandleCity(c, s) ==
    /\ side' = s
    /\ pending' = [city |-> c, dist |-> IF c \in Parted THEN pending.dist ELSE None]
    /\ Show(IF c \in Parted THEN DistrictScreen[s] ELSE MapScreen[s])
    /\ Choosing

HandleDistrict ==
    /\ pending' = [pending EXCEPT !.dist = pending.city]
    /\ Show(MapScreen[side]) /\ UNCHANGED side /\ Choosing

\* The point goes to the end that `side` names, whatever screen confirmed it.
HandleConfirmLoc(s) ==
    /\ ends' = [ends EXCEPT ![side] = pending]
    /\ picked' = [picked EXCEPT ![s] = Place(pending.city)]
    /\ Show("home") /\ UNCHANGED <<ctab, menu, side, pending, detecting, published>>

CitySelect(s) ==
    /\ On(CityScreen[s])
    /\ GoTo("home") \/ \E c \in Cities : HandleCity(c, s)

DistrictSelect(s) ==
    /\ On(DistrictScreen[s])
    /\ GoTo(CityScreen[s]) \/ HandleDistrict

MapPicker(s) ==
    /\ On(MapScreen[s])
    /\ \/ GoTo(IF pending.city \in Parted THEN DistrictScreen[s] ELSE CityScreen[s])
       \/ HandleConfirmLoc(s)

\* The location found fills in an end that is still empty; its district may be
\* unknown.
Detected ==
    /\ detecting /\ detecting' = FALSE
    /\ \/ UNCHANGED ends
       \/ /\ ends["from"] = NoPlace
          /\ \E c \in Cities, d \in Parted \cup {None} :
                /\ d \in {c, None}
                /\ ends' = [ends EXCEPT !["from"] = [city |-> c, dist |-> d]]
    /\ UNCHANGED <<cscreen, ctab, menu, side, pending, picked, ccalls, published, crossed>>

---------------------------------------------------------------------------
(* The order *)

\* A button is disabled while the call it made from this screen is in flight.
Call(do, held) ==
    /\ \A s \in WebCalls : ~(ccalls[s].here /\ ccalls[s].do \in held)
    /\ \E s \in WebCalls :
          /\ ccalls[s].do = "idle"
          /\ ccalls' = [ccalls EXCEPT ![s] = [do |-> do, here |-> TRUE]]
    /\ UNCHANGED <<cscreen, ctab, menu, crossed>> /\ Still

Contacts   == On("contacts") /\ (GoTo("home") \/ GoTo("cargo-photo"))
CargoPhoto == On("cargo-photo") /\ (GoTo("contacts") \/ GoTo("order-review"))

\* Mutant: the button is not held while the order is published.
OrderReviewUnheld == On("order-review") /\ (GoTo("cargo-photo") \/ Call("create", {"create"}))

\* publishOrder creates the order, then publishes it.
OrderReview == On("order-review") /\ (GoTo("cargo-photo") \/ Call("create", {"create", "publish"}))

OrderSuccess ==
    /\ On("order-success")
    /\ ends' = NoEnds /\ picked' = NoEnds /\ published' = FALSE
    /\ \/ Show("c-order-detail") /\ UNCHANGED ctab
       \/ Show("home") /\ ctab' = "home"
    /\ UNCHANGED <<menu, side, pending, detecting>>

ClientOrders == On("orders") /\ (GoTo("c-order-detail") \/ GoTab("home"))

OrderDetail ==
    /\ On("c-order-detail")
    /\ \/ GoTab("orders") \/ Call("cancel", {"cancel"})
       \/ \E s \in {"bids", "confirm-delivery", "rating", "dispute"} : GoTo(s)

ClientBids == On("bids") /\ (GoTo("c-order-detail") \/ Call("select", {"select"}))

ConfirmDelivery ==
    On("confirm-delivery") /\ (GoTo("c-order-detail") \/ Call("confirm", {"confirm"}))

\* Once rated, the screen shows nothing to press and waits to be left.
Rating ==
    /\ On("rating") /\ ~\E s \in WebCalls : ccalls[s] = [do |-> "leave", here |-> TRUE]
    /\ GoTo("orders") \/ Call("rate", {"rate"})

Dispute == On("dispute") /\ GoTo("c-order-detail")

ClientProfile ==
    /\ On("profile")
    /\ GoTab("orders") \/ GoTab("notifications") \/ GoTo("c-settings")

Settings == On("c-settings") /\ GoTo("profile")
Support  == On("c-support") /\ GoTo("home")

---------------------------------------------------------------------------
(* Answers *)

CDone(s) == [ccalls EXCEPT ![s] = NoCCall]

\* A refusal lowers the busy flag of a screen that is still there.
Refused(s) ==
    /\ ccalls[s].do \notin {"idle", "leave"}
    /\ ccalls' = CDone(s)
    /\ UNCHANGED <<cscreen, ctab, menu, crossed>> /\ Still

\* The timer of the rating starts when the rating is accepted.
Proceeds(s) ==
    /\ ccalls[s].do \in {"create", "rate"}
    /\ ccalls' = [ccalls EXCEPT ![s].do = IF @ = "create" THEN "publish" ELSE "leave"]
    /\ UNCHANGED <<cscreen, ctab, menu, crossed>> /\ Still

OrderPublished(s) ==
    /\ ccalls[s].do = "publish" /\ published' = TRUE
    /\ ShowWith("order-success", CDone(s))
    /\ UNCHANGED <<ctab, menu, choiceVars, detecting>>

Answered(s) ==
    /\ \/ ccalls[s].do = "select" /\ ShowWith("c-order-detail", CDone(s)) /\ UNCHANGED ctab
       \/ ccalls[s].do = "confirm" /\ ShowWith("rating", CDone(s)) /\ UNCHANGED ctab
       \/ ccalls[s].do \in {"cancel", "leave"} /\ ShowWith("orders", CDone(s)) /\ ctab' = "orders"
    /\ UNCHANGED menu /\ Still

OrderScreens ==
    \/ Contacts \/ CargoPhoto \/ OrderReview \/ OrderSuccess
    \/ ClientOrders \/ OrderDetail \/ ClientBids \/ ConfirmDelivery \/ Rating \/ Dispute

ClientStep ==
    \/ ClientHome \/ Menu \/ HardwareBack \/ Detected
    \/ \E s \in Side : CitySelect(s) \/ DistrictSelect(s) \/ MapPicker(s)
    \/ OrderScreens \/ ClientProfile \/ Settings \/ Support
    \/ \E s \in WebCalls : Refused(s) \/ Proceeds(s) \/ OrderPublished(s) \/ Answered(s)
================================================================================
