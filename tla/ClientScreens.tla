---------------------------- MODULE ClientScreens ----------------------------
(***************************************************************************)
(* The client's screens of the mobile app (ConnectedApp.tsx): the wizard   *)
(* that creates or edits an order, and the order on display with its bids, *)
(* its confirmation sheet, its rating and its dispute.  The app keeps all  *)
(* of it in variables that every screen shares.                            *)
(***************************************************************************)
EXTENDS AppShell

CONSTANT Statuses   \* bound: the statuses in which orders are shown

VARIABLES
    editing,    \* editingOrderId
    form,       \* orderForm: whose content, the route chosen, whose photo
    detail,     \* orderDetail
    selected,   \* selectedOrderId
    bidsOf,     \* the order whose bids `bids` holds
    sheet,      \* confirmAction, and the order it was asked about
    picker      \* mapPicker

clientVars == <<editing, form, detail, selected, bidsOf, sheet, picker>>
formVars == <<editing, form>>
display  == <<detail, selected, bidsOf>>

OrNone == Orders \cup {None}

\* Statuses by the buttons they show: "open" is draft, published or bidding,
\* "moving" picked up, in transit or disputed, "closed" confirmed or cancelled.
Status == {"open", "accepted", "moving", "delivered", "closed"}

ASSUME ClientScreensAssumption == Statuses \subseteq Status

EmptyForm == [of |-> None, route |-> FALSE, photo |-> "missing"]
NoDetail  == [of |-> None, status |-> "none"]
NoSheet   == [kind |-> "none", of |-> None]

ClientInit ==
    /\ editing = None /\ form = EmptyForm
    /\ detail = NoDetail /\ selected = None /\ bidsOf = None
    /\ sheet = NoSheet /\ picker = FALSE

\* The sheet and the map cover the whole screen.
On(s) == signedIn /\ chosen = "client" /\ screen = s /\ sheet = NoSheet /\ ~picker

Visit(next) == Go(next) /\ UNCHANGED clientVars

BottomNav == \E tab \in {"client-home", "client-orders", "client-notifications",
                         "client-profile"} : Visit(tab)

Start(do, o) == Run(do, o) /\ UNCHANGED clientVars

\* Mutant: selectedOrderId is not set.
OpenUnselected(do, o) == Start(do, o)

\* openClientOrder, up to its first answer.
Open(do, o) ==
    /\ Run(do, o)
    /\ selected' = o
    /\ UNCHANGED <<formVars, detail, bidsOf, sheet, picker>>

---------------------------------------------------------------------------
(* The wizard *)

\* Mutant: the form keeps its content.
ResetOnlyEditing == editing' = None /\ UNCHANGED form

ResetOrderDraft == editing' = None /\ form' = EmptyForm

Home ==
    /\ On("client-home")
    /\ \/ Visit("client-location-selector")
       \/ form.route /\ Visit("client-route-summary")
       \/ BottomNav

\* selectCityForLocation clears one end of the route, and asks for the
\* district of a city that has districts before it shows the map.
SelectCity ==
    /\ form' = [form EXCEPT !.route = FALSE]
    /\ \/ Go("client-district-selector") /\ UNCHANGED picker
       \/ picker' = TRUE /\ UNCHANGED shell
    /\ UNCHANGED <<editing, display, sheet>>

LocationSelector ==
    /\ On("client-location-selector")
    /\ SelectCity \/ Visit("client-home")

SelectDistrict ==
    /\ \E both \in BOOLEAN : form' = [form EXCEPT !.route = both]
    /\ picker' = TRUE
    /\ UNCHANGED <<shell, editing, display, sheet>>

DistrictSelector ==
    /\ On("client-district-selector")
    /\ SelectDistrict \/ Visit("client-location-selector")

\* The map gives the end an address; the wizard goes on once both ends and
\* their cities are known.
MapPicker ==
    /\ signedIn /\ chosen = "client" /\ picker
    /\ picker' = FALSE
    /\ \/ UNCHANGED <<shell, form>>
       \/ \E both \in BOOLEAN :
             /\ form' = [form EXCEPT !.route = both]
             /\ Go(IF both THEN "client-route-summary" ELSE "client-home")
    /\ UNCHANGED <<editing, display, sheet>>

CancelEditing ==
    /\ editing # None
    /\ ResetOrderDraft
    /\ Go("client-order-detail")
    /\ UNCHANGED <<display, sheet, picker>>

RouteSummary ==
    /\ On("client-route-summary")
    /\ \/ Visit(IF editing # None THEN "client-order-detail" ELSE "client-home")
       \/ Visit("client-location-selector")
       \/ form.route /\ Visit("client-order-address")
       \/ CancelEditing

OrderAddress ==
    /\ On("client-order-address")
    /\ Visit("client-route-summary") \/ Visit("client-order-photo")

OrderPhoto ==
    /\ On("client-order-photo")
    /\ \/ Visit("client-order-address")
       \/ Start("upload", form.of)
       \/ form.photo # "missing" /\ Visit("client-order-review")

CanPublish == form.route /\ form.photo # "missing"

\* Mutant: the button is not held while busy.
PublishAnytime ==
    /\ CanPublish
    /\ IF editing # None THEN Start("update", editing) ELSE Start("create", None)

Publish ==
    /\ ~busy /\ CanPublish
    /\ IF editing # None THEN Start("update", editing) ELSE Start("create", None)

OrderReview ==
    /\ On("client-order-review")
    /\ \/ Visit("client-order-photo")
       \/ Visit("client-order-address")
       \/ Publish

\* The photo goes into the form as it is when the upload ends.
UploadAnswered(w) ==
    /\ job[w].do = "upload"
    /\ form' \in {form, [form EXCEPT !.photo = job[w].of]}
    /\ End(w)
    /\ UNCHANGED <<editing, display, sheet, picker>>

Updated(w) ==
    /\ job[w].do = "update"
    /\ ResetOrderDraft
    /\ detail' = [of |-> job[w].of, status |-> "open"]
    /\ selected' = job[w].of
    /\ Continue(w, "reload-detail")
    /\ UNCHANGED <<bidsOf, sheet, picker>>

Created(w) ==
    /\ job[w].do = "create"
    /\ \E o \in Orders : job' = [job EXCEPT ![w] = Work("publish", o)]
    /\ UNCHANGED <<chosen, signedIn, screen, busy, code, unlocked, disturbed>>
    /\ UNCHANGED clientVars

Published(w) ==
    /\ job[w].do = "publish"
    /\ ResetOrderDraft
    /\ selected' = job[w].of
    /\ Continue(w, "reload-success")
    /\ UNCHANGED <<detail, bidsOf, sheet, picker>>

---------------------------------------------------------------------------
(* The order on display *)

Success == On("client-success") /\ Visit("client-orders")

OrdersList ==
    /\ On("client-orders")
    /\ (\E o \in Orders : Open("open", o)) \/ BottomNav

BeginEditOrder ==
    /\ editing' = detail.of
    /\ \E photo \in {"missing", detail.of} :
          form' = [of |-> detail.of, route |-> TRUE, photo |-> photo]
    /\ Go("client-route-summary")
    /\ UNCHANGED <<display, sheet, picker>>

Ask(kind, o) ==
    /\ sheet' = [kind |-> kind, of |-> o]
    /\ UNCHANGED <<shell, formVars, display, picker>>

OrderDetail ==
    /\ On("client-order-detail") /\ detail # NoDetail
    /\ \/ Visit("client-orders")
       \/ detail.status = "delivered" /\ Ask("confirm-delivery", detail.of)
       \/ detail.status = "open" /\ (BeginEditOrder \/ Open("open-bids", detail.of))
       \/ detail.status \in {"open", "accepted"} /\ Ask("cancel-order", detail.of)
       \/ detail.status \in {"moving", "delivered"} /\ Visit("client-dispute")

Bids ==
    /\ On("client-bids")
    /\ \/ Visit("client-order-detail")
       \/ bidsOf # None /\ Ask("select-driver", bidsOf)

\* The two buttons of the sheet.  It acts on the order on display, a
\* selection on selectedOrderId, whatever order it was asked about.
ConfirmSheet ==
    /\ signedIn /\ chosen = "client" /\ sheet # NoSheet
    /\ \/ sheet' = NoSheet /\ UNCHANGED <<shell, formVars, display, picker>>
       \/ Start(sheet.kind, IF sheet.kind = "select-driver" THEN selected ELSE detail.of)

Rating ==
    /\ On("client-rating") /\ selected # None
    /\ Visit("client-orders") \/ Start("rate", selected)

Dispute ==
    /\ On("client-dispute") /\ detail # NoDetail
    /\ Visit("client-order-detail") \/ Start("dispute", detail.of)

Notifications ==
    /\ On("client-notifications")
    /\ \/ \E o \in OrNone, to \in {"notice", "notice-bids"} : Start(to, o)
       \/ BottomNav

Profile ==
    /\ On("client-profile")
    /\ Start("save-profile", None) \/ Start("logout", None) \/ BottomNav

NothingFound ==
    /\ \/ On("client-order-detail") /\ detail = NoDetail
       \/ On("client-dispute") /\ detail = NoDetail
       \/ On("client-rating") /\ selected = None
    /\ Visit("client-home")

\* openClientOrder goes on when the order has come.
Opened(w) ==
    /\ job[w].do \in {"open", "open-bids"}
    /\ \E s \in Statuses : detail' = [of |-> job[w].of, status |-> s]
    /\ IF job[w].do = "open" THEN EndAt(w, "client-order-detail", signedIn)
       ELSE Continue(w, "bids")
    /\ UNCHANGED <<formVars, selected, bidsOf, sheet, picker>>

BidsLoaded(w) ==
    /\ job[w].do = "bids"
    /\ bidsOf' = job[w].of
    /\ EndAt(w, "client-bids", signedIn)
    /\ UNCHANGED <<formVars, detail, selected, sheet, picker>>

\* Mutant: the order of a notification is opened without selecting it.
NoticeReadUnselected(w) ==
    /\ job[w].do \in {"notice", "notice-bids"}
    /\ IF job[w].of = None THEN End(w)
       ELSE Continue(w, IF job[w].do = "notice" THEN "open" ELSE "open-bids")
    /\ UNCHANGED clientVars

\* A notification is marked as read, the list loaded again, and its order
\* opened, if it has one.
NoticeRead(w) ==
    /\ job[w].do \in {"notice", "notice-bids"}
    /\ IF job[w].of = None THEN End(w) /\ UNCHANGED selected
       ELSE /\ Continue(w, IF job[w].do = "notice" THEN "open" ELSE "open-bids")
            /\ selected' = job[w].of
    /\ UNCHANGED <<formVars, detail, bidsOf, sheet, picker>>

\* runConfirmAction, after the server's answer.
DriverSelected(w) ==
    /\ job[w].do = "select-driver"
    /\ sheet' = NoSheet
    /\ selected' = job[w].of
    /\ Continue(w, "open")
    /\ UNCHANGED <<formVars, detail, bidsOf, picker>>

DeliveryConfirmed(w) ==
    /\ job[w].do = "confirm-delivery"
    /\ sheet' = NoSheet
    /\ EndAt(w, "client-rating", signedIn)
    /\ UNCHANGED <<formVars, display, picker>>

OrderCancelled(w) ==
    /\ job[w].do = "cancel-order"
    /\ sheet' = NoSheet
    /\ Continue(w, "reload-orders")
    /\ UNCHANGED <<formVars, display, picker>>

DisputeOpened(w) ==
    /\ job[w].do = "dispute"
    /\ selected' = job[w].of
    /\ Continue(w, "open")
    /\ UNCHANGED <<formVars, detail, bidsOf, sheet, picker>>

\* The works that end by going to a screen.
LastScreen == [do \in {"reload-detail", "reload-success", "reload-orders", "rate"} |->
    CASE do = "reload-detail"  -> "client-order-detail"
      [] do = "reload-success" -> "client-success"
      [] OTHER                 -> "client-orders"]

Concluded(w) ==
    /\ job[w].do \in DOMAIN LastScreen
    /\ EndAt(w, LastScreen[job[w].do], signedIn)
    /\ UNCHANGED clientVars

\* Any of the answers may be an error; run shows it and the work is over.
Failed(w) ==
    /\ Lower(w, FALSE)
    /\ disturbed' = (disturbed \/ job[w].do \in {"open", "open-bids", "bids"})
    /\ UNCHANGED <<chosen, signedIn, screen, code>>
    /\ UNCHANGED clientVars

Answered(w) ==
    /\ chosen = "client" /\ w \in Pending
    /\ job[w].do \notin {"request", "resend", "verify", "compare", "outdated", "logout"}
    /\ \/ UploadAnswered(w) \/ Updated(w) \/ Created(w) \/ Published(w)
       \/ Opened(w) \/ BidsLoaded(w) \/ NoticeRead(w)
       \/ DriverSelected(w) \/ DeliveryConfirmed(w) \/ OrderCancelled(w)
       \/ DisputeOpened(w) \/ Concluded(w) \/ Failed(w)

Wizard == \/ Home \/ LocationSelector \/ DistrictSelector \/ MapPicker
          \/ RouteSummary \/ OrderAddress \/ OrderPhoto \/ OrderReview

OrderScreens == \/ Success \/ OrdersList \/ OrderDetail \/ Bids \/ ConfirmSheet
                \/ Rating \/ Dispute \/ Notifications \/ Profile \/ NothingFound

ClientStep == Wizard \/ OrderScreens \/ \E w \in Works : Answered(w)
================================================================================
