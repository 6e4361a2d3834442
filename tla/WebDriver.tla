------------------------------ MODULE WebDriver ------------------------------
(***************************************************************************)
(* The driver's page of the web front end and of the Android app           *)
(* (DriverApp).  The orders a driver can open are those of the feed and    *)
(* the one order taken for the active one among those assigned; which that *)
(* is, is known again after every reload only.                             *)
(***************************************************************************)
EXTENDS WebSignIn

CONSTANTS Orders,
          DriverCalls   \* bound: calls in flight at once

ASSUME WebDriverAssumption == None \notin Orders

VARIABLES
    dscreen,    \* screen
    dtab,       \* tab
    opened,     \* detailId
    active,     \* activeOrder, and whether its status has a next one
    sheet,      \* bidOrder, and the state of its sheet
    dcalls,     \* the calls in flight
    placed      \* history: the orders a bid was taken for

driverVars == <<dscreen, dtab, opened, active, sheet, dcalls, placed>>
shownVars  == <<dscreen, dtab, opened>>

MainTabs == {"home", "routes", "orders", "profile"}
NoActive == [of |-> None, next |-> FALSE]
Actives  == {NoActive} \cup [of : Orders, next : BOOLEAN]
NoBid    == [of |-> None, st |-> "none"]

\* A call: the order it is for, the tab to go back to when it was made, and
\* whether what made it - the page, a form, the sheet - is there to take the
\* answer; "reload" is its second half.
NoDCall == [do |-> "idle", phase |-> "call", of |-> None, back |-> None, own |-> FALSE]

\* The page loads its data when it is mounted.
Loading == {[c \in DriverCalls |-> IF c # s THEN NoDCall
             ELSE [NoDCall EXCEPT !.do = "load", !.phase = "reload"]] : s \in DriverCalls}

DriverInit ==
    /\ dscreen = "home" /\ dtab = "home" /\ opened = None
    /\ active = NoActive /\ sheet = NoBid /\ placed = {}

---------------------------------------------------------------------------
(* Screens *)

At(s) == dscreen = s /\ sheet = NoBid

\* A form or a sheet that leaves the screen forgets what it waits for.
Unmounted(do) ==
    [s \in DriverCalls |-> IF dcalls[s].do = do THEN [dcalls[s] EXCEPT !.own = FALSE]
                                               ELSE dcalls[s]]
CallsAt(next) == IF next = dscreen THEN dcalls ELSE Unmounted("save")

Open(next) == /\ dscreen' = next /\ dcalls' = CallsAt(next)
              /\ UNCHANGED <<dtab, opened, active, sheet, placed>>
SwitchTab(t) == dscreen' = t /\ dtab' = t /\ UNCHANGED <<opened, active, sheet, dcalls, placed>>
GoBack == Open(dtab)

DCall(do) == [NoDCall EXCEPT !.do = do, !.own = TRUE]
Ask(call) ==
    /\ \E s \in DriverCalls : dcalls[s].do = "idle" /\ dcalls' = [dcalls EXCEPT ![s] = call]
    /\ UNCHANGED <<shownVars, active, placed>>

\* busyAvail, routeBusy, busyStatus, saving: the button waits for its call.
Held(do) == \E s \in DriverCalls : dcalls[s].do = do /\ dcalls[s].own
AskOnce(do) == ~Held(do) /\ Ask(DCall(do)) /\ UNCHANGED sheet

OpenOrder(o) == /\ opened' = o /\ dscreen' = "order-detail"
                /\ UNCHANGED <<dtab, active, sheet, dcalls, placed>>

OpenSheet(o) == /\ sheet' = [of |-> o, st |-> "form"]
                /\ UNCHANGED <<shownVars, active, dcalls, placed>>

BottomNav ==
    /\ dscreen \in MainTabs /\ sheet = NoBid
    /\ (\E t \in MainTabs : SwitchTab(t)) \/ Open("add-route")

DriverHome ==
    /\ At("home")
    /\ \/ \E s \in {"notifications", "income"} : Open(s)
       \/ \E o \in Orders : OpenOrder(o)

DriverRoutes == At("routes") /\ (Open("add-route") \/ AskOnce("route"))

DriverOrders ==
    /\ At("orders")
    /\ \/ \E o \in Orders : OpenOrder(o) \/ OpenSheet(o)
       \/ active # NoActive /\ OpenOrder(active.of)

DriverProfile ==
    /\ At("profile")
    /\ \/ \E s \in {"edit-profile", "documents", "income", "settings"} : Open(s)
       \/ AskOnce("avail")

\* What goes back to the tab only: income, settings and notifications.
Leaf == \E s \in {"income", "settings", "notifications"} : At(s) /\ GoBack

\* An upload holds no button.
DriverDocuments == At("documents") /\ (GoBack \/ (Ask(DCall("upload")) /\ UNCHANGED sheet))

\* The two forms go back when they have been saved.
DriverForms ==
    /\ At("add-route") \/ At("edit-profile")
    /\ \/ GoBack
       \/ ~Held("save") /\ UNCHANGED sheet /\ Ask([DCall("save") EXCEPT !.back = dtab])

\* Pulling a list down loads everything again on Android.
PullRefresh ==
    /\ build = "android" /\ sheet = NoBid /\ dscreen \in MainTabs
    /\ UNCHANGED sheet /\ Ask([NoDCall EXCEPT !.do = "load", !.phase = "reload"])

---------------------------------------------------------------------------
(* The order on display *)

\* viewingActiveOrder; the web advances the active order whatever order is open.
NextStatus == active.next /\ (build = "android" => opened \in {None, active.of})

\* The web shows the active order only, and nothing at all without one.
DriverOrderDetail ==
    /\ At("order-detail")
    /\ build = "web" => active # NoActive
    /\ \/ GoBack
       \/ /\ NextStatus /\ ~Held("advance") /\ UNCHANGED sheet
          /\ Ask([DCall("advance") EXCEPT !.of = active.of, !.back = dtab])
       \/ build = "android" /\ ~NextStatus /\ opened # None /\ OpenSheet(opened)

\* The sheet can be closed while its bid is sent.
BidSheet ==
    /\ sheet # NoBid
    /\ \/ /\ sheet' = NoBid /\ dcalls' = Unmounted("bid")
          /\ UNCHANGED <<shownVars, active, placed>>
       \/ /\ sheet.st = "form" /\ sheet' = [sheet EXCEPT !.st = "loading"]
          /\ Ask([DCall("bid") EXCEPT !.of = sheet.of])

HardwareGoBack ==
    /\ build = "android" /\ sheet = NoBid /\ dscreen \notin MainTabs
    /\ GoBack

---------------------------------------------------------------------------
(* Answers *)

DDone(s) == [dcalls EXCEPT ![s] = NoDCall]

\* Mutant: all sheets share one state, as if the sheet were hidden, not unmounted.
AnySheetTold(s, st) ==
    IF dcalls[s].do = "bid" /\ sheet.st = "loading" THEN [sheet EXCEPT !.st = st] ELSE sheet

\* The sheet that sent the bid is told, unless it has been closed.
SheetTold(s, st) ==
    IF dcalls[s].do = "bid" /\ dcalls[s].own THEN [sheet EXCEPT !.st = st] ELSE sheet

Failed(s) ==
    /\ dcalls[s].do # "idle" /\ dcalls[s].phase = "call"
    /\ dcalls' = DDone(s)
    /\ sheet' = SheetTold(s, "form")
    /\ UNCHANGED <<shownVars, active, placed>>

\* What the page itself has asked for waits for the reload too.
OwnCalls == {"route", "avail", "advance"}

Reloading(call) ==
    [call EXCEPT !.phase = "reload", !.of = None, !.own = call.do \in OwnCalls,
                 !.back = IF call.do = "advance" THEN call.back ELSE None]

\* A save goes back to the tab it was made from, wherever the driver is by then.
Succeeded(s) ==
    /\ dcalls[s].do # "idle" /\ dcalls[s].phase = "call"
    /\ dscreen' = IF dcalls[s].do = "save" THEN dcalls[s].back ELSE dscreen
    /\ dcalls' = [CallsAt(dscreen') EXCEPT ![s] = Reloading(dcalls[s])]
    /\ sheet' = SheetTold(s, "success")
    /\ placed' = IF dcalls[s].do = "bid" THEN placed \cup {dcalls[s].of} ELSE placed
    /\ UNCHANGED <<dtab, opened, active>>

\* load: a failure of the orders' call alone leaves none, one of the profile's
\* call leaves what was there.
Reloaded(s) ==
    /\ dcalls[s].phase = "reload"
    /\ active' \in Actives
    /\ dscreen' = IF dcalls[s].do = "advance" THEN dcalls[s].back ELSE dscreen
    /\ dcalls' = [CallsAt(dscreen') EXCEPT ![s] = NoDCall]
    /\ UNCHANGED <<dtab, opened, sheet, placed>>

\* The page is loaded again, or the app is closed and opened: nothing is kept.
\* It is the only way out of an order's page that shows nothing.
Reopen ==
    /\ dscreen' = "home" /\ dtab' = "home" /\ opened' = None
    /\ active' = NoActive /\ sheet' = NoBid /\ dcalls' \in Loading /\ placed' = {}

DriverStep ==
    \/ BottomNav \/ DriverHome \/ DriverRoutes \/ DriverOrders \/ DriverProfile
    \/ Leaf \/ DriverDocuments \/ DriverForms \/ PullRefresh
    \/ DriverOrderDetail \/ BidSheet \/ HardwareGoBack \/ Reopen
    \/ \E s \in DriverCalls : Failed(s) \/ Succeeded(s) \/ Reloaded(s)
================================================================================
