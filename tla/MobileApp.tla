------------------------------ MODULE MobileApp ------------------------------
(***************************************************************************)
(* The mobile app of the repository, mobile-app/src/app: the clients' and  *)
(* drivers' app (AppShell, ClientScreens, DriverScreens) and the admin     *)
(* desk built into it (AdminLists, AdminRecords, AdminStaff).  These share *)
(* no state, so each behaviour is of one of them, chosen at the start: a   *)
(* product of all would only multiply the states.                          *)
(***************************************************************************)
EXTENDS ClientScreens, DriverScreens, AdminLists, AdminRecords, AdminStaff

VARIABLE surface     \* what this behaviour is of

appVars == <<shell, clientVars, driverVars>>
vars    == <<surface, appVars, listVars, recordVars, staffVars>>

Surface == {"app", "lists", "records", "staff"}

\* The parts a behaviour is not of stand still, each in one initial state.
Init ==
    /\ surface \in Surface
    /\ ShellInit /\ ClientInit /\ DriverInit /\ ListInit /\ RecordInit /\ StaffInit
    /\ surface # "app" => chosen = "client" /\ screen = "splash"
    /\ surface # "lists" => panel = "orders"
    /\ surface # "records" => desk = "orders"
    /\ surface # "staff" => page = Nobody

ClientApp == ClientStep /\ UNCHANGED driverVars
DriverApp == DriverStep /\ UNCHANGED clientVars
SignInApp == ShellStep /\ UNCHANGED <<clientVars, driverVars>>

App == /\ surface = "app"
       /\ ClientApp \/ DriverApp \/ SignInApp
       /\ UNCHANGED <<surface, listVars, recordVars, staffVars>>

AdminTables == /\ surface = "lists" /\ ListStep
               /\ UNCHANGED <<surface, appVars, recordVars, staffVars>>

AdminDrawers == /\ surface = "records" /\ RecordStep
                /\ UNCHANGED <<surface, appVars, listVars, staffVars>>

AdminPage == /\ surface = "staff" /\ StaffStep
             /\ UNCHANGED <<surface, appVars, listVars, recordVars>>

Next == App \/ AdminTables \/ AdminDrawers \/ AdminPage

Spec == Init /\ [][Next]_vars

---------------------------------------------------------------------------
(* The client's and the driver's app *)

\* Unless the user went on while an order work was in flight, the sheet acts on
\* the order it was asked about, though it takes it from variables that every
\* screen writes (runConfirmAction).
ActsOnShownOrder ==
    sheet # NoSheet /\ ~disturbed =>
        sheet.of = IF sheet.kind = "select-driver" THEN selected ELSE detail.of

\* The rating goes to the order whose delivery was confirmed, unless the user went
\* on while a work was in flight: the screen rates selectedOrderId, the sheet
\* confirmed orderDetail, and another order opened before the confirmation is
\* answered is selected by then (rateDriver, runConfirmAction, openOrder).
RatesConfirmedOrder ==
    screen = "client-rating" /\ ~disturbed => selected = detail.of

\* What is saved over an order or a route is its own content.  The wizard holds
\* the content of editingOrderId, and a photo chosen for it - only an upload that
\* outlives its wizard can bring another one; the one form for routes holds the
\* content of editingRouteId (beginEditOrder, resetOrderDraft, cancelling,
\* startEditDriverRoute).
FormsKeepContent ==
    /\ form.of = editing
    /\ ~disturbed => form.photo \in {"missing", editing}
    /\ editingRoute # None => routeForm.of = editingRoute

\* The form on the screen is sent once: while an order is created, published or
\* updated no second one is, as long as no other work has ended meanwhile and
\* lowered the flag that holds the button.
PublishedOnce ==
    ~unlocked => \A v, w \in Works :
        {job[v].do, job[w].do} \subseteq {"create", "publish", "update"} => v = w

\* A code is guessed at no more often than the limit, though the server counts
\* without a lock: the screen lets one guess be in flight at a time, unless another
\* work has ended meanwhile and lowered the flag that holds the button.  Asking for
\* a new code is such a work: it does not wait for the flag.
GuessesAreLimited == ~unlocked => code.guesses <= MaxAttempts

---------------------------------------------------------------------------
(* The admin desk *)

\* When the calls have settled the rows shown are those of the filters in
\* force, unless two calls for rows overlapped - an older answer may come last -
\* or the last one failed: the rows of before may stay then, and opening a record
\* clears the error above them.
RowsMatchFilter == Calling = {} /\ ~failed /\ ~overtaken => rowsOf = filter

\* A lit tab of one status is the status the rows are asked by, whatever the
\* select of the same name has been set to, unless the filters were changed during
\* the pause of a typed search.  The tab of two statuses asks for all orders, and
\* after "apply" for whatever the select says (changeTab, applyFilters).
TabMatchesFilter ==
    panel \in Tabbed /\ tab \notin {AnyChoice, WideTab} /\ ~raced => filter.choice = tab

\* A change goes to the record its dialog was opened for, though in the orders
\* and drivers panels it is sent to the record the drawer shows by then; only two
\* works of the panel at once, loads of its table included, can put another record
\* in the drawer.
ChangesWhatWasAsked ==
    \A d \in Desks : work[d].do = "change" =>
        work[d].of = work[d].asked.of \/ (desk \in InDrawer /\ crossed)

\* The drivers offered for an assignment are the eligible drivers of the order
\* in the drawer, unless two works of the panel ran at once since the drawer was
\* last closed.  A load of the table is such a work: it lowers the flag that holds
\* "Assign driver" while openOrder still waits for the drivers (loadOrders).
ShownDriversAreEligible ==
    desk = "orders" /\ dialog # NoDialog /\ ~crossed => besides \in {drawer, NoRecord}

\* As long as tokens are stored, the page and the stored user are those of the
\* tokens, through refreshes, refusals and reloads, unless someone signed out
\* while a call was in flight: its answer shows and stores the former user.
StaffPageMatchesTokens ==
    tokens # Nobody /\ ~late => page = tokens /\ stored = tokens
================================================================================
