------------------------------- MODULE WebDesk -------------------------------
(***************************************************************************)
(* The admin desk of the web front end (AdminApp): one section shows at a  *)
(* time, and what it holds is lost when another one is opened.  A drawer   *)
(* covers the page and a dialog covers the drawer.  The filters of the     *)
(* lists, typed fields other than the forms of orders and drivers, and     *)
(* what the calls load are not followed.                                   *)
(***************************************************************************)
EXTENDS WebSignIn

CONSTANTS Records,
          DeskCalls    \* bound: calls in flight at once

VARIABLES
    section,    \* section
    drawer,     \* the record in the drawer
    modal,      \* the dialog
    content,    \* the record whose content the section's form holds
    busy,       \* busy
    dwork       \* the calls in flight, and whether their section still shows

deskVars == <<section, drawer, modal, content, busy, dwork>>

Sections == {"dashboard", "orders", "drivers", "clients", "regions", "tariffs",
             "disputes", "staff", "notifications", "audit", "profile"}

NoDialog == "none"
NoWork   == [do |-> "idle", here |-> FALSE]

DeskInit ==
    /\ section = "dashboard" /\ drawer = None /\ modal = NoDialog
    /\ content = None /\ busy = FALSE
    /\ dwork = [s \in DeskCalls |-> NoWork]

---------------------------------------------------------------------------
(* The frame *)

Covered == drawer # None \/ modal # NoDialog

\* The sections forget what they hold when they go, and when the desk is
\* refreshed, whose key they are mounted under.
Mount(next) ==
    /\ section' = next /\ drawer' = None /\ modal' = NoDialog
    /\ content' = None /\ busy' = FALSE
    /\ dwork' = [s \in DeskCalls |-> [dwork[s] EXCEPT !.here = FALSE]]

AdminApp == ~Covered /\ \E next \in Sections : Mount(next)

In(s) == section = s /\ ~Covered
OpenDrawer(r) == drawer' = r /\ UNCHANGED <<section, modal, content, busy, dwork>>
CloseDrawer   == drawer' = None /\ UNCHANGED <<section, modal, content, busy, dwork>>
OpenModal(m)  == modal' = m /\ UNCHANGED <<section, drawer, content, busy, dwork>>
CloseModal    == OpenModal(NoDialog)

SendWork(do) ==
    /\ \E s \in DeskCalls :
          /\ dwork[s].do = "idle"
          /\ dwork' = [dwork EXCEPT ![s] = [do |-> do, here |-> TRUE]]
    /\ busy' = IF do = "unguarded" THEN busy ELSE TRUE
    /\ UNCHANGED <<section, drawer, modal, content>>

\* The button of a dialog, held by busy.
Submit(do) == ~busy /\ SendWork(do)

---------------------------------------------------------------------------
(* The sections *)

\* onNav goes to the section of a figure.
AdminDashboard ==
    In("dashboard") /\ \E next \in {"orders", "drivers", "disputes", "tariffs", "audit"} : Mount(next)

InDrawer(s) == section = s /\ drawer # None /\ modal = NoDialog
InDialog(s) == section = s /\ modal # NoDialog

\* The form of an order's dialogs is kept when a dialog is closed.
AdminOrders ==
    \/ In("orders") /\ \E r \in Records : OpenDrawer(r)
    \/ InDrawer("orders") /\ (CloseDrawer \/ \E m \in {"assign", "status", "cancel"} : OpenModal(m))
    \/ /\ InDialog("orders")
       /\ \/ CloseModal \/ Submit("action")
          \/ content' = drawer /\ UNCHANGED <<section, drawer, modal, busy, dwork>>

\* Mutant: a form that holds something is not filled again.
OpenVehicleOnce ==
    /\ content' = IF content = None THEN drawer ELSE content
    /\ modal' = "vehicle" /\ UNCHANGED <<section, drawer, busy, dwork>>

\* openVehicle fills the form from the driver in the drawer.
OpenVehicle ==
    content' = drawer /\ modal' = "vehicle" /\ UNCHANGED <<section, drawer, busy, dwork>>

\* A row's buttons open drawer and dialog at once.
AdminDrivers ==
    \/ /\ In("drivers")
       /\ \E r \in Records :
             \/ OpenDrawer(r)
             \/ /\ drawer' = r /\ modal' \in {"approve", "reject", "block"}
                /\ UNCHANGED <<section, content, busy, dwork>>
    \/ /\ InDrawer("drivers")
       /\ CloseDrawer \/ OpenVehicle \/ \E m \in {"approve", "reject", "block"} : OpenModal(m)
    \/ /\ InDialog("drivers")
       /\ CloseModal \/ Submit(IF modal = "vehicle" THEN "vehicle" ELSE "action")

\* The rows' buttons are not held while a client is blocked, the drawer's are.
AdminClients ==
    \/ In("clients") /\ (SendWork("toggle") \/ \E r \in Records : OpenDrawer(r))
    \/ InDrawer("clients") /\ (CloseDrawer \/ Submit("toggle"))

AdminRegions == In("regions") /\ SendWork("switch")

AdminTariffs ==
    \/ In("tariffs") /\ (SendWork("switch") \/ OpenModal("create"))
    \/ InDialog("tariffs") /\ (CloseModal \/ Submit("create"))

AdminDisputes ==
    \/ In("disputes") /\ \E r \in Records : OpenDrawer(r)
    \/ InDrawer("disputes") /\ CloseDrawer

AdminStaffSection ==
    \/ In("staff") /\ (SendWork("unguarded") \/ OpenModal("create"))
    \/ InDialog("staff") /\ (CloseModal \/ Submit("create"))

\* The name and the commission are saved by buttons that nothing holds.
AdminProfile == In("profile") /\ SendWork("unguarded")

---------------------------------------------------------------------------
(* Answers *)

\* Success closes the dialog and the drawer that show by then, and empties the
\* form of an order; any answer but that of an unguarded button lowers busy.
DeskAnswered(s) ==
    /\ dwork[s].do # "idle" /\ dwork' = [dwork EXCEPT ![s] = NoWork]
    /\ LET do == dwork[s].do IN
       IF ~dwork[s].here THEN UNCHANGED <<drawer, modal, content, busy>>
       ELSE /\ busy' = (do = "unguarded" /\ busy)
            /\ \/ UNCHANGED <<drawer, modal, content>>
               \/ /\ drawer' = IF do \in {"action", "vehicle", "toggle"} THEN None ELSE drawer
                  /\ modal' = IF do \in {"action", "vehicle", "create"} THEN NoDialog ELSE modal
                  /\ content' = IF do = "action" /\ section = "orders" THEN None ELSE content
    /\ UNCHANGED section

DeskStep ==
    \/ AdminApp \/ AdminDashboard \/ AdminOrders \/ AdminDrivers \/ AdminClients
    \/ AdminRegions \/ AdminTariffs \/ AdminDisputes \/ AdminStaffSection \/ AdminProfile
    \/ \E s \in DeskCalls : DeskAnswered(s)
================================================================================
