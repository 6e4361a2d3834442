---------------------------- MODULE AdminRecords ----------------------------
(***************************************************************************)
(* The drawers and dialogs of the admin desk: the record a drawer shows,   *)
(* what is loaded beside it (the drivers an order may be given to, the     *)
(* districts of a city, the reverse of a tariff), and the dialog in which  *)
(* a change is asked for; of the table, only that its loads share the busy *)
(* flag of the panel.  In the orders and drivers panels the change goes to *)
(* the record the drawer shows when it is confirmed; in the others to the  *)
(* record the dialog was opened for.                                       *)
(***************************************************************************)
EXTENDS Naturals, Sequences

CONSTANTS Records, NoRecord,
          Desks                \* bound: works in flight at once

ASSUME AdminRecordsAssumption == NoRecord \notin Records

VARIABLES
    desk,       \* section of AdminApp.tsx
    drawer,     \* selectedOrder, selectedDriver, selectedCity, selectedTariff, detail
    besides,    \* the record whose eligible drivers, districts or reverse is held
    dialog,     \* the dialog open, and the record it was opened for
    deskBusy,   \* busy: one flag for every work of the panel, loads of its table too
    due,        \* the timer of a typed search runs
    work,       \* the works in flight
    crossed     \* history: while the drawer was open, or opening, a work of the
                \* panel was started with another in flight

recordVars == <<desk, drawer, besides, dialog, deskBusy, due, work, crossed>>

RecordDesks == {"orders", "drivers", "cities", "tariffs", "users", "clients"}

\* The drawers that hold their own dialog, those with something besides, and
\* the panels whose record shows beside the table instead of over it.
InDrawer == {"orders", "drivers"}
Twofold  == {"orders", "cities", "tariffs"}
Beside   == {"users", "clients"}

RecordOrNone == Records \cup {NoRecord}

\* A work is a call, the calls that follow it, the record they are for and, for
\* a change, the dialog it was asked in.
NoDialog == [kind |-> "none", of |-> NoRecord]
NoWork   == [do |-> "idle", rest |-> <<>>, of |-> NoRecord, asked |-> NoDialog]

\* A panel loads its table when it is mounted.
TableLoading ==
    LET d == CHOOSE e \in Desks : TRUE
    IN  [[e \in Desks |-> NoWork] EXCEPT ![d].do = "list"]

\* Users and clients set a timer at once.
RecordInit ==
    /\ desk \in RecordDesks /\ due = (desk \in Beside)
    /\ drawer = NoRecord /\ besides = NoRecord /\ dialog = NoDialog
    /\ deskBusy = TRUE /\ work = TableLoading /\ crossed = FALSE

Covered  == drawer # NoRecord /\ desk \notin Beside
AtTable  == dialog = NoDialog /\ ~Covered
DeskWorking == \E d \in Desks : work[d].do # "idle"

\* The works that leave the busy flag alone.
Silent(do) == do = "search" \/ (do = "open" /\ desk \in Beside)

Begin(do, rest, r, m) ==
    /\ \E d \in Desks :
          /\ work[d].do = "idle"
          /\ work' = [work EXCEPT ![d] = [do |-> do, rest |-> rest, of |-> r, asked |-> m]]
    /\ deskBusy' = (deskBusy \/ ~Silent(do))
    /\ crossed' = (crossed \/ DeskWorking)
    /\ UNCHANGED desk

\* Whatever ends lowers the flag of the panel, whoever raised it.
Finish(d) ==
    /\ work' = [work EXCEPT ![d] = NoWork]
    /\ deskBusy' = (deskBusy /\ Silent(work[d].do))
    /\ UNCHANGED <<desk, crossed>>

\* The next call of a work; the drivers panel reads the driver it has changed
\* without raising the flag again.
GoOn(d, rest, r) ==
    IF rest = <<>> THEN Finish(d)
    ELSE /\ work' = [work EXCEPT ![d] = [do |-> Head(rest), rest |-> Tail(rest),
                                         of |-> r, asked |-> NoDialog]]
         /\ deskBusy' = (deskBusy \/ Head(rest) = "list" \/ (Head(rest) = "open" /\ desk # "drivers"))
         /\ UNCHANGED <<desk, crossed>>

\* What follows the detail of a record, a refresh of the drawer, a change.
AfterOpen    == IF desk \in Twofold THEN <<"besides">> ELSE <<>>
AfterRefresh == IF desk = "orders" THEN <<"besides", "list">> ELSE AfterOpen
AfterChange  == CASE desk = "orders"  -> <<"open", "besides", "list">>
                  [] desk = "drivers" -> <<"open", "list">>
                  [] desk \in {"cities", "tariffs"} -> <<"list", "open", "besides">>
                  [] desk = "users"   -> <<"list">>
                  [] desk = "clients" -> <<>>

---------------------------------------------------------------------------

\* loadOrders, loadDrivers, loadCities, loadTariffs, load: refresh, filters and
\* pages.  A tab, "clear" or a filter in force at once does not wait for busy.
LoadTable ==
    /\ AtTable
    /\ Begin("list", <<>>, NoRecord, NoDialog)
    /\ UNCHANGED <<drawer, besides, dialog, due>>

TypeText ==
    /\ AtTable /\ desk # "orders"
    /\ due' = TRUE
    /\ UNCHANGED <<desk, drawer, besides, dialog, deskBusy, work, crossed>>

\* The timer, whatever has been opened meanwhile.
LoadTyped ==
    /\ due /\ due' = FALSE
    /\ Begin("list", <<>>, NoRecord, NoDialog)
    /\ UNCHANGED <<drawer, besides, dialog>>

\* openOrder, openDriver, openCity, openTariff, openDetail.
OpenRecord(r) ==
    /\ AtTable
    /\ Begin("open", AfterOpen, r, NoDialog)
    /\ UNCHANGED <<drawer, besides, dialog, due>>

RefreshDrawer ==
    /\ dialog = NoDialog /\ Covered
    /\ Begin("open", AfterRefresh, drawer, NoDialog)
    /\ UNCHANGED <<drawer, besides, dialog, due>>

CloseDrawer ==
    /\ dialog = NoDialog /\ drawer # NoRecord
    /\ drawer' = NoRecord /\ crossed' = (crossed /\ DeskWorking)
    /\ UNCHANGED <<desk, besides, dialog, deskBusy, due, work>>

RecordOpened(d) ==
    /\ work[d].do = "open"
    /\ drawer' = work[d].of
    /\ GoOn(d, work[d].rest, work[d].of)
    /\ UNCHANGED <<besides, dialog, due>>

\* Mutant: an error leaves what was there, in every panel.
BesidesKept(d) ==
    /\ work[d].do \in {"besides", "search"}
    /\ besides' \in {work[d].of, besides}
    /\ GoOn(d, work[d].rest, work[d].of)
    /\ UNCHANGED <<drawer, dialog, due>>

\* An error empties the list of drivers and the reverse, but leaves the
\* districts of the city before.
BesidesLoaded(d) ==
    /\ work[d].do \in {"besides", "search"}
    /\ besides' \in {work[d].of, IF desk = "cities" THEN besides ELSE NoRecord}
    /\ GoOn(d, work[d].rest, work[d].of)
    /\ UNCHANGED <<drawer, dialog, due>>

\* An error of a table's load does not stop the work it is part of.
TableLoaded(d) ==
    /\ work[d].do = "list"
    /\ GoOn(d, work[d].rest, work[d].of)
    /\ UNCHANGED <<drawer, besides, dialog, due>>

\* The assignment dialog searches the drivers of the order the drawer shows.
SearchDrivers ==
    /\ desk = "orders" /\ dialog # NoDialog
    /\ Begin("search", <<>>, drawer, NoDialog)
    /\ UNCHANGED <<drawer, besides, dialog, due>>

AskFor(kind, r) ==
    /\ dialog = NoDialog
    /\ dialog' = [kind |-> kind, of |-> r]
    /\ UNCHANGED <<desk, drawer, besides, deskBusy, due, work, crossed>>

AskInDrawer ==
    /\ desk \in InDrawer /\ ~deskBusy /\ drawer # NoRecord
    /\ AskFor("confirm", drawer)

\* Create, on the page; edit and toggle, on a row or in the drawer.
Create    == AtTable /\ AskFor("create", NoRecord)
AskOnRow  == AtTable /\ \E r \in Records : AskFor("edit", r) \/ AskFor("confirm", r)
CityForms == Covered /\ (AskFor("district", drawer) \/ AskFor("confirm", drawer))
TariffForms == Covered /\ ~deskBusy /\ (AskFor("edit", drawer) \/ AskFor("confirm", drawer))

CloseDialog ==
    /\ dialog # NoDialog
    /\ dialog' = NoDialog
    /\ UNCHANGED <<desk, drawer, besides, deskBusy, due, work, crossed>>

\* Mutant: every panel changes the record of its drawer.
TargetOfDrawer(m) == drawer

TargetOf(m) == IF desk \in InDrawer THEN drawer ELSE m.of

\* The confirmations of these panels close before the call, every other dialog
\* when the change has succeeded; one that was opened meanwhile stays, unless it
\* is of the same kind (cities and tariffs create and edit in one).
ClosesAtOnce(m) == m.kind = "confirm" /\ desk \notin Beside
Closes(m) ==
    /\ ~ClosesAtOnce(m)
    /\ dialog.kind = m.kind \/ (desk \notin Beside /\ {dialog.kind, m.kind} = {"create", "edit"})

Submit ==
    /\ dialog # NoDialog /\ ~deskBusy
    /\ Begin("change", AfterChange, TargetOf(dialog), dialog)
    /\ dialog' = IF ClosesAtOnce(dialog) THEN NoDialog ELSE dialog
    /\ UNCHANGED <<drawer, besides, due>>

\* The record loaded again is the one changed, the one created, or the city a
\* district was put in.
ChangeMade(d) ==
    /\ work[d].do = "change"
    /\ dialog' = IF Closes(work[d].asked) THEN NoDialog ELSE dialog
    /\ \E r \in Records :
          /\ work[d].of \in {r, NoRecord} \/ work[d].asked.kind = "district"
          /\ GoOn(d, work[d].rest, r)
    /\ UNCHANGED <<drawer, besides, due>>

\* An error ends the work, but the orders panel loads its table even when the
\* order of the drawer could not be read.
DeskFailed(d) ==
    /\ work[d].do \in {"open", "change"}
    /\ GoOn(d, IF desk = "orders" /\ work[d].do = "open" THEN Tail(work[d].rest) ELSE <<>>,
            work[d].of)
    /\ UNCHANGED <<drawer, besides, dialog, due>>

---------------------------------------------------------------------------
(* The panels *)

\* Another section: the panel is left with all it holds and waits for.
ChooseDesk(p) ==
    /\ p # desk /\ AtTable
    /\ desk' = p /\ due' = (p \in Beside)
    /\ drawer' = NoRecord /\ besides' = NoRecord /\ dialog' = NoDialog
    /\ deskBusy' = TRUE /\ work' = TableLoading /\ crossed' = FALSE

Table == LoadTable \/ TypeText \/ LoadTyped \/ \E r \in Records : OpenRecord(r)

Drawer == RefreshDrawer \/ CloseDrawer

Forms == Create \/ AskOnRow

OrderDrawer  == desk = "orders"  /\ (Table \/ Drawer \/ AskInDrawer \/ SearchDrivers)
OrderDialogs == desk = "orders"  /\ (Submit \/ CloseDialog)
DriverDrawer  == desk = "drivers" /\ (Table \/ Drawer \/ AskInDrawer)
DriverDialogs == desk = "drivers" /\ (Submit \/ CloseDialog)
CityDrawer  == desk = "cities"  /\ (Table \/ Drawer \/ Forms \/ CityForms)
CityDialogs == desk = "cities"  /\ (Submit \/ CloseDialog)
TariffDrawer  == desk = "tariffs" /\ (Table \/ Drawer \/ Forms \/ TariffForms)
TariffDialogs == desk = "tariffs" /\ (Submit \/ CloseDialog)
UserDialogs   == desk = "users"   /\ (Table \/ CloseDrawer \/ Forms \/ Submit \/ CloseDialog)
ClientDialogs == desk = "clients" /\ (Table \/ CloseDrawer \/ AskOnRow \/ Submit \/ CloseDialog)

DeskAnswered == \E d \in Desks : \/ RecordOpened(d) \/ BesidesLoaded(d) \/ TableLoaded(d)
                                 \/ ChangeMade(d) \/ DeskFailed(d)

RecordStep ==
    \/ OrderDrawer \/ OrderDialogs \/ DriverDrawer \/ DriverDialogs
    \/ CityDrawer \/ CityDialogs \/ TariffDrawer \/ TariffDialogs
    \/ UserDialogs \/ ClientDialogs \/ DeskAnswered
    \/ \E p \in RecordDesks : ChooseDesk(p)
================================================================================
