----------------------------- MODULE AdminLists -----------------------------
(***************************************************************************)
(* The tables of the admin desk (mobile-app/src/app/Admin*Panel.tsx): the  *)
(* tab, the filters being typed, the filters in force, the pause before a  *)
(* typed search takes effect, and the list calls in flight.  An answer is  *)
(* put on the screen whatever has been asked since.  Of the filters, one   *)
(* choice (a status, a role, a kind of city) and the search remain; pages  *)
(* and the other choices behave like the first.  Of the drawers            *)
(* (AdminRecords), that their works share the busy flag.                   *)
(***************************************************************************)
EXTENDS Naturals

CONSTANTS Choices, AnyChoice,   \* values of a choice; AnyChoice does not filter
          WideTab,              \* the tab of two statuses of the orders panel
          Searches, NoSearch,   \* texts of a search; NoSearch does not filter
          Lists                 \* bound: calls in flight at once

ASSUME AdminListsAssumption ==
    AnyChoice \in Choices /\ NoSearch \in Searches /\ WideTab \notin Choices

VARIABLES
    panel,      \* section of AdminApp.tsx
    tab,        \* activeTab
    draft,      \* draftFilters, or searchInput
    filter,     \* filters
    pause,      \* the running timer of a typed search, and what it captured
    rowsOf,     \* the filters the rows were asked with
    failed,     \* the last call for the rows failed
    listBusy,   \* busy: one flag for every work of the panel
    list,       \* the calls in flight
    overtaken,  \* history: rows were asked for while others were on their way
    raced       \* history: the filters were changed during a pause

listVars == <<panel, tab, draft, filter, pause, rowsOf, failed, listBusy,
              list, overtaken, raced>>

Panels   == {"orders", "drivers", "cities", "tariffs",
             "users", "clients", "audit", "notifications"}
Tabbed   == {"orders", "drivers"}
Drafted  == {"orders", "drivers", "cities", "tariffs"}
Paused   == Panels \ {"orders", "notifications"}
Filter   == [choice : Choices, search : Searches]
NoFilter == [choice |-> AnyChoice, search |-> NoSearch]

NoPause == [on |-> FALSE, base |-> NoFilter, search |-> NoSearch]
NoCall  == [do |-> "idle", for |-> NoFilter]

\* A panel calls as soon as it is mounted; users and clients set a timer too.
FirstPause(p) == IF p \in {"users", "clients"} THEN [NoPause EXCEPT !.on = TRUE] ELSE NoPause
FirstCall ==
    LET l == CHOOSE m \in Lists : TRUE
    IN  [[m \in Lists |-> NoCall] EXCEPT ![l].do = "list"]

ListInit ==
    /\ panel \in Panels /\ tab = AnyChoice /\ draft = NoFilter /\ filter = NoFilter
    /\ pause = FirstPause(panel) /\ rowsOf = NoFilter /\ failed = FALSE /\ listBusy = TRUE
    /\ list = FirstCall
    /\ overtaken = FALSE /\ raced = FALSE

Calling == {l \in Lists : list[l].do \in {"list", "change"}}

SendCall(do, f) ==
    /\ \E l \in Lists : list[l].do = "idle" /\ list' = [list EXCEPT ![l] = [do |-> do, for |-> f]]
    /\ listBusy' = TRUE /\ failed' = FALSE
    /\ overtaken' = (overtaken \/ Calling # {})

---------------------------------------------------------------------------

\* A panel is mounted anew whenever its section is chosen; what the panel
\* before it still waits for is lost.
ChooseSection(p) ==
    /\ p # panel
    /\ panel' = p /\ tab' = AnyChoice /\ draft' = NoFilter /\ filter' = NoFilter
    /\ pause' = FirstPause(p) /\ rowsOf' = NoFilter /\ failed' = FALSE /\ listBusy' = TRUE
    /\ list' = FirstCall
    /\ overtaken' = FALSE /\ raced' = FALSE

\* loadOrders, loadDrivers, loadCities, loadTariffs, load: the rows are those
\* of the filters it is given, not of the filters in force.
LoadRows(f) == SendCall("list", f)

Refresh ==
    /\ ~listBusy
    /\ LoadRows(filter)
    /\ UNCHANGED <<panel, tab, draft, filter, pause, rowsOf, raced>>

\* openOrder, openDriver, openCity, openTariff, runClientStatus: no rows are
\* asked for, but the flag of the panel is raised, and lowered.
OpenRow ==
    /\ panel \in Drafted \cup {"clients"}
    /\ \E l \in Lists : list[l].do = "idle" /\ list' = [list EXCEPT ![l].do = "row"]
    /\ listBusy' = TRUE
    /\ UNCHANGED <<panel, tab, draft, filter, pause, rowsOf, failed, overtaken, raced>>

\* An action on a row: the list is loaded again with the filters that were in
\* force when the button was drawn.
ChangeRow ==
    /\ SendCall("change", filter)
    /\ UNCHANGED <<panel, tab, draft, filter, pause, rowsOf, raced>>

\* Mutant: the rows are asked by the filters in force.
InstallLate(f) ==
    /\ filter' = f
    /\ LoadRows(filter)
    /\ raced' = (raced \/ pause.on)

Install(f) ==
    /\ filter' = f
    /\ LoadRows(f)
    /\ raced' = (raced \/ pause.on)

\* The status a tab stands for; the tab of two statuses asks for all of them.
StatusOf(t) == IF t = WideTab THEN AnyChoice ELSE t

ChangeTab(t) ==
    /\ panel \in Tabbed /\ (t = WideTab => panel = "orders")
    /\ tab' = t
    /\ draft' = [draft EXCEPT !.choice = StatusOf(t)]
    /\ Install([filter EXCEPT !.choice = StatusOf(t)])
    /\ UNCHANGED <<panel, pause, rowsOf>>

\* A select: in the panels with drafts it waits for "apply", elsewhere it is in
\* force at once.
Choose(c) ==
    /\ IF panel \in Drafted
       THEN /\ draft' = [draft EXCEPT !.choice = c]
            /\ UNCHANGED <<filter, failed, listBusy, list, overtaken, raced>>
       ELSE Install([filter EXCEPT !.choice = c]) /\ UNCHANGED draft
    /\ UNCHANGED <<panel, tab, pause, rowsOf>>

\* Typing restarts the pause; the timer captures the filters of this moment.
TypeSearch(s) ==
    /\ panel # "notifications"
    /\ draft' = [draft EXCEPT !.search = s]
    /\ pause' = IF panel \in Paused /\ s # draft.search
                THEN [on |-> TRUE, base |-> filter, search |-> s] ELSE pause
    /\ UNCHANGED <<panel, tab, filter, rowsOf, failed, listBusy, list, overtaken, raced>>

\* Mutant: the tab does not count.
AppliedDraft == draft

\* A tab of one status prevails over the select, the others do not.
AppliedFilter == [draft EXCEPT !.choice =
                     IF panel \in Tabbed /\ tab \notin {AnyChoice, WideTab} THEN tab ELSE @]

ApplyFilters ==
    /\ panel \in Drafted /\ ~listBusy
    /\ Install(AppliedFilter)
    /\ UNCHANGED <<panel, tab, draft, pause, rowsOf>>

\* Clearing a typed search restarts the pause, which then finds nothing to do.
ClearFilters ==
    /\ panel \in Drafted
    /\ tab' = AnyChoice /\ draft' = NoFilter
    /\ pause' = IF draft.search # NoSearch THEN NoPause ELSE pause
    /\ Install(NoFilter)
    /\ UNCHANGED <<panel, rowsOf>>

\* The pause of the panels with drafts: the filters captured when the search
\* was typed come back into force, with that search.
CapturedPause ==
    /\ panel \in Drafted /\ pause.on
    /\ pause' = NoPause
    /\ IF pause.search = pause.base.search
       THEN UNCHANGED <<filter, failed, listBusy, list, overtaken>>
       ELSE LET next == [pause.base EXCEPT !.search = pause.search]
            IN  filter' = next /\ LoadRows(next)
    /\ UNCHANGED <<panel, tab, draft, rowsOf, raced>>

\* The pause of the users, clients and audit panels updates whatever filters
\* are in force by then; users and clients do so even without a change.
CurrentPause ==
    /\ panel \notin Drafted /\ pause.on
    /\ pause' = NoPause
    /\ IF panel = "audit" /\ pause.search = pause.base.search
       THEN UNCHANGED <<filter, failed, listBusy, list, overtaken>>
       ELSE LET next == [filter EXCEPT !.search = pause.search]
            IN  filter' = next /\ LoadRows(next)
    /\ UNCHANGED <<panel, tab, draft, rowsOf, raced>>

Settled(l) ==
    /\ list' = [list EXCEPT ![l] = NoCall]
    /\ listBusy' = FALSE

Listed(l) ==
    /\ list[l].do = "list"
    /\ rowsOf' = list[l].for
    /\ Settled(l)
    /\ UNCHANGED <<panel, tab, draft, filter, pause, failed, overtaken, raced>>

\* The rows stay as they were, or are emptied, under the error.
ListFailed(l) ==
    /\ list[l].do \in {"list", "change"}
    /\ failed' = TRUE
    /\ Settled(l)
    /\ UNCHANGED <<panel, tab, draft, filter, pause, rowsOf, overtaken, raced>>

Changed(l) ==
    /\ list[l].do = "change"
    /\ list' = [list EXCEPT ![l].do = "list"]
    /\ UNCHANGED <<panel, tab, draft, filter, pause, rowsOf, failed, listBusy,
                   overtaken, raced>>

RowOpened(l) ==
    /\ list[l].do = "row"
    /\ Settled(l)
    /\ UNCHANGED <<panel, tab, draft, filter, pause, rowsOf, failed, overtaken, raced>>

---------------------------------------------------------------------------
(* The panels *)

Toolbar == (\E c \in Choices : Choose(c)) \/ (\E s \in Searches : TypeSearch(s))

DraftedPanel == Toolbar \/ ApplyFilters \/ ClearFilters \/ Refresh \/ OpenRow \/ ChangeRow

OrdersPanel  == panel = "orders"  /\ (DraftedPanel \/ \E t \in Choices \cup {WideTab} : ChangeTab(t))
DriversPanel == panel = "drivers" /\ (DraftedPanel \/ \E c \in Choices : ChangeTab(c))
CitiesPanel  == panel = "cities"  /\ DraftedPanel
TariffsPanel == panel = "tariffs" /\ DraftedPanel
UsersPanel   == panel = "users"   /\ (Toolbar \/ Refresh \/ ChangeRow)
ClientsPanel == panel = "clients" /\ (Toolbar \/ Refresh \/ OpenRow)
AuditPanel   == panel = "audit"   /\ (Toolbar \/ Refresh)
NotificationsPanel == panel = "notifications" /\ (Toolbar \/ Refresh \/ ChangeRow)

ListAnswered == \E l \in Lists : Listed(l) \/ ListFailed(l) \/ Changed(l) \/ RowOpened(l)

ListStep ==
    \/ OrdersPanel \/ DriversPanel \/ CitiesPanel \/ TariffsPanel
    \/ UsersPanel \/ ClientsPanel \/ AuditPanel \/ NotificationsPanel
    \/ CapturedPause \/ CurrentPause \/ ListAnswered
    \/ \E p \in Panels : ChooseSection(p)
================================================================================
