----------------------------- MODULE ScreenProofs -----------------------------
(***************************************************************************)
(* What the screens of MobileApp show and act on: the rows and the tab of  *)
(* the admin tables, and the order on the client's display with its sheet, *)
(* its rating and its form.  MobileProofs has the works behind them.       *)
(***************************************************************************)
EXTENDS MobileProofs

---------------------------------------------------------------------------
(* The tables of the admin desk.  Every action that changes the filters in *)
(* force asks for the rows at once, so unless calls overlap the one in     *)
(* flight carries the filters in force, and the rows are theirs when it    *)
(* ends.  A tab and the filters change together, except by the timer of a  *)
(* typed search, which brings back the filters of the moment of typing.    *)

ListCall == [do : {"idle", "list", "change", "row"}, for : Filter]

ListTyped ==
    /\ panel \in Panels /\ tab \in Choices \cup {WideTab}
    /\ draft \in Filter /\ filter \in Filter /\ rowsOf \in Filter
    /\ pause \in [on : BOOLEAN, base : Filter, search : Searches]
    /\ failed \in BOOLEAN /\ overtaken \in BOOLEAN /\ raced \in BOOLEAN
    /\ list \in [Lists -> ListCall]

\* One call for rows at most, with the filters in force; without one, the rows
\* are theirs.
RowsFollow ==
    /\ \A l, m \in Calling : l = m
    /\ \A l \in Calling : list[l].for = filter
    /\ Calling = {} /\ ~failed => rowsOf = filter

\* What the timer will bring back has the choice in force.
TabFollows ==
    /\ panel \in Tabbed /\ tab \notin {AnyChoice, WideTab} => filter.choice = tab
    /\ pause.on => pause.base.choice = filter.choice

ListInv ==
    /\ ListTyped
    /\ ~overtaken => RowsFollow
    /\ ~raced => TabFollows

LEMMA NoFilterTyped ==
    /\ NoFilter \in Filter /\ NoCall \in ListCall /\ NoCall.do = "idle"
    /\ NoPause \in [on : BOOLEAN, base : Filter, search : Searches] /\ ~NoPause.on
  BY AdminListsAssumption DEF NoFilter, Filter, NoCall, NoPause, ListCall

LEMMA FirstPauseTyped ==
    ASSUME NEW p
    PROVE  /\ FirstPause(p) \in [on : BOOLEAN, base : Filter, search : Searches]
           /\ FirstPause(p).base = NoFilter
  BY NoFilterTyped DEF FirstPause, NoPause

\* A call started with the filters that are in force after the step.
LEMMA CallSent ==
    ASSUME ListInv, NEW do \in {"list", "change"}, NEW f \in Filter, SendCall(do, f), filter' = f,
           UNCHANGED rowsOf
    PROVE  /\ list' \in [Lists -> ListCall] /\ failed' \in BOOLEAN /\ overtaken' \in BOOLEAN
           /\ ~overtaken' => RowsFollow'
<1>1. PICK l \in Lists : /\ list[l].do = "idle"
                         /\ list' = [list EXCEPT ![l] = [do |-> do, for |-> f]]
    BY DEF SendCall
<1>2. [do |-> do, for |-> f] \in ListCall
    BY DEF ListCall
<1>3. /\ list' \in [Lists -> ListCall]
      /\ list'[l].do = do /\ list'[l].for = f
      /\ \A m \in Lists \ {l} : list'[m] = list[m]
    BY <1>1, <1>2 DEF ListInv, ListTyped
<1>4. failed' = FALSE /\ overtaken' \in BOOLEAN /\ (~overtaken' => ~overtaken /\ Calling = {})
    BY DEF SendCall, ListInv, ListTyped
<1>5. ~overtaken' => Calling' = {l}
    BY <1>3, <1>4 DEF Calling
<1> QED BY <1>3, <1>4, <1>5 DEF RowsFollow

LEMMA CallEnded ==
    ASSUME ListInv, NEW l \in Lists, Settled(l)
    PROVE  /\ list' \in [Lists -> ListCall] /\ list'[l].do = "idle"
           /\ \A m \in Lists \ {l} : list'[m] = list[m]
  BY NoFilterTyped DEF Settled, ListInv, ListTyped

LEMMA ListStepKeeps == ASSUME ListInv, ListStep PROVE ListInv'
<1> USE AdminListsAssumption
<1>t. ListTyped
    BY DEF ListInv
<1>1. ASSUME LoadRows(filter) \/ SendCall("change", filter),
             UNCHANGED <<panel, tab, draft, filter, pause, rowsOf, raced>>
      PROVE  ListInv'
  <2>1. /\ list' \in [Lists -> ListCall] /\ failed' \in BOOLEAN /\ overtaken' \in BOOLEAN
        /\ ~overtaken' => RowsFollow'
    BY <1>t, <1>1, CallSent DEF LoadRows, ListTyped
  <2> QED BY <1>1, <2>1 DEF ListInv, ListTyped, TabFollows
<1>2. ASSUME NEW f \in Filter, NEW c \in Choices \cup {WideTab}, Install(f),
             UNCHANGED <<panel, rowsOf>>, draft' \in Filter,
             \/ tab' = c /\ (c \in {AnyChoice, WideTab} \/ f.choice = c)
             \/ tab' = tab /\ panel \notin Tabbed
             \/ tab' = tab /\ (tab \in {AnyChoice, WideTab} \/ f.choice = tab),
             pause' \in {pause, NoPause}
      PROVE  ListInv'
  <2>1. /\ list' \in [Lists -> ListCall] /\ failed' \in BOOLEAN /\ overtaken' \in BOOLEAN
        /\ ~overtaken' => RowsFollow'
    BY <1>2, CallSent DEF Install, LoadRows
  <2>2. filter' = f /\ raced' \in BOOLEAN /\ (~raced' => ~raced /\ ~pause.on)
    BY <1>t, <1>2 DEF Install, ListTyped
  <2>3. ~raced' => TabFollows'
    BY <1>2, <2>2, NoFilterTyped DEF TabFollows
  <2> QED BY <1>t, <1>2, <2>1, <2>2, <2>3, NoFilterTyped DEF ListInv, ListTyped
<1>3. ASSUME NEW t \in Choices \cup {WideTab}, ChangeTab(t) PROVE ListInv'
  <2> DEFINE c == StatusOf(t)
  <2>1. c \in Choices /\ (t \in {AnyChoice, WideTab} \/ c = t)
    BY DEF StatusOf
  <2> HIDE DEF c
  <2>2. /\ [filter EXCEPT !.choice = c] \in Filter /\ [filter EXCEPT !.choice = c].choice = c
        /\ [draft EXCEPT !.choice = c] \in Filter
    BY <1>t, <2>1 DEF ListTyped, Filter
  <2>3. /\ Install([filter EXCEPT !.choice = c]) /\ draft' = [draft EXCEPT !.choice = c]
        /\ tab' = t /\ UNCHANGED <<panel, pause, rowsOf>>
    BY <1>3 DEF ChangeTab, c
  <2> QED BY <1>2, <2>1, <2>2, <2>3
<1>4. ASSUME NEW c \in Choices, Choose(c) PROVE ListInv'
  <2>1. [filter EXCEPT !.choice = c] \in Filter /\ [draft EXCEPT !.choice = c] \in Filter
    BY <1>t DEF ListTyped, Filter
  <2>2. CASE panel \in Drafted
    BY <1>t, <1>4, <2>1, <2>2 DEF Choose, ListInv, ListTyped, RowsFollow, TabFollows, Calling
  <2>3. CASE panel \notin Drafted
    BY <1>t, <1>2, <1>4, <2>1, <2>3 DEF Choose, Drafted, Tabbed, ListTyped
  <2> QED BY <2>2, <2>3
<1>5. ASSUME NEW s \in Searches, TypeSearch(s) PROVE ListInv'
  <2>1. [draft EXCEPT !.search = s] \in Filter
    BY <1>t DEF ListTyped, Filter
  <2>2. /\ pause' \in [on : BOOLEAN, base : Filter, search : Searches]
        /\ pause' = pause \/ pause'.base = filter
    BY <1>t, <1>5 DEF TypeSearch, ListTyped
  <2> QED BY <1>t, <1>5, <2>1, <2>2 DEF TypeSearch, ListInv, ListTyped, RowsFollow, TabFollows,
            Calling
<1>6. CASE ApplyFilters
  <2>1. /\ AppliedFilter \in Filter
        /\ panel \in Tabbed /\ tab \notin {AnyChoice, WideTab} => AppliedFilter.choice = tab
    BY <1>t DEF AppliedFilter, ListTyped, Filter
  <2> QED BY <1>t, <1>2, <1>6, <2>1 DEF ApplyFilters, ListTyped
<1>7. CASE ClearFilters
    BY <1>t, <1>2, <1>7, NoFilterTyped DEF ClearFilters, ListTyped
<1>8. ASSUME NEW next \in Filter, filter' = next, LoadRows(next), pause.on, pause' = NoPause,
             \/ panel \in Drafted /\ next.choice = pause.base.choice
             \/ panel \notin Drafted,
             UNCHANGED <<panel, tab, draft, rowsOf, raced>>
      PROVE  ListInv'
  <2>1. /\ list' \in [Lists -> ListCall] /\ failed' \in BOOLEAN /\ overtaken' \in BOOLEAN
        /\ ~overtaken' => RowsFollow'
    BY <1>8, CallSent DEF LoadRows
  <2>2. ~raced => TabFollows'
    BY <1>8, NoFilterTyped DEF ListInv, TabFollows, Tabbed, Drafted
  <2> QED BY <1>t, <1>8, <2>1, <2>2, NoFilterTyped DEF ListInv, ListTyped
<1>9. CASE CapturedPause
  <2>1. CASE pause.search = pause.base.search
    BY <1>t, <1>9, <2>1, NoFilterTyped DEF CapturedPause, ListInv, ListTyped, RowsFollow,
            TabFollows, Calling
  <2>2. CASE pause.search # pause.base.search
    <3> DEFINE next == [pause.base EXCEPT !.search = pause.search]
    <3>1. next \in Filter /\ next.choice = pause.base.choice
      BY <1>t DEF ListTyped, Filter
    <3>2. filter' = next /\ LoadRows(next)
      BY <1>9, <2>2 DEF CapturedPause
    <3> HIDE DEF next
    <3> QED BY <1>8, <1>9, <3>1, <3>2 DEF CapturedPause
  <2> QED BY <2>1, <2>2
<1>10. CASE CurrentPause
  <2> DEFINE next == [filter EXCEPT !.search = pause.search]
  <2>1. next \in Filter
    BY <1>t DEF ListTyped, Filter
  <2>2. CASE UNCHANGED <<filter, failed, listBusy, list, overtaken>>
    BY <1>t, <1>10, <2>2, NoFilterTyped DEF CurrentPause, ListInv, ListTyped, RowsFollow,
            TabFollows, Calling
  <2>3. CASE filter' = next /\ LoadRows(next)
    <3> HIDE DEF next
    <3> QED BY <1>8, <1>10, <2>1, <2>3 DEF CurrentPause
  <2> QED BY <1>10, <2>2, <2>3 DEF CurrentPause
<1>11. ASSUME NEW l \in Lists, Listed(l) \/ ListFailed(l) PROVE ListInv'
  <2>1. /\ list' \in [Lists -> ListCall] /\ list'[l].do = "idle"
        /\ \A m \in Lists \ {l} : list'[m] = list[m]
    BY <1>11, CallEnded DEF Listed, ListFailed
  <2>2. list[l].for \in Filter
    BY <1>t DEF ListTyped, ListCall
  <2>3. l \in Calling /\ (rowsOf' = list[l].for \/ (rowsOf' = rowsOf /\ failed'))
    BY <1>11 DEF Listed, ListFailed, Calling
  <2>4. UNCHANGED <<panel, tab, draft, filter, pause, overtaken, raced>>
        /\ failed' \in {failed, TRUE}
    BY <1>11 DEF Listed, ListFailed
  <2>5. ~overtaken => RowsFollow'
    BY <2>1, <2>3, <2>4 DEF ListInv, RowsFollow, Calling
  <2> QED BY <1>t, <2>1, <2>2, <2>3, <2>4, <2>5 DEF ListInv, ListTyped, TabFollows
<1>12. ASSUME NEW l \in Lists, Changed(l) PROVE ListInv'
  <2>1. /\ list' \in [Lists -> ListCall]
        /\ list'[l].do = "list" /\ list'[l].for = list[l].for
        /\ \A m \in Lists \ {l} : list'[m] = list[m]
    BY <1>t, <1>12 DEF Changed, ListTyped, ListCall
  <2>2. Calling' = Calling
    BY <1>12, <2>1 DEF Calling, Changed
  <2>3. ~overtaken => RowsFollow'
    BY <1>12, <2>1, <2>2 DEF Changed, ListInv, RowsFollow, Calling
  <2> QED BY <1>t, <1>12, <2>1, <2>3 DEF Changed, ListInv, ListTyped, TabFollows
<1>13. ASSUME NEW p \in Panels, ChooseSection(p) PROVE ListInv'
  <2>1. list' = FirstCall
    BY <1>13 DEF ChooseSection
  <2>2. /\ FirstCall \in [Lists -> ListCall]
        /\ \A l, m \in Lists : FirstCall[l].do # "idle" /\ FirstCall[m].do # "idle" => l = m
        /\ \A l \in Lists : FirstCall[l].do \in {"idle", "list"}
        /\ \A l \in Lists : FirstCall[l].for = NoFilter
    BY NoFilterTyped DEF FirstCall, NoCall, ListCall
  <2> QED BY <1>13, <2>1, <2>2, NoFilterTyped, FirstPauseTyped DEF ChooseSection, ListInv, ListTyped, RowsFollow,
            TabFollows, Calling
<1>14. CASE Refresh \/ ChangeRow
    BY <1>1, <1>14 DEF Refresh, ChangeRow
<1>open. CASE OpenRow
  <2>1. PICK l \in Lists : list[l].do = "idle" /\ list' = [list EXCEPT ![l].do = "row"]
    BY <1>open DEF OpenRow
  <2>2. list' \in [Lists -> ListCall] /\ Calling' = Calling /\ \A m \in Calling : list'[m] = list[m]
    BY <1>t, <2>1 DEF ListTyped, ListCall, Calling
  <2> QED BY <1>t, <1>open, <2>2 DEF OpenRow, ListInv, ListTyped, RowsFollow, TabFollows
<1>opened. ASSUME NEW l \in Lists, RowOpened(l) PROVE ListInv'
  <2>1. /\ list' \in [Lists -> ListCall] /\ list'[l].do = "idle"
        /\ \A m \in Lists \ {l} : list'[m] = list[m]
    BY <1>opened, CallEnded DEF RowOpened
  <2>2. Calling' = Calling /\ \A m \in Calling : list'[m] = list[m]
    BY <1>opened, <2>1 DEF RowOpened, Calling
  <2> QED BY <1>t, <1>opened, <2>1, <2>2 DEF RowOpened, ListInv, ListTyped, RowsFollow, TabFollows
<1>15. CASE Toolbar
    BY <1>4, <1>5, <1>15 DEF Toolbar
<1>16. CASE DraftedPanel
    BY <1>6, <1>7, <1>14, <1>15, <1>16, <1>open DEF DraftedPanel
<1>17. CASE OrdersPanel \/ DriversPanel \/ CitiesPanel \/ TariffsPanel
    BY <1>3, <1>16, <1>17 DEF OrdersPanel, DriversPanel, CitiesPanel, TariffsPanel
<1>18. CASE UsersPanel \/ ClientsPanel \/ AuditPanel \/ NotificationsPanel
    BY <1>14, <1>15, <1>18, <1>open DEF UsersPanel, ClientsPanel, AuditPanel, NotificationsPanel
<1>19. CASE ListAnswered
    BY <1>11, <1>12, <1>19, <1>opened DEF ListAnswered
<1> QED BY <1>9, <1>10, <1>13, <1>17, <1>18, <1>19 DEF ListStep

LEMMA ListsInv == Spec => []ListInv
<1>1. Init => ListInv
  <2> SUFFICES ASSUME ListInit PROVE ListInv
    BY DEF Init
  <2>1. /\ FirstCall \in [Lists -> ListCall]
        /\ \A l, m \in Lists : FirstCall[l].do # "idle" /\ FirstCall[m].do # "idle" => l = m
        /\ \A l \in Lists : FirstCall[l].do \in {"idle", "list"}
        /\ \A l \in Lists : FirstCall[l].for = NoFilter
    BY NoFilterTyped DEF FirstCall, NoCall, ListCall
  <2> QED BY <2>1, NoFilterTyped, FirstPauseTyped, AdminListsAssumption
          DEF ListInit, ListInv, ListTyped, RowsFollow, TabFollows, Calling
<1>2. ListInv /\ [Next]_vars => ListInv'
  <2> SUFFICES ASSUME ListInv, [Next]_vars PROVE ListInv'
    OBVIOUS
  <2>1. CASE UNCHANGED listVars
    BY <2>1 DEF listVars, ListInv, ListTyped, RowsFollow, TabFollows, Calling
  <2> QED BY <2>1, ListStepKeeps DEF Next, App, AdminTables, AdminDrawers, AdminPage, vars
<1> QED BY <1>1, <1>2, PTL DEF Spec

\* When the calls have settled the rows shown are those of the filters in force,
\* for any filters and any number of calls, unless two calls for rows overlapped
\* or the last one failed (loadOrders, loadDrivers, loadCities, loadTariffs, load).
THEOREM RowsFollowFilter == Spec => []RowsMatchFilter
<1>1. ListInv => RowsMatchFilter
    BY DEF ListInv, RowsFollow, RowsMatchFilter
<1> QED BY <1>1, ListsInv, PTL

\* The tab that is lit, when it stands for one status, is the status the rows are
\* asked by, for any choices and searches, unless the filters changed during the
\* pause of a typed search; the orders panel's tab of two statuses is excepted
\* (changeTab, applyFilters and the timers of the orders and drivers panels).
THEOREM TabFollowsFilter == Spec => []TabMatchesFilter
<1>1. ListInv => TabMatchesFilter
    BY DEF ListInv, TabFollows, TabMatchesFilter
<1> QED BY <1>1, ListsInv, PTL

---------------------------------------------------------------------------
(* The client's screens.  Unless the user went on while an order work was  *)
(* in flight, the one work is about the order its screen shows; the order  *)
(* selected is the order on display wherever an order is acted on, and     *)
(* differs from it only after a new order was published, or while the      *)
(* next one is opened.                                                     *)

InFlight(w) == job[w].do \notin {"idle", "load"}
OneInFlight == \A v, w \in Works : InFlight(v) /\ InFlight(w) => v = w

OnDisplay == {"client-order-detail", "client-bids", "client-dispute", "client-rating"}

SameOrder == selected = detail.of

\* What a work is about, until its last answer.
Fits(do, of) ==
    /\ do = "upload" => of = editing
    /\ do \in {"update", "create", "publish"} =>
          screen = "client-order-review" /\ sheet = NoSheet
    /\ do \in {"notice", "notice-bids"} => screen = "client-notifications" /\ sheet = NoSheet
    /\ do \in {"open", "open-bids", "bids", "select-driver", "dispute"} => of = selected
    /\ do \in {"bids", "reload-detail", "confirm-delivery", "dispute"} => SameOrder

WorkFits(w) == Fits(job[w].do, job[w].of)

\* What the screen shows, whatever is in flight.
ScreenFits ==
    /\ screen \in OnDisplay => SameOrder
    /\ screen = "client-bids" => bidsOf = selected
    /\ sheet # NoSheet => SameOrder /\ sheet.of = selected
    /\ form.photo \in {"missing", editing}

\* A display that lags behind the selection offers nothing to edit.
LagsBehind ==
    SameOrder \/ editing = None \/ \E w \in Works : job[w].do \in {"open", "open-bids"}

ClientShaped ==
    /\ chosen \in Role
    /\ form = [of |-> form.of, route |-> form.route, photo |-> form.photo]
    /\ form.of = editing
    /\ chosen = "driver" => /\ editing = None /\ form = EmptyForm
                            /\ detail = NoDetail /\ selected = None /\ bidsOf = None
                            /\ sheet = NoSheet

ClientInv ==
    /\ ClientShaped
    /\ ~disturbed => /\ OneInFlight /\ ScreenFits /\ LagsBehind
                     /\ chosen = "client" => \A w \in Works : WorkFits(w)

LEMMA StillFits == ASSUME ClientInv, UNCHANGED <<shell, clientVars>> PROVE ClientInv'
  BY DEF ClientInv, ClientShaped, OneInFlight, InFlight, ScreenFits, SameOrder, LagsBehind,
         WorkFits, Fits, shell, clientVars

LEMMA AllowedIsAsked ==
    ASSUME NEW next, NEW in, chosen \in Role, Allowed(next, in) \in OnDisplay
    PROVE  Allowed(next, in) = next
  BY DEF Allowed, HomeOf, OnDisplay, Role

\* A step of the user, undisturbed, finds nothing in flight and leaves nothing.
LEMMA WentAlone ==
    ASSUME ClientInv, WorksShaped, NEW next, Go(next), ~disturbed'
    PROVE  /\ ~disturbed /\ chosen' = chosen /\ screen' = Allowed(next, signedIn)
           /\ \A w \in Works : ~InFlight(w) /\ ~InFlight(w)'
<1>1. ~disturbed /\ Pending = {} /\ chosen' = chosen /\ screen' = Allowed(next, signedIn)
    BY DEF Go, Show
<1>2. \A w \in Works : ~InFlight(w)
    BY <1>1 DEF Pending, InFlight
<1>3. \A w \in Works : job'[w] = job[w] \/ job'[w] = Load
    BY DEF Go, WorksShaped
<1> QED BY <1>1, <1>2, <1>3, IdleShaped DEF InFlight

LEMMA GoFits ==
    ASSUME ClientInv, WorksShaped, NEW next, Go(next), ClientShaped',
           ~disturbed' => ScreenFits' /\ (SameOrder' \/ editing' = None)
    PROVE  ClientInv'
<1>1. ~disturbed' => \A w \in Works : ~InFlight(w)'
    BY WentAlone
<1> QED BY <1>1 DEF ClientInv, OneInFlight, LagsBehind, InFlight, WorkFits, Fits

\* Going to a screen that acts on an order: from another one, or from an order
\* that is being edited.
LEMMA VisitFits ==
    ASSUME ClientInv, WorksShaped, NEW next, Go(next), UNCHANGED clientVars,
           next # "client-bids",
           next \in OnDisplay => screen \in OnDisplay \/ editing # None
    PROVE  ClientInv'
<1>1. ClientShaped'
    BY DEF Go, ClientInv, ClientShaped, clientVars
<1>2. ASSUME ~disturbed' PROVE ScreenFits' /\ (SameOrder' \/ editing' = None)
  <2>1. /\ ~disturbed /\ screen' = Allowed(next, signedIn)
        /\ \A w \in Works : ~InFlight(w)
    BY <1>2, WentAlone
  <2>2. SameOrder \/ editing = None
    BY <2>1 DEF ClientInv, LagsBehind, InFlight
  <2>3. ScreenFits /\ chosen \in Role
    BY <2>1 DEF ClientInv, ClientShaped
  <2>4. screen' \in OnDisplay => screen' = next
    BY <2>1, <2>3, AllowedIsAsked
  <2>5. screen' \in OnDisplay => SameOrder
    BY <2>2, <2>3, <2>4 DEF ScreenFits
  <2> QED BY <2>2, <2>3, <2>4, <2>5 DEF ScreenFits, SameOrder, clientVars, OnDisplay
<1> QED BY <1>1, <1>2, GoFits

\* A work started undisturbed is the only one.
LEMMA RanAlone ==
    ASSUME ClientInv, WorksShaped, NEW do, NEW o, Run(do, o), ~disturbed'
    PROVE  /\ ~disturbed /\ chosen' = chosen /\ screen' = screen
           /\ \A w \in Works : ~InFlight(w)
           /\ \E w \in Works : /\ job'[w].do = do /\ job'[w].of = o
                               /\ \A v \in Works \ {w} : ~InFlight(v)'
<1>1. ~disturbed /\ Pending = {} /\ chosen' = chosen /\ screen' = screen
    BY DEF Run
<1>2. \A w \in Works : ~InFlight(w)
    BY <1>1 DEF Pending, InFlight
<1>3. PICK w \in Works : job' = [job EXCEPT ![w] = Work(do, o)]
    BY DEF Run
<1>4. job'[w] = Work(do, o) /\ \A v \in Works \ {w} : job'[v] = job[v]
    BY <1>3 DEF WorksShaped
<1> QED BY <1>1, <1>2, <1>4, IdleShaped DEF InFlight

LEMMA StartFits ==
    ASSUME ClientInv, WorksShaped, NEW do, NEW o, Run(do, o), UNCHANGED clientVars,
           chosen = "client" /\ ~disturbed /\ ScreenFits => Fits(do, o)
    PROVE  ClientInv'
<1>1. ClientShaped'
    BY DEF Run, ClientInv, ClientShaped, clientVars
<1>2. ASSUME ~disturbed' PROVE /\ OneInFlight' /\ ScreenFits' /\ LagsBehind'
                               /\ chosen' = "client" => \A w \in Works : WorkFits(w)'
  <2>1. PICK w \in Works : /\ job'[w].do = do /\ job'[w].of = o
                           /\ \A v \in Works \ {w} : ~InFlight(v)'
    BY <1>2, RanAlone
  <2>2. /\ ~disturbed /\ chosen' = chosen /\ screen' = screen
        /\ \A v \in Works : ~InFlight(v)
    BY <1>2, RanAlone
  <2>3. OneInFlight'
    BY <2>1 DEF OneInFlight
  <2>4. ScreenFits'
    BY <2>2 DEF ClientInv, ScreenFits, SameOrder, clientVars
  <2>5. LagsBehind'
    BY <2>2 DEF ClientInv, LagsBehind, InFlight, SameOrder, clientVars
  <2>6. ASSUME chosen = "client", NEW v \in Works PROVE WorkFits(v)'
    <3>1. CASE v = w
      BY <2>1, <2>2, <2>6, <3>1 DEF ClientInv, WorkFits, Fits, SameOrder, clientVars
    <3>2. CASE v # w
      BY <2>1, <3>2 DEF InFlight, WorkFits, Fits
    <3> QED BY <3>1, <3>2
  <2> QED BY <2>2, <2>3, <2>4, <2>5, <2>6
<1> QED BY <1>1, <1>2 DEF ClientInv

\* An order is opened from a list, or from its own detail.
LEMMA OpenFits ==
    ASSUME ClientInv, WorksShaped, chosen = "client", sheet = NoSheet,
           NEW do \in {"open", "open-bids"}, NEW o, Open(do, o),
           screen \in OnDisplay => screen = "client-order-detail" /\ o = detail.of
    PROVE  ClientInv'
<1>1. ClientShaped'
    BY DEF Open, Run, ClientInv, ClientShaped, formVars
<1>2. ASSUME ~disturbed' PROVE /\ OneInFlight' /\ ScreenFits' /\ LagsBehind'
                               /\ \A w \in Works : WorkFits(w)'
  <2>1. PICK w \in Works : /\ job'[w].do = do /\ job'[w].of = o
                           /\ \A v \in Works \ {w} : ~InFlight(v)'
    BY <1>2, RanAlone DEF Open
  <2>2. /\ ~disturbed /\ chosen' = chosen /\ screen' = screen
        /\ \A v \in Works : ~InFlight(v)
    BY <1>2, RanAlone DEF Open
  <2>3. UNCHANGED <<editing, form, detail, bidsOf, sheet>> /\ selected' = o
    BY DEF Open, formVars
  <2>4. OneInFlight'
    BY <2>1 DEF OneInFlight
  <2>5. ScreenFits'
    BY <2>2, <2>3 DEF ClientInv, ScreenFits, SameOrder, OnDisplay
  <2>6. LagsBehind'
    BY <2>1 DEF LagsBehind
  <2>7. \A v \in Works : WorkFits(v)'
    BY <2>1, <2>3 DEF InFlight, WorkFits, Fits
  <2> QED BY <2>4, <2>5, <2>6, <2>7
<1> QED BY <1>1, <1>2 DEF ClientInv

\* An answer to the only work, which ends it or takes it further.
LEMMA AnswerFits ==
    ASSUME ClientInv, NEW w \in Works, InFlight(w), ClientShaped', chosen' = chosen,
           disturbed => disturbed',
           \A v \in Works \ {w} : InFlight(v)' => InFlight(v),
           ~disturbed' => /\ ScreenFits'
                          /\ (SameOrder' \/ editing' = None \/ job'[w].do \in {"open", "open-bids"})
                          /\ chosen = "client" => WorkFits(w)'
    PROVE  ClientInv'
<1>1. ASSUME ~disturbed' PROVE \A v \in Works \ {w} : ~InFlight(v)'
    BY <1>1 DEF ClientInv, OneInFlight
<1>2. ~disturbed' => OneInFlight' /\ LagsBehind'
    BY <1>1 DEF OneInFlight, LagsBehind
<1>3. ~disturbed' /\ chosen = "client" => \A v \in Works : WorkFits(v)'
    BY <1>1 DEF InFlight, WorkFits, Fits
<1> QED BY <1>2, <1>3 DEF ClientInv

LEMMA LowerEffect ==
    ASSUME WorksShaped, NEW w \in Works, NEW loads, Lower(w, loads)
    PROVE  /\ job'[w].do \in {"idle", "load"} /\ ~InFlight(w)'
           /\ \A v \in Works \ {w} : job'[v] = job[v]
  BY IdleShaped DEF Lower, LowerFrom, WorksShaped, InFlight

LEMMA ContinueEffect ==
    ASSUME WorksShaped, NEW w \in Works, NEW do, Continue(w, do)
    PROVE  /\ job'[w].do = do /\ job'[w].of = job[w].of
           /\ \A v \in Works \ {w} : job'[v] = job[v]
           /\ UNCHANGED <<chosen, screen, disturbed>>
  BY DEF Continue, WorksShaped

\* The order of a work that ends no longer lags behind.
LEMMA Unlagged ==
    ASSUME ClientInv, ~disturbed, NEW w \in Works, InFlight(w),
           job[w].do \notin {"open", "open-bids"}
    PROVE  SameOrder \/ editing = None
  BY DEF ClientInv, LagsBehind, OneInFlight, InFlight

\* A work ends where it is, and leaves the client's variables alone.
LEMMA EndsHereFits ==
    ASSUME ClientInv, WorksShaped, NEW w \in Works, InFlight(w),
           job[w].do \notin {"open", "open-bids"},
           Lower(w, FALSE), UNCHANGED <<clientVars, chosen, screen, disturbed>>
    PROVE  ClientInv'
<1>1. job'[w].do \in {"idle", "load"} /\ \A v \in Works \ {w} : job'[v] = job[v]
    BY LowerEffect
<1>2. ClientShaped' /\ (~disturbed => ScreenFits')
    BY <1>1 DEF ClientInv, ClientShaped, ScreenFits, SameOrder, clientVars
<1>3. ~disturbed => SameOrder' \/ editing' = None
    BY <1>1, Unlagged DEF SameOrder, clientVars
<1>4. WorkFits(w)'
    BY <1>1 DEF WorkFits, Fits
<1> QED BY <1>1, <1>2, <1>3, <1>4, AnswerFits DEF InFlight

LEMMA EndFits ==
    ASSUME ClientInv, WorksShaped, NEW w \in Works, InFlight(w),
           job[w].do \notin {"open", "open-bids"}, End(w), UNCHANGED clientVars
    PROVE  ClientInv'
  BY EndsHereFits DEF End

\* A work ends at a screen; at one that acts on an order, the order selected is
\* the one on display.
LEMMA EndsThereFits ==
    ASSUME ClientInv, WorksShaped, NEW w \in Works, InFlight(w), NEW next, NEW in, NEW loads,
           Show(next, in), Lower(w, loads), UNCHANGED <<chosen, disturbed>>, ClientShaped',
           UNCHANGED <<editing, form, selected>>, sheet' \in {sheet, NoSheet},
           ~disturbed => /\ next \in OnDisplay => SameOrder'
                         /\ next = "client-bids" => bidsOf' = selected
                         /\ SameOrder' \/ editing = None
                         /\ SameOrder => SameOrder'
    PROVE  ClientInv'
<1>1. /\ job'[w].do \in {"idle", "load"} /\ \A v \in Works \ {w} : job'[v] = job[v]
      /\ screen' = Allowed(next, in)
    BY LowerEffect DEF Show
<1>2. screen' \in OnDisplay => screen' = next
    BY <1>1, AllowedIsAsked DEF ClientInv, ClientShaped
<1>3. ~disturbed => ScreenFits'
    BY <1>2 DEF ClientInv, ScreenFits, OnDisplay
<1>4. WorkFits(w)'
    BY <1>1 DEF WorkFits, Fits
<1> QED BY <1>1, <1>3, <1>4, AnswerFits DEF InFlight

LEMMA EndAtFits ==
    ASSUME ClientInv, WorksShaped, NEW w \in Works, InFlight(w), NEW next, NEW in,
           EndAt(w, next, in), ClientShaped',
           UNCHANGED <<editing, form, selected>>, sheet' \in {sheet, NoSheet},
           ~disturbed => /\ next \in OnDisplay => SameOrder'
                         /\ next = "client-bids" => bidsOf' = selected
                         /\ SameOrder' \/ editing = None
                         /\ SameOrder => SameOrder'
    PROVE  ClientInv'
  BY EndsThereFits DEF EndAt

\* A work goes on to its next call.
LEMMA ContinueFits ==
    ASSUME ClientInv, WorksShaped, NEW w \in Works, InFlight(w), NEW do, Continue(w, do),
           ClientShaped',
           ~disturbed => /\ ScreenFits'
                         /\ SameOrder' \/ editing' = None \/ do \in {"open", "open-bids"}
                         /\ chosen = "client" => WorkFits(w)'
    PROVE  ClientInv'
<1>1. /\ job'[w].do = do /\ \A v \in Works \ {w} : job'[v] = job[v]
      /\ UNCHANGED <<chosen, disturbed>>
    BY ContinueEffect
<1> QED BY <1>1, AnswerFits DEF InFlight

---------------------------------------------------------------------------
(* The steps of the client *)

LEMMA WizardFits == ASSUME ClientInv, WorksShaped, Wizard PROVE ClientInv'
<1>1. ASSUME NEW next \in {"client-home", "client-orders", "client-notifications", "client-profile",
                           "client-location-selector", "client-district-selector",
                           "client-route-summary", "client-order-address", "client-order-photo",
                           "client-order-review"},
             Visit(next)
      PROVE  ClientInv'
    BY <1>1, VisitFits DEF Visit, OnDisplay
<1>2. ASSUME Visit("client-order-detail"), editing # None PROVE ClientInv'
    BY <1>2, VisitFits DEF Visit, OnDisplay
\* The form may lose its route; nothing else of it changes.
<1>3. ASSUME NEW both, form' = [form EXCEPT !.route = both] \/ form' = form,
             UNCHANGED <<editing, display, sheet>>
      PROVE  /\ form' = [of |-> form'.of, route |-> form'.route, photo |-> form'.photo]
             /\ form'.of = form.of /\ form'.photo = form.photo
    BY <1>3 DEF ClientInv, ClientShaped
<1>4. ASSUME NEW next, Go(next), next \notin OnDisplay, chosen = "client",
             UNCHANGED <<editing, display, sheet>>,
             /\ form' = [of |-> form'.of, route |-> form'.route, photo |-> form'.photo]
             /\ form'.of = form.of /\ form'.photo = form.photo
      PROVE  ClientInv'
  <2>1. ClientShaped'
    BY <1>4 DEF Go, ClientInv, ClientShaped
  <2>2. ASSUME ~disturbed' PROVE ScreenFits' /\ (SameOrder' \/ editing' = None)
    <3>1. /\ ~disturbed /\ screen' = Allowed(next, signedIn)
          /\ \A w \in Works : ~InFlight(w)
      BY <1>4, <2>2, WentAlone
    <3>2. screen' \notin OnDisplay
      BY <1>4, <3>1, AllowedIsAsked DEF ClientInv, ClientShaped
    <3>3. SameOrder \/ editing = None
      BY <3>1 DEF ClientInv, LagsBehind, InFlight
    <3> QED BY <1>4, <3>1, <3>2, <3>3 DEF ClientInv, ScreenFits, SameOrder, display, OnDisplay
  <2> QED BY <1>4, <2>1, <2>2, GoFits
<1>5. ASSUME UNCHANGED <<shell, editing, display, sheet>>, chosen = "client",
             /\ form' = [of |-> form'.of, route |-> form'.route, photo |-> form'.photo]
             /\ form'.of = form.of /\ form'.photo = form.photo
      PROVE  ClientInv'
    BY <1>5 DEF ClientInv, ClientShaped, OneInFlight, InFlight, ScreenFits, SameOrder, LagsBehind,
            WorkFits, Fits, shell, display
<1>6. ASSUME CancelEditing, chosen = "client" PROVE ClientInv'
  <2>1. editing # None /\ editing' = None /\ form' = EmptyForm /\ Go("client-order-detail")
        /\ UNCHANGED <<display, sheet>>
    BY <1>6 DEF CancelEditing, ResetOrderDraft
  <2>2. ClientShaped'
    BY <1>6, <2>1 DEF Go, ClientInv, ClientShaped, EmptyForm
  <2>3. ASSUME ~disturbed' PROVE ScreenFits'
    <3>1. /\ ~disturbed /\ screen' = Allowed("client-order-detail", signedIn)
          /\ \A w \in Works : ~InFlight(w)
      BY <2>1, <2>3, WentAlone
    <3>2. screen' # "client-bids"
      BY <3>1 DEF Allowed, HomeOf
    <3>3. SameOrder
      BY <2>1, <3>1 DEF ClientInv, LagsBehind, InFlight
    <3> QED BY <2>1, <3>1, <3>2, <3>3 DEF ClientInv, ScreenFits, SameOrder, display, EmptyForm
  <2> QED BY <2>1, <2>2, <2>3, GoFits
<1>7. CASE Home
    BY <1>1, <1>7 DEF Home, BottomNav
<1>8. CASE LocationSelector \/ DistrictSelector
  <2>1. ASSUME SelectCity, chosen = "client" PROVE ClientInv'
    BY <1>3, <1>4, <1>5, <2>1 DEF SelectCity, OnDisplay
  <2>2. ASSUME SelectDistrict, chosen = "client" PROVE ClientInv'
    BY <1>3, <1>5, <2>2 DEF SelectDistrict
  <2> QED BY <1>1, <1>8, <2>1, <2>2 DEF LocationSelector, DistrictSelector, On
<1>9. CASE MapPicker
  <2>1. chosen = "client" /\ UNCHANGED <<editing, display, sheet>>
    BY <1>9 DEF MapPicker
  <2>2. CASE UNCHANGED <<shell, form>>
    BY <1>3, <1>5, <2>1, <2>2
  <2>3. CASE ~UNCHANGED <<shell, form>>
    <3>1. PICK both \in BOOLEAN :
              /\ form' = [form EXCEPT !.route = both]
              /\ Go(IF both THEN "client-route-summary" ELSE "client-home")
      BY <1>9, <2>3 DEF MapPicker
    <3> QED BY <1>3, <1>4, <2>1, <3>1 DEF OnDisplay
  <2> QED BY <2>2, <2>3
<1>10. CASE RouteSummary
    BY <1>1, <1>2, <1>6, <1>10 DEF RouteSummary, On
<1>11. CASE OrderAddress
    BY <1>1, <1>11 DEF OrderAddress
<1>12. CASE OrderPhoto
  <2>1. Fits("upload", form.of)
    BY DEF Fits, ClientInv, ClientShaped
  <2> QED BY <1>1, <1>12, <2>1, StartFits DEF OrderPhoto, Start
<1>13. CASE OrderReview
  <2>1. ASSUME Publish, screen = "client-order-review", sheet = NoSheet PROVE ClientInv'
    <3>1. \A do \in {"update", "create"}, o \in {editing, None} : Fits(do, o)
      BY <2>1 DEF Fits
    <3> QED BY <2>1, <3>1, StartFits DEF Publish, Start
  <2> QED BY <1>1, <1>13, <2>1 DEF OrderReview, On
<1> QED BY <1>7, <1>8, <1>9, <1>10, <1>11, <1>12, <1>13 DEF Wizard

LEMMA OrderScreensFit == ASSUME ClientInv, WorksShaped, SheetAsks, OrderScreens PROVE ClientInv'
<1>1. ASSUME NEW next \in {"client-home", "client-orders", "client-notifications",
                            "client-profile"},
             Visit(next)
      PROVE  ClientInv'
    BY <1>1, VisitFits DEF Visit, OnDisplay
<1>2. ASSUME NEW next \in {"client-order-detail", "client-dispute"}, Visit(next),
             screen \in OnDisplay
      PROVE  ClientInv'
    BY <1>2, VisitFits DEF Visit
\* The sheet opens over the order on display.
<1>3. ASSUME NEW kind, NEW o, Ask(kind, o), chosen = "client",
             ~disturbed => SameOrder /\ o = selected /\ screen \in OnDisplay
      PROVE  ClientInv'
  <2>1. sheet'.of = o /\ UNCHANGED <<shell, editing, form, detail, selected, bidsOf>>
    BY <1>3 DEF Ask, formVars, display
  <2>2. ClientShaped'
    BY <1>3, <2>1 DEF ClientInv, ClientShaped, shell
  <2>3. ASSUME ~disturbed PROVE ScreenFits' /\ LagsBehind'
    BY <1>3, <2>1, <2>3 DEF ClientInv, ScreenFits, LagsBehind, SameOrder, shell
  <2>4. ASSUME ~disturbed, NEW w \in Works PROVE WorkFits(w)'
    BY <1>3, <2>1, <2>4 DEF ClientInv, WorkFits, Fits, SameOrder, OnDisplay, shell
  <2> QED BY <2>1, <2>2, <2>3, <2>4 DEF ClientInv, OneInFlight, InFlight, shell
<1>4. ASSUME BeginEditOrder, On("client-order-detail") PROVE ClientInv'
  <2>1. PICK photo \in {"missing", detail.of} :
            form' = [of |-> detail.of, route |-> TRUE, photo |-> photo]
    BY <1>4 DEF BeginEditOrder
  <2>2. editing' = detail.of /\ Go("client-route-summary") /\ UNCHANGED <<display, sheet>>
    BY <1>4 DEF BeginEditOrder
  <2>3. ClientShaped'
    BY <1>4, <2>1, <2>2 DEF Go, On, ClientInv, ClientShaped
  <2>4. ASSUME ~disturbed' PROVE ScreenFits' /\ SameOrder'
    <3>1. ~disturbed /\ screen' = Allowed("client-route-summary", signedIn)
      BY <2>2, <2>4, WentAlone
    <3>2. screen' # "client-bids"
      BY <3>1 DEF Allowed, HomeOf
    <3> QED BY <1>4, <2>1, <2>2, <3>1, <3>2
            DEF On, OnDisplay, ClientInv, ScreenFits, SameOrder, display
  <2> QED BY <2>2, <2>3, <2>4, GoFits
<1>5. CASE Success \/ Profile
    BY <1>1, <1>5, StartFits DEF Success, Profile, BottomNav, Start, Fits
<1>6. CASE OrdersList
    BY <1>1, <1>6, OpenFits DEF OrdersList, BottomNav, On, OnDisplay
<1>7. CASE OrderDetail
  <2>1. On("client-order-detail")
    BY <1>7 DEF OrderDetail
  <2>2. ~disturbed => SameOrder /\ screen \in OnDisplay
    BY <2>1 DEF On, OnDisplay, ClientInv, ScreenFits
  <2>3. ASSUME NEW kind, Ask(kind, detail.of) PROVE ClientInv'
    BY <1>3, <2>1, <2>2, <2>3 DEF On, SameOrder
  <2>4. ASSUME Open("open-bids", detail.of) PROVE ClientInv'
    BY <2>1, <2>4, OpenFits DEF On
  <2> QED BY <1>1, <1>2, <1>4, <1>7, <2>1, <2>3, <2>4 DEF OrderDetail, On, OnDisplay
<1>8. CASE Bids
  <2>1. ~disturbed => SameOrder /\ bidsOf = selected /\ screen \in OnDisplay
    BY <1>8 DEF Bids, On, OnDisplay, ClientInv, ScreenFits
  <2>2. ASSUME Ask("select-driver", bidsOf) PROVE ClientInv'
    BY <1>3, <1>8, <2>1, <2>2 DEF Bids, On
  <2> QED BY <1>2, <1>8, <2>2 DEF Bids, On, OnDisplay
<1>9. CASE ConfirmSheet
  <2>1. CASE sheet' = NoSheet /\ UNCHANGED <<shell, formVars, display, picker>>
    BY <1>9, <2>1 DEF ConfirmSheet, ClientInv, ClientShaped, OneInFlight, InFlight, ScreenFits,
            SameOrder, LagsBehind, WorkFits, Fits, shell, formVars, display
  <2>2. ASSUME ScreenFits, sheet # NoSheet
        PROVE  Fits(sheet.kind, IF sheet.kind = "select-driver" THEN selected ELSE detail.of)
    BY <2>2 DEF ScreenFits, SameOrder, Fits, SheetAsks
  <2> QED BY <1>9, <2>1, <2>2, StartFits DEF ConfirmSheet, Start
<1>10. CASE Rating
    BY <1>1, <1>10, StartFits DEF Rating, Start, Fits
<1>11. CASE Dispute
  <2>1. ASSUME ScreenFits PROVE Fits("dispute", detail.of)
    BY <1>11, <2>1 DEF Dispute, On, OnDisplay, ScreenFits, SameOrder, Fits
  <2> QED BY <1>2, <1>11, <2>1, StartFits DEF Dispute, On, OnDisplay, Start
<1>12. CASE Notifications
  <2>1. ASSUME NEW o, NEW to \in {"notice", "notice-bids"}, Start(to, o) PROVE ClientInv'
    BY <1>12, <2>1, StartFits DEF Notifications, On, Fits, Start
  <2> QED BY <1>1, <1>12, <2>1 DEF Notifications, BottomNav
<1>13. CASE NothingFound
    BY <1>1, <1>13 DEF NothingFound
<1> QED BY <1>5, <1>6, <1>7, <1>8, <1>9, <1>10, <1>11, <1>12, <1>13 DEF OrderScreens

\* The answers to the works of the client.
LEMMA AnsweredFits == ASSUME ClientInv, WorksShaped, NEW w \in Works, Answered(w) PROVE ClientInv'
<1>0. chosen = "client" /\ InFlight(w)
    BY DEF Answered, Pending, InFlight
<1>1. ~disturbed => ScreenFits /\ WorkFits(w)
    BY <1>0 DEF ClientInv
<1>2. ~disturbed /\ job[w].do \notin {"open", "open-bids"} => SameOrder \/ editing = None
    BY <1>0, Unlagged
<1>3. CASE UploadAnswered(w)
  <2>1. /\ job'[w].do \in {"idle", "load"} /\ \A v \in Works \ {w} : job'[v] = job[v]
        /\ UNCHANGED <<chosen, screen, disturbed>>
    BY <1>3, LowerEffect DEF UploadAnswered, End
  <2>2. /\ form' = [of |-> form'.of, route |-> form'.route, photo |-> form'.photo]
        /\ form'.of = form.of /\ form'.photo \in {form.photo, job[w].of}
    BY <1>3 DEF UploadAnswered, ClientInv, ClientShaped
  <2>3. UNCHANGED <<editing, detail, selected, bidsOf, sheet>> /\ job[w].do = "upload"
    BY <1>3 DEF UploadAnswered, display
  <2>4. ClientShaped'
    BY <1>0, <2>1, <2>2, <2>3 DEF ClientInv, ClientShaped
  <2>5. ~disturbed => ScreenFits' /\ (SameOrder' \/ editing' = None)
    BY <1>1, <1>2, <2>1, <2>2, <2>3 DEF WorkFits, Fits, ScreenFits, SameOrder
  <2>6. WorkFits(w)'
    BY <2>1 DEF WorkFits, Fits
  <2> QED BY <1>0, <2>1, <2>4, <2>5, <2>6, AnswerFits DEF InFlight
<1>4. CASE Updated(w)
  <2>1. /\ job[w].do = "update" /\ Continue(w, "reload-detail")
        /\ editing' = None /\ form' = EmptyForm
        /\ detail' = [of |-> job[w].of, status |-> "open"] /\ selected' = job[w].of
        /\ sheet' = sheet
    BY <1>4 DEF Updated, ResetOrderDraft
  <2>2. /\ job'[w].do = "reload-detail" /\ UNCHANGED <<chosen, screen, disturbed>>
    BY <2>1, ContinueEffect
  <2>3. ClientShaped' /\ SameOrder'
    BY <1>0, <2>1, <2>2 DEF ClientInv, ClientShaped, EmptyForm, SameOrder
  <2>4. ~disturbed => ScreenFits'
    BY <1>1, <2>1, <2>2, <2>3 DEF WorkFits, Fits, ScreenFits, EmptyForm, OnDisplay
  <2>5. WorkFits(w)'
    BY <2>2, <2>3 DEF WorkFits, Fits
  <2> QED BY <1>0, <2>1, <2>3, <2>4, <2>5, ContinueFits
<1>5. CASE Created(w)
  <2>1. PICK o \in Orders : job' = [job EXCEPT ![w] = Work("publish", o)]
    BY <1>5 DEF Created
  <2>2. /\ job[w].do = "create" /\ UNCHANGED <<clientVars, chosen, screen, disturbed>>
    BY <1>5 DEF Created
  <2>3. job'[w].do = "publish" /\ \A v \in Works \ {w} : job'[v] = job[v]
    BY <2>1, IdleShaped DEF WorksShaped
  <2>4. ClientShaped'
    BY <1>0, <2>2 DEF ClientInv, ClientShaped, clientVars
  <2>5. ~disturbed => /\ ScreenFits' /\ (SameOrder' \/ editing' = None) /\ WorkFits(w)'
    BY <1>1, <1>2, <2>2, <2>3 DEF WorkFits, Fits, ScreenFits, SameOrder, clientVars
  <2> QED BY <1>0, <2>2, <2>3, <2>4, <2>5, AnswerFits DEF InFlight
<1>6. CASE Published(w)
  <2>1. /\ job[w].do = "publish" /\ Continue(w, "reload-success")
        /\ editing' = None /\ form' = EmptyForm /\ selected' = job[w].of
        /\ UNCHANGED <<detail, bidsOf, sheet>>
    BY <1>6 DEF Published, ResetOrderDraft
  <2>2. /\ job'[w].do = "reload-success" /\ UNCHANGED <<chosen, screen, disturbed>>
    BY <2>1, ContinueEffect
  <2>3. ClientShaped'
    BY <1>0, <2>1, <2>2 DEF ClientInv, ClientShaped, EmptyForm
  <2>4. ~disturbed => ScreenFits'
    BY <1>1, <2>1, <2>2 DEF WorkFits, Fits, ScreenFits, EmptyForm, OnDisplay
  <2>5. WorkFits(w)'
    BY <2>2 DEF WorkFits, Fits
  <2> QED BY <1>0, <2>1, <2>3, <2>4, <2>5, ContinueFits
<1>7. CASE Opened(w)
  <2>1. PICK s \in Statuses : detail' = [of |-> job[w].of, status |-> s]
    BY <1>7 DEF Opened
  <2>2. /\ job[w].do \in {"open", "open-bids"}
        /\ UNCHANGED <<editing, form, selected, bidsOf, sheet>>
    BY <1>7 DEF Opened, formVars
  <2>3. ~disturbed => SameOrder'
    BY <1>1, <2>1, <2>2 DEF WorkFits, Fits, SameOrder
  <2>4. CASE job[w].do = "open"
    <3>1. EndAt(w, "client-order-detail", signedIn)
      BY <1>7, <2>4 DEF Opened
    <3>2. ClientShaped'
      BY <1>0, <2>2, <3>1 DEF EndAt, ClientInv, ClientShaped
    <3> QED BY <1>0, <2>2, <2>3, <3>1, <3>2, EndAtFits
  <2>5. CASE job[w].do = "open-bids"
    <3>1. Continue(w, "bids")
      BY <1>7, <2>5 DEF Opened
    <3>2. /\ job'[w].do = "bids" /\ job'[w].of = job[w].of
          /\ UNCHANGED <<chosen, screen, disturbed>>
      BY <3>1, ContinueEffect
    <3>3. ClientShaped'
      BY <1>0, <2>2, <3>2 DEF ClientInv, ClientShaped
    <3>4. ~disturbed => ScreenFits' /\ WorkFits(w)'
      BY <1>1, <2>2, <2>3, <2>5, <3>2 DEF WorkFits, Fits, ScreenFits
    <3> QED BY <1>0, <2>3, <3>1, <3>3, <3>4, ContinueFits
  <2> QED BY <2>2, <2>4, <2>5
<1>8. CASE BidsLoaded(w)
  <2>1. /\ job[w].do = "bids" /\ bidsOf' = job[w].of /\ EndAt(w, "client-bids", signedIn)
        /\ UNCHANGED <<editing, form, detail, selected, sheet>>
    BY <1>8 DEF BidsLoaded, formVars
  <2>2. ClientShaped'
    BY <1>0, <2>1 DEF EndAt, ClientInv, ClientShaped
  <2>3. ~disturbed => SameOrder' /\ bidsOf' = selected
    BY <1>1, <2>1 DEF WorkFits, Fits, SameOrder
  <2> QED BY <1>0, <2>1, <2>2, <2>3, EndAtFits
<1>9. CASE NoticeRead(w)
  <2>1. /\ job[w].do \in {"notice", "notice-bids"}
        /\ UNCHANGED <<editing, form, detail, bidsOf, sheet, picker>>
    BY <1>9 DEF NoticeRead, formVars
  <2>2. CASE job[w].of = None
    BY <1>0, <1>9, <2>1, <2>2, EndFits DEF NoticeRead, clientVars
  <2>3. CASE job[w].of # None
    <3>1. PICK do \in {"open", "open-bids"} : Continue(w, do)
      BY <1>9, <2>1, <2>3 DEF NoticeRead
    <3>2. /\ job'[w].do = do /\ job'[w].of = job[w].of /\ selected' = job[w].of
          /\ UNCHANGED <<chosen, screen, disturbed>>
      BY <1>9, <2>3, <3>1, ContinueEffect DEF NoticeRead
    <3>3. ClientShaped'
      BY <1>0, <2>1, <3>2 DEF ClientInv, ClientShaped
    <3>4. ~disturbed => ScreenFits'
      BY <1>1, <2>1, <3>2 DEF WorkFits, Fits, ScreenFits, OnDisplay
    <3>5. WorkFits(w)'
      BY <3>2 DEF WorkFits, Fits
    <3> QED BY <1>0, <3>1, <3>3, <3>4, <3>5, ContinueFits
  <2> QED BY <2>2, <2>3
<1>10. CASE DriverSelected(w)
  <2>1. /\ job[w].do = "select-driver" /\ Continue(w, "open")
        /\ sheet' = NoSheet /\ selected' = job[w].of
        /\ UNCHANGED <<editing, form, detail, bidsOf>>
    BY <1>10 DEF DriverSelected, formVars
  <2>2. /\ job'[w].do = "open" /\ job'[w].of = job[w].of
        /\ UNCHANGED <<chosen, screen, disturbed>>
    BY <2>1, ContinueEffect
  <2>3. ClientShaped'
    BY <1>0, <2>1, <2>2 DEF ClientInv, ClientShaped
  <2>4. ~disturbed => ScreenFits'
    BY <1>1, <2>1, <2>2 DEF WorkFits, Fits, ScreenFits, SameOrder
  <2>5. WorkFits(w)'
    BY <2>1, <2>2 DEF WorkFits, Fits
  <2> QED BY <1>0, <2>1, <2>3, <2>4, <2>5, ContinueFits
<1>11. CASE DeliveryConfirmed(w)
  <2>1. /\ job[w].do = "confirm-delivery" /\ EndAt(w, "client-rating", signedIn)
        /\ sheet' = NoSheet /\ UNCHANGED <<editing, form, detail, selected, bidsOf>>
    BY <1>11 DEF DeliveryConfirmed, formVars, display
  <2>2. ClientShaped'
    BY <1>0, <2>1 DEF EndAt, ClientInv, ClientShaped
  <2>3. ~disturbed => SameOrder'
    BY <1>1, <2>1 DEF WorkFits, Fits, SameOrder
  <2> QED BY <1>0, <2>1, <2>2, <2>3, EndAtFits
<1>12. CASE OrderCancelled(w)
  <2>1. /\ job[w].do = "cancel-order" /\ Continue(w, "reload-orders")
        /\ sheet' = NoSheet /\ UNCHANGED <<editing, form, detail, selected, bidsOf>>
    BY <1>12 DEF OrderCancelled, formVars, display
  <2>2. /\ job'[w].do = "reload-orders" /\ UNCHANGED <<chosen, screen, disturbed>>
    BY <2>1, ContinueEffect
  <2>3. ClientShaped' /\ WorkFits(w)'
    BY <1>0, <2>1, <2>2 DEF ClientInv, ClientShaped, WorkFits, Fits
  <2>4. ~disturbed => ScreenFits' /\ (SameOrder' \/ editing' = None)
    BY <1>1, <1>2, <2>1, <2>2 DEF ScreenFits, SameOrder
  <2> QED BY <1>0, <2>1, <2>3, <2>4, ContinueFits
<1>13. CASE DisputeOpened(w)
  <2>1. /\ job[w].do = "dispute" /\ Continue(w, "open") /\ selected' = job[w].of
        /\ UNCHANGED <<editing, form, detail, bidsOf, sheet>>
    BY <1>13 DEF DisputeOpened, formVars
  <2>2. /\ job'[w].do = "open" /\ job'[w].of = job[w].of
        /\ UNCHANGED <<chosen, screen, disturbed>>
    BY <2>1, ContinueEffect
  <2>3. ClientShaped' /\ WorkFits(w)'
    BY <1>0, <2>1, <2>2 DEF ClientInv, ClientShaped, WorkFits, Fits
  <2>4. ~disturbed => ScreenFits'
    BY <1>1, <2>1, <2>2 DEF WorkFits, Fits, ScreenFits, SameOrder
  <2> QED BY <1>0, <2>1, <2>3, <2>4, ContinueFits
<1>14. CASE Concluded(w)
  <2>1. job[w].do \in {"reload-detail", "reload-success", "reload-orders", "rate"}
    BY <1>14 DEF Concluded, LastScreen
  <2>2. PICK next : /\ next = LastScreen[job[w].do] /\ EndAt(w, next, signedIn)
    BY <1>14 DEF Concluded
  <2>3. next \in OnDisplay => job[w].do = "reload-detail" /\ next # "client-bids"
    BY <2>1, <2>2 DEF LastScreen, OnDisplay
  <2>4. UNCHANGED clientVars /\ ClientShaped'
    BY <1>0, <1>14 DEF Concluded, EndAt, ClientInv, ClientShaped, clientVars
  <2>5. ~disturbed => (next \in OnDisplay => SameOrder) /\ (SameOrder \/ editing = None)
    BY <1>1, <1>2, <2>1, <2>3 DEF WorkFits, Fits
  <2> QED BY <1>0, <2>2, <2>3, <2>4, <2>5, EndAtFits DEF clientVars, SameOrder, OnDisplay
<1>15. CASE Failed(w)
  <2>1. /\ job'[w].do \in {"idle", "load"} /\ \A v \in Works \ {w} : job'[v] = job[v]
        /\ UNCHANGED <<chosen, screen, clientVars>>
        /\ ~disturbed' => ~disturbed /\ job[w].do \notin {"open", "open-bids"}
    BY <1>15, LowerEffect DEF Failed
  <2>2. ClientShaped' /\ WorkFits(w)'
    BY <1>0, <2>1 DEF ClientInv, ClientShaped, WorkFits, Fits, clientVars
  <2>3. ~disturbed' => ScreenFits' /\ (SameOrder' \/ editing' = None)
    BY <1>1, <1>2, <2>1 DEF ScreenFits, SameOrder, clientVars
  <2> QED BY <1>0, <2>1, <2>2, <2>3, AnswerFits DEF InFlight
<1> QED BY <1>3, <1>4, <1>5, <1>6, <1>7, <1>8, <1>9, <1>10, <1>11, <1>12, <1>13, <1>14, <1>15
        DEF Answered

---------------------------------------------------------------------------
(* The other steps of the app: signing in and out, and the driver *)

LEMMA SignInFits == ASSUME ClientInv, WorksShaped, ShellStep, UNCHANGED clientVars PROVE ClientInv'
<1>0. ClientShaped /\ (chosen' = chosen => ClientShaped')
    BY DEF ClientInv, ClientShaped, clientVars
<1>1. ASSUME NEW next \in AuthScreens, Go(next) PROVE ClientInv'
    BY <1>1, VisitFits DEF AuthScreens, OnDisplay
<1>2. ASSUME NEW do \in {"request", "verify", "resend"}, Run(do, None) PROVE ClientInv'
    BY <1>2, StartFits DEF Fits
<1>3. ASSUME NEW w \in Works, InFlight(w), job[w].do \notin {"open", "open-bids"},
             NEW next \in AuthScreens \cup {HomeOf(chosen)}, NEW in, NEW loads,
             Show(next, in), Lower(w, loads), UNCHANGED <<chosen, disturbed>>
      PROVE  ClientInv'
  <2>1. next \notin OnDisplay
    BY <1>0, <1>3 DEF ClientShaped, Role, AuthScreens, HomeOf, OnDisplay
  <2>2. next # "client-bids" /\ ClientShaped'
    BY <1>0, <1>3, <2>1 DEF OnDisplay
  <2>3. ~disturbed => SameOrder \/ editing = None
    BY <1>3, Unlagged
  <2> QED BY <1>3, <2>1, <2>2, <2>3, EndsThereFits DEF clientVars, SameOrder
<1>4. CASE Splash \/ Onboarding \/ ChooseRole
    BY <1>1, <1>4 DEF Splash, Onboarding, ChooseRole, AuthScreens
<1>5. CASE PhoneScreen \/ OtpScreen
    BY <1>1, <1>2, <1>5 DEF PhoneScreen, OtpScreen, AuthScreens
<1>6. ASSUME NEW w \in Works, EndLoad(w) PROVE ClientInv'
  <2>1. /\ job[w].do = "load" /\ job'[w].do \in {"idle", "load"}
        /\ \A v \in Works \ {w} : job'[v] = job[v]
        /\ UNCHANGED <<chosen, screen, disturbed>>
    BY <1>6, LowerEffect DEF EndLoad, End
  <2>2. \A v \in Works : (InFlight(v)' <=> InFlight(v)) /\ (InFlight(v) => job'[v] = job[v])
    BY <2>1 DEF InFlight
  <2>3. OneInFlight => OneInFlight'
    BY <2>2 DEF OneInFlight
  <2>4. ScreenFits => ScreenFits'
    BY <2>1 DEF ScreenFits, SameOrder, clientVars
  <2>5. LagsBehind => LagsBehind'
    BY <2>1, <2>2 DEF LagsBehind, SameOrder, InFlight, clientVars
  <2>6. ASSUME NEW v \in Works, WorkFits(v) PROVE WorkFits(v)'
    <3>1. CASE InFlight(v)
      BY <2>1, <2>2, <2>6, <3>1 DEF WorkFits, Fits, SameOrder, clientVars
    <3>2. CASE ~InFlight(v)
      BY <2>2, <3>2 DEF InFlight, WorkFits, Fits
    <3> QED BY <3>1, <3>2
  <2> QED BY <1>0, <2>1, <2>3, <2>4, <2>5, <2>6 DEF ClientInv
<1>7. ASSUME NEW w \in Works, RequestAnswered(w) PROVE ClientInv'
  <2>1. InFlight(w) /\ job[w].do \notin {"open", "open-bids"}
    BY <1>7 DEF RequestAnswered, InFlight
  <2>2. CASE End(w)
    BY <2>1, <2>2, EndFits
  <2>3. CASE ~End(w)
    <3>1. PICK sent \in BOOLEAN, loads \in BOOLEAN :
              /\ Show(IF job[w].do = "request" THEN "otp" ELSE screen, signedIn)
              /\ LowerFrom(IF sent THEN Outdated ELSE job, w, loads)
              /\ UNCHANGED <<chosen, disturbed>>
      BY <1>7, <2>3 DEF RequestAnswered, Loads
    <3>2. /\ job'[w].do \in {"idle", "load"}
          /\ \A v \in Works \ {w} : InFlight(v)' => InFlight(v)
      BY <3>1, IdleShaped DEF LowerFrom, Outdated, WorksShaped, InFlight
    <3>3. screen' = Allowed(IF job[w].do = "request" THEN "otp" ELSE screen, signedIn)
      BY <3>1 DEF Show
    <3>4. screen' \in OnDisplay => screen' = screen
      BY <1>0, <3>3, AllowedIsAsked DEF ClientShaped, OnDisplay
    <3>5. ~disturbed => ScreenFits' /\ (SameOrder' \/ editing' = None)
      BY <2>1, <3>4, Unlagged DEF ClientInv, ScreenFits, SameOrder, OnDisplay, clientVars
    <3>6. WorkFits(w)'
      BY <3>2 DEF WorkFits, Fits
    <3> QED BY <1>0, <2>1, <3>1, <3>2, <3>5, <3>6, AnswerFits
  <2> QED BY <2>2, <2>3
<1>8. ASSUME NEW w \in Works, VerifyRead(w) PROVE ClientInv'
  <2>1. InFlight(w) /\ job[w].do \notin {"open", "open-bids"}
    BY <1>8 DEF VerifyRead, InFlight
  <2>2. CASE End(w)
    BY <2>1, <2>2, EndFits
  <2>3. CASE ~End(w)
    <3>1. /\ job' = [job EXCEPT ![w].do = "compare", ![w].seen = code.attempts]
          /\ UNCHANGED <<chosen, screen, disturbed>>
      BY <1>8, <2>3 DEF VerifyRead
    <3>2. job[w] = [do |-> job[w].do, of |-> job[w].of, seen |-> job[w].seen]
      BY DEF WorksShaped
    <3>3. job'[w] = [[job[w] EXCEPT !.do = "compare"] EXCEPT !.seen = code.attempts]
      BY <3>1 DEF WorksShaped
    <3>4. job'[w].do = "compare" /\ \A v \in Works \ {w} : job'[v] = job[v]
      BY <3>1, <3>2, <3>3 DEF WorksShaped
    <3>5. ~disturbed => ScreenFits' /\ (SameOrder' \/ editing' = None)
      BY <2>1, <3>1, Unlagged DEF ClientInv, ScreenFits, SameOrder, clientVars
    <3>6. WorkFits(w)'
      BY <3>4 DEF WorkFits, Fits
    <3> QED BY <1>0, <2>1, <3>1, <3>4, <3>5, <3>6, AnswerFits DEF InFlight
  <2> QED BY <2>2, <2>3
<1>9. ASSUME NEW w \in Works, VerifyWrong(w) PROVE ClientInv'
    BY <1>9, EndsHereFits DEF VerifyWrong, InFlight
<1>10. ASSUME NEW w \in Works, VerifyRight(w) PROVE ClientInv'
    BY <1>3, <1>10 DEF VerifyRight, InFlight
<1>11. ASSUME NEW w \in Works, LogoutAnswered(w) \/ ProfileSaved(w) PROVE ClientInv'
  <2>1. InFlight(w) /\ job[w].do \notin {"open", "open-bids"}
    BY <1>11 DEF LogoutAnswered, ProfileSaved, InFlight
  <2>2. ASSUME EndAt(w, "role", FALSE) PROVE ClientInv'
    BY <1>3, <2>1, <2>2 DEF EndAt, AuthScreens
  <2> QED BY <1>11, <2>1, <2>2, EndFits DEF LogoutAnswered, ProfileSaved
<1> QED BY <1>4, <1>5, <1>6, <1>7, <1>8, <1>9, <1>10, <1>11 DEF ShellStep

\* A driver's device shows no order of the client's screens.
LEMMA DriverFits ==
    ASSUME ClientInv, WorksShaped, DriverStep, UNCHANGED clientVars
    PROVE  ClientInv'
<1>1. chosen = "driver"
    BY DEF DriverStep, DriverHome, ProfileForm, DriverDocuments, RoutesList, AddRoute,
           RouteDistrict,
           FeedAndHistory, DriverBid, DriverOrderDetail, DriverIncome, DriverProfile,
           DriverAnswered, At
<1>2. ClientShaped /\ (chosen' = chosen => ClientShaped')
    BY DEF ClientInv, ClientShaped, clientVars
<1>3. ClientShaped' /\ chosen' = "driver" => ScreenFits' /\ SameOrder'
    BY DEF ClientShaped, ScreenFits, SameOrder, NoDetail, EmptyForm
<1>4. ASSUME NEW next, Go(next) PROVE ClientInv'
    BY <1>1, <1>2, <1>3, <1>4, GoFits DEF Go
<1>5. ASSUME NEW do, NEW x, Call(do, x) PROVE ClientInv'
    BY <1>1, <1>5, StartFits DEF Call
<1>6. ASSUME NEW w \in Works, DriverAnswered(w) PROVE ClientInv'
  <2>1. InFlight(w)
    BY <1>6 DEF DriverAnswered, Pending, InFlight
  <2>2. ASSUME \A v \in Works \ {w} : job'[v] = job[v], UNCHANGED <<chosen, disturbed>>
        PROVE  ClientInv'
    BY <1>1, <1>2, <1>3, <2>1, <2>2, AnswerFits DEF InFlight
  <2>3. ASSUME End(w) PROVE ClientInv'
    BY <2>2, <2>3, LowerEffect DEF End
  <2>4. ASSUME NEW next, EndAt(w, next, signedIn) PROVE ClientInv'
    BY <2>2, <2>4, LowerEffect DEF EndAt
  <2>5. ASSUME NEW do, Continue(w, do) PROVE ClientInv'
    BY <2>2, <2>5, ContinueEffect
  <2>6. CASE OrderShown(w)
    BY <2>3, <2>4, <2>6 DEF OrderShown
  <2>7. CASE StatusUpdated(w) \/ RouteUpdated(w)
    BY <2>5, <2>7 DEF StatusUpdated, RouteUpdated
  <2>8. CASE DriverConcluded(w) \/ DriverEnded(w)
    BY <2>3, <2>4, <2>8 DEF DriverConcluded, DriverEnded
  <2> QED BY <1>6, <2>6, <2>7, <2>8 DEF DriverAnswered
<1>7. CASE UNCHANGED shell
    BY <1>7, StillFits
<1>8. CASE \/ DriverHome \/ ProfileForm \/ DriverDocuments \/ DriverIncome \/ DriverProfile
           \/ FeedAndHistory \/ DriverBid \/ DriverOrderDetail
    BY <1>4, <1>5, <1>8 DEF DriverHome, ProfileForm, DriverDocuments, DriverIncome, DriverProfile,
            FeedAndHistory, DriverBid, DriverOrderDetail, DriverNav, Enter, OpenBid
<1>9. CASE RoutesList \/ AddRoute \/ RouteDistrict
    BY <1>4, <1>5, <1>7, <1>9 DEF RoutesList, NewRoute, StartEditDriverRoute, DriverNav, Enter,
            AddRoute, ChooseRouteCity, LeaveRoute, SaveRoute, RouteDistrict
<1> QED BY <1>6, <1>8, <1>9 DEF DriverStep

LEMMA ClientHolds == Spec => []ClientInv
<1>1. Init => ClientInv
  <2> SUFFICES ASSUME ShellInit, ClientInit PROVE ClientInv
    BY DEF Init
  <2>1. PICK w : \/ job = [v \in Works |-> Idle]
                 \/ job = [v \in Works |-> IF v = w THEN Load ELSE Idle]
    BY DEF ShellInit
  <2>2. \A v \in Works : job[v].do \in {"idle", "load"}
    BY <2>1, IdleShaped
  <2>3. ClientShaped /\ SameOrder
    BY DEF ShellInit, ClientInit, ClientShaped, EmptyForm, NoDetail, SameOrder
  <2>4. ScreenFits
    BY <2>3 DEF ScreenFits, ClientInit, EmptyForm
  <2>5. OneInFlight /\ LagsBehind /\ \A v \in Works : WorkFits(v)
    BY <2>2, <2>3 DEF OneInFlight, InFlight, LagsBehind, WorkFits, Fits
  <2> QED BY <2>3, <2>4, <2>5 DEF ClientInv
<1>2. ClientInv /\ WorksInv /\ SheetAsks /\ [Next]_vars => ClientInv'
  <2> SUFFICES ASSUME ClientInv, WorksShaped, SheetAsks, [Next]_vars PROVE ClientInv'
    BY DEF WorksInv
  <2>1. CASE UNCHANGED appVars
    BY <2>1, StillFits DEF appVars
  <2>2. CASE ClientStep
    BY <2>2, WizardFits, OrderScreensFit, AnsweredFits DEF ClientStep
  <2>3. CASE (DriverStep \/ ShellStep) /\ UNCHANGED clientVars
    BY <2>3, SignInFits, DriverFits
  <2> QED BY <2>1, <2>2, <2>3 DEF Next, App, ClientApp, DriverApp, SignInApp, AdminTables,
            AdminDrawers, AdminPage, vars
<1> QED BY <1>1, <1>2, WorksHold, PTL DEF Spec

\* The form for routes holds the content of the route that is edited.
RouteFormShaped ==
    /\ routeForm = [of |-> routeForm.of, ready |-> routeForm.ready]
    /\ editingRoute # None => routeForm.of = editingRoute

LEMMA RouteFormHolds == Spec => []RouteFormShaped
<1>1. Init => RouteFormShaped
    BY DEF Init, DriverInit, EmptyRoute, RouteFormShaped
<1>2. ASSUME RouteFormShaped, UNCHANGED routeVars PROVE RouteFormShaped'
    BY <1>2 DEF RouteFormShaped, routeVars
<1>3. ASSUME RouteFormShaped, UNCHANGED driverVars PROVE RouteFormShaped'
    BY <1>3 DEF RouteFormShaped, driverVars
<1>4. ASSUME RouteFormShaped, DriverStep PROVE RouteFormShaped'
  <2>1. ASSUME NEW ready, routeForm' = [routeForm EXCEPT !.ready = ready], UNCHANGED editingRoute
        PROVE  RouteFormShaped'
    BY <1>4, <2>1 DEF RouteFormShaped
  <2>2. CASE \/ DriverHome \/ ProfileForm \/ DriverDocuments \/ DriverIncome \/ DriverProfile
             \/ FeedAndHistory \/ DriverBid \/ DriverOrderDetail
    BY <1>2, <1>3, <1>4, <2>2 DEF DriverHome, ProfileForm, DriverDocuments, DriverIncome,
            DriverProfile, FeedAndHistory, DriverBid, DriverOrderDetail, DriverNav, Enter, OpenBid,
            Call
  <2>3. CASE RoutesList
    BY <1>3, <1>4, <2>3 DEF RoutesList, NewRoute, StartEditDriverRoute, DriverNav, Enter, Call,
            EmptyRoute, RouteFormShaped
  <2>4. CASE AddRoute
    BY <1>3, <1>4, <2>1, <2>4 DEF AddRoute, ChooseRouteCity, LeaveRoute, SaveRoute, Enter, Call,
            RouteFormShaped
  <2>5. CASE RouteDistrict
    BY <1>3, <1>4, <2>1, <2>5 DEF RouteDistrict, Enter
  <2>6. ASSUME NEW w \in Works, DriverAnswered(w) PROVE RouteFormShaped'
    BY <1>2, <1>3, <1>4, <2>6 DEF DriverAnswered, OrderShown, StatusUpdated, RouteUpdated,
            DriverConcluded, DriverEnded, RouteFormShaped
  <2> QED BY <1>4, <2>2, <2>3, <2>4, <2>5, <2>6 DEF DriverStep
<1>5. RouteFormShaped /\ [Next]_vars => RouteFormShaped'
    BY <1>3, <1>4 DEF Next, App, ClientApp, DriverApp, SignInApp, AdminTables, AdminDrawers,
            AdminPage, vars, appVars
<1> QED BY <1>1, <1>5, PTL DEF Spec

\* The sheet acts on the order it was asked about, for any orders and any number
\* of works, unless the user went on while an order work was in flight - though it
\* takes the order from variables that every screen writes (runConfirmAction).
THEOREM SheetActsOnItsOrder == Spec => []ActsOnShownOrder
<1>1. ClientInv => ActsOnShownOrder
    BY DEF ClientInv, ScreenFits, SameOrder, ActsOnShownOrder
<1> QED BY <1>1, ClientHolds, PTL

\* The rating goes to the order whose delivery was confirmed, for any orders and
\* works, unless the user went on while a work was in flight: rateDriver rates
\* selectedOrderId, the sheet confirmed orderDetail, and openOrder may have
\* selected another order before the confirmation is answered.
THEOREM RatingGoesToConfirmed == Spec => []RatesConfirmedOrder
<1>1. ClientInv => RatesConfirmedOrder
    BY DEF ClientInv, ScreenFits, SameOrder, OnDisplay, RatesConfirmedOrder
<1> QED BY <1>1, ClientHolds, PTL

\* What is saved over an order or a route is its own content, for any orders and
\* routes (beginEditOrder, resetOrderDraft, startEditDriverRoute).
THEOREM FormsHoldTheirOwn == Spec => []FormsKeepContent
<1>1. ClientInv /\ RouteFormShaped => FormsKeepContent
    BY DEF ClientInv, ClientShaped, ScreenFits, RouteFormShaped, FormsKeepContent
<1> QED BY <1>1, ClientHolds, RouteFormHolds, PTL

=============================================================================
