------------------------------ MODULE WebProofs ------------------------------
(***************************************************************************)
(* Theorems about WebApp, for any orders, records, cities and any number   *)
(* of calls in flight.                                                     *)
(***************************************************************************)
EXTENDS WebApp, TLAPS

---------------------------------------------------------------------------
(* The desk's vehicle form.  A dialog covers its drawer, so neither the     *)
(* drawer nor the form changes under it but by an answer; and only a client *)
(* section's answer closes a drawer and leaves the dialog.                  *)

DeskInv ==
    /\ dwork \in [DeskCalls -> [do : {"idle", "action", "vehicle", "toggle", "switch",
                                      "create", "unguarded"},
                                here : BOOLEAN]]
    /\ \A s \in DeskCalls : dwork[s].here /\ dwork[s].do = "toggle" => section = "clients"
    /\ modal = "vehicle" => section = "drivers" /\ content = drawer

LEMMA DeskAnswer == ASSUME DeskInv, NEW s \in DeskCalls, DeskAnswered(s) PROVE DeskInv'
  BY DEF DeskInv, DeskAnswered, NoWork, NoDialog

LEMMA WorkSent ==
    ASSUME DeskInv, NEW do \in {"action", "vehicle", "toggle", "switch", "create", "unguarded"},
           do = "toggle" => section = "clients", SendWork(do)
    PROVE  DeskInv'
  BY DEF DeskInv, SendWork

LEMMA Mounted == ASSUME DeskInv, NEW next, Mount(next) PROVE DeskInv'
  BY DEF DeskInv, Mount, NoDialog

LEMMA DeskStepKeeps == ASSUME DeskInv, DeskStep PROVE DeskInv'
<1>1. CASE AdminApp
    BY <1>1, Mounted DEF AdminApp
<1>2. CASE AdminDashboard
    BY <1>2, Mounted DEF AdminDashboard
<1>3. CASE AdminOrders
    BY <1>3, WorkSent DEF AdminOrders, In, InDrawer, InDialog, Covered, OpenDrawer, CloseDrawer,
                OpenModal, CloseModal, Submit, NoDialog, DeskInv
<1>4. CASE AdminDrivers
    BY <1>4, WorkSent DEF AdminDrivers, In, InDrawer, InDialog, Covered, OpenDrawer, CloseDrawer,
                OpenModal, CloseModal, OpenVehicle, Submit, NoDialog, DeskInv
<1>5. CASE AdminClients
    BY <1>5, WorkSent DEF AdminClients, In, InDrawer, Covered, OpenDrawer, CloseDrawer,
                Submit, NoDialog, DeskInv
<1>6. CASE AdminRegions \/ AdminProfile
    BY <1>6, WorkSent DEF AdminRegions, AdminProfile, In
<1>7. CASE AdminTariffs \/ AdminStaffSection
    BY <1>7, WorkSent DEF AdminTariffs, AdminStaffSection, In, InDialog, OpenModal, CloseModal,
                Submit, NoDialog, DeskInv
<1>8. CASE AdminDisputes
    BY <1>8 DEF AdminDisputes, In, InDrawer, Covered, OpenDrawer, CloseDrawer, NoDialog, DeskInv
<1> QED BY <1>1, <1>2, <1>3, <1>4, <1>5, <1>6, <1>7, <1>8, DeskAnswer DEF DeskStep

\* The form the desk saves a driver's vehicle from was filled from that driver,
\* whatever answers come in between (openVehicle, saveVehicle).
THEOREM VehicleFormOfDriver == Spec => []VehicleFormIsTheDrivers
<1>1. Init => DeskInv
    BY DEF Init, DeskInit, DeskInv, NoWork, NoDialog
<1>2. DeskInv /\ [Next]_vars => DeskInv'
  <2> SUFFICES ASSUME DeskInv, [Next]_vars PROVE DeskInv'
    OBVIOUS
  <2>1. CASE UNCHANGED deskVars
    BY <2>1 DEF DeskInv, deskVars
  <2> QED BY <2>1, DeskStepKeeps DEF Next, SignIn, ClientPage, DriverPage, Desk, vars
<1>3. DeskInv => VehicleFormIsTheDrivers
    BY DEF DeskInv, VehicleFormIsTheDrivers
<1> QED BY <1>1, <1>2, <1>3, PTL DEF Spec

---------------------------------------------------------------------------
(* The driver's sheet.  At most one bid in flight has a sheet to tell, the *)
(* one that waits for it; a sheet that is closed leaves its bid on its own.*)

DriverCall ==
    [do : {"idle", "route", "avail", "upload", "save", "load", "advance", "bid"},
     phase : {"call", "reload"}, of : Orders \cup {None}, back : MainTabs \cup {None},
     own : BOOLEAN]

Sheet == [of : Orders \cup {None}, st : {"none", "form", "loading", "success"}]

DriverTyped ==
    /\ dtab \in MainTabs /\ active \in Actives /\ opened \in Orders \cup {None}
    /\ sheet \in Sheet
    /\ dcalls \in [DriverCalls -> DriverCall]

Awaits(s) == dcalls[s].do = "bid" /\ dcalls[s].own

SheetWaits ==
    /\ \A s \in DriverCalls : Awaits(s) => /\ dcalls[s].phase = "call" /\ sheet.st = "loading"
                                           /\ dcalls[s].of = sheet.of
    /\ \A s, t \in DriverCalls : Awaits(s) /\ Awaits(t) => s = t
    /\ sheet.st = "loading" => \E s \in DriverCalls : Awaits(s)
    /\ sheet.st = "success" => sheet.of \in placed

DriverInv == DriverTyped /\ SheetWaits

\* A step that leaves the sheet and its bid alone.
SameBids == \A s \in DriverCalls :
    /\ Awaits(s)' <=> Awaits(s)
    /\ Awaits(s) => dcalls'[s].phase = dcalls[s].phase /\ dcalls'[s].of = dcalls[s].of

LEMMA OtherStep ==
    ASSUME DriverInv, SameBids, UNCHANGED <<sheet, placed>>
    PROVE  SheetWaits'
  BY DEF DriverInv, SheetWaits, SameBids

LEMMA NoDCallTyped ==
    NoDCall \in DriverCall /\ NoDCall.do = "idle" /\ ~NoDCall.own
  BY DEF NoDCall, DriverCall

LEMMA DriverCallMade ==
    ASSUME DriverInv, NEW call \in DriverCall, Ask(call),
           \/ UNCHANGED sheet /\ call.do # "bid"
           \/ /\ sheet.st = "form" /\ sheet' = [sheet EXCEPT !.st = "loading"]
              /\ call.do = "bid" /\ call.own /\ call.phase = "call" /\ call.of = sheet.of
    PROVE  DriverInv'
<1>1. PICK s \in DriverCalls : dcalls[s].do = "idle" /\ dcalls' = [dcalls EXCEPT ![s] = call]
    BY DEF Ask
<1>2. /\ dcalls' \in [DriverCalls -> DriverCall] /\ dcalls'[s] = call /\ ~Awaits(s)
      /\ \A t \in DriverCalls \ {s} : dcalls'[t] = dcalls[t]
    BY <1>1 DEF DriverInv, DriverTyped, Awaits
<1>3. sheet' \in Sheet /\ DriverTyped'
    BY <1>2 DEF DriverInv, DriverTyped, Sheet, Ask, shownVars
<1>4. UNCHANGED placed
    BY DEF Ask
<1>5. CASE UNCHANGED sheet /\ call.do # "bid"
  <2>1. SameBids
    BY <1>2, <1>5 DEF SameBids, Awaits
  <2> QED BY <1>3, <1>4, <1>5, <2>1, OtherStep DEF DriverInv
<1>6. CASE /\ sheet.st = "form" /\ sheet' = [sheet EXCEPT !.st = "loading"]
           /\ call.do = "bid" /\ call.own /\ call.phase = "call" /\ call.of = sheet.of
  <2>1. sheet'.st = "loading" /\ sheet'.of = sheet.of
    BY <1>6 DEF DriverInv, DriverTyped, Sheet
  <2>2. \A t \in DriverCalls : Awaits(t)' <=> t = s
    BY <1>2, <1>6 DEF Awaits, DriverInv, SheetWaits
  <2>3. SheetWaits'
    BY <1>2, <1>6, <2>1, <2>2 DEF SheetWaits
  <2> QED BY <1>3, <2>3 DEF DriverInv
<1> QED BY <1>5, <1>6

LEMMA CallsStay ==
    ASSUME DriverInv, NEW next
    PROVE  /\ CallsAt(next) \in [DriverCalls -> DriverCall]
           /\ \A s \in DriverCalls : /\ CallsAt(next)[s].do = dcalls[s].do
                                     /\ dcalls[s].do # "save" => CallsAt(next)[s] = dcalls[s]
  BY DEF CallsAt, Unmounted, DriverCall, DriverInv, DriverTyped

LEMMA DriverMoved ==
    ASSUME DriverInv, NEW next, dcalls' = CallsAt(next) \/ UNCHANGED dcalls,
           UNCHANGED <<active, sheet, placed>>, dtab' \in MainTabs,
           opened' \in Orders \cup {None}
    PROVE  DriverInv'
<1>1. /\ dcalls' \in [DriverCalls -> DriverCall]
      /\ \A s \in DriverCalls : /\ dcalls'[s].do = dcalls[s].do
                                /\ dcalls[s].do # "save" => dcalls'[s] = dcalls[s]
    BY CallsStay DEF DriverInv, DriverTyped
<1>2. SameBids
    BY <1>1 DEF SameBids, Awaits
<1> QED BY <1>1, <1>2, OtherStep DEF DriverInv, DriverTyped

LEMMA SheetChanged ==
    ASSUME DriverInv, sheet.st # "loading", sheet' \in Sheet, sheet'.st \in {"none", "form"},
           UNCHANGED <<shownVars, active, dcalls, placed>>
    PROVE  DriverInv'
  BY DEF DriverInv, DriverTyped, SheetWaits, Awaits, shownVars

LEMMA SheetClosed ==
    ASSUME DriverInv, sheet' = NoBid, dcalls' = Unmounted("bid"),
           UNCHANGED <<shownVars, active, placed>>
    PROVE  DriverInv'
<1>1. /\ dcalls' \in [DriverCalls -> DriverCall]
      /\ \A s \in DriverCalls : ~Awaits(s)'
    BY DEF DriverInv, DriverTyped, Unmounted, DriverCall, Awaits
<1>2. sheet' \in Sheet /\ sheet'.st = "none"
    BY DEF NoBid, Sheet
<1> QED BY <1>1, <1>2 DEF DriverInv, DriverTyped, SheetWaits, shownVars

\* An answer: call s is over, or goes on without its sheet.
LEMMA SheetAnswered ==
    ASSUME DriverInv, NEW s \in DriverCalls, dcalls[s].phase = "call", dcalls[s].do # "idle",
           NEW st \in {"form", "success"}, sheet' = SheetTold(s, st),
           NEW next, NEW k \in DriverCall, dcalls' = [CallsAt(next) EXCEPT ![s] = k],
           ~(k.do = "bid" /\ k.own),
           placed \subseteq placed', st = "success" /\ dcalls[s].do = "bid" => dcalls[s].of \in placed',
           UNCHANGED <<dtab, opened, active>>
    PROVE  DriverInv'
<1>1. /\ dcalls' \in [DriverCalls -> DriverCall] /\ ~Awaits(s)'
      /\ \A t \in DriverCalls \ {s} : /\ dcalls'[t].do = dcalls[t].do
                                      /\ dcalls[t].do # "save" => dcalls'[t] = dcalls[t]
    BY CallsStay DEF Awaits
<1>2. \A t \in DriverCalls \ {s} :
          /\ Awaits(t)' <=> Awaits(t)
          /\ Awaits(t) => dcalls'[t] = dcalls[t]
    BY <1>1 DEF Awaits
<1>3. CASE Awaits(s)
  <2>1. sheet' = [sheet EXCEPT !.st = st]
    BY <1>3 DEF SheetTold, Awaits
  <2>2. sheet' \in Sheet /\ sheet'.st = st /\ sheet'.of = sheet.of
    BY <2>1 DEF DriverInv, DriverTyped, Sheet
  <2>3. \A t \in DriverCalls : ~Awaits(t)'
    BY <1>1, <1>2, <1>3 DEF DriverInv, SheetWaits
  <2>4. dcalls[s].of = sheet.of /\ dcalls[s].do = "bid"
    BY <1>3 DEF DriverInv, SheetWaits, Awaits
  <2> QED BY <1>1, <2>2, <2>3, <2>4 DEF DriverInv, DriverTyped, SheetWaits
<1>4. CASE ~Awaits(s)
  <2>1. UNCHANGED sheet
    BY <1>4 DEF SheetTold, Awaits
  <2>2. SheetWaits'
    BY <1>1, <1>2, <1>4, <2>1 DEF DriverInv, SheetWaits
  <2> QED BY <1>1, <2>1, <2>2 DEF DriverInv, DriverTyped
<1> QED BY <1>3, <1>4

LEMMA LoadingTyped ==
    \A calls \in Loading : /\ calls \in [DriverCalls -> DriverCall]
                            /\ \A s \in DriverCalls : calls[s].do \in {"idle", "load"}
<1> DEFINE load == [NoDCall EXCEPT !.do = "load", !.phase = "reload"]
<1>1. load \in DriverCall /\ load.do = "load"
    BY NoDCallTyped DEF DriverCall
<1>2. \A calls \in Loading : \E s \in DriverCalls :
          calls = [c \in DriverCalls |-> IF c # s THEN NoDCall ELSE load]
    BY DEF Loading
<1> HIDE DEF load
<1> QED BY <1>1, <1>2, NoDCallTyped

LEMMA DriverStepKeeps == ASSUME DriverInv, DriverStep PROVE DriverInv'
<1>t. DriverTyped
    BY DEF DriverInv
<1>o. ASSUME NEW next, Open(next) PROVE DriverInv'
    BY <1>t, <1>o, DriverMoved DEF Open, DriverTyped
<1>g. ASSUME GoBack PROVE DriverInv'
    BY <1>o, <1>g DEF GoBack
<1>d. ASSUME NEW o \in Orders, OpenOrder(o) PROVE DriverInv'
    BY <1>t, <1>d, DriverMoved DEF OpenOrder, DriverTyped
<1>s. ASSUME NEW o \in Orders, OpenSheet(o), sheet = NoBid PROVE DriverInv'
  <2>1. sheet' \in Sheet /\ sheet'.st = "form" /\ sheet.st # "loading"
    BY <1>s DEF OpenSheet, Sheet, NoBid
  <2> QED BY <1>s, <2>1, SheetChanged DEF OpenSheet
<1>c. ASSUME NEW do \in {"route", "avail", "upload"}, Ask(DCall(do)), UNCHANGED sheet
      PROVE  DriverInv'
  <2>1. DCall(do) \in DriverCall /\ DCall(do).do = do
    BY NoDCallTyped DEF DCall, DriverCall
  <2> QED BY <1>c, <2>1, DriverCallMade
<1>1. CASE BottomNav
  <2>1. ASSUME NEW t \in MainTabs, SwitchTab(t) PROVE DriverInv'
    BY <1>t, <2>1, DriverMoved DEF SwitchTab, DriverTyped
  <2> QED BY <1>1, <1>o, <2>1 DEF BottomNav
<1>2. CASE DriverHome \/ Leaf \/ HardwareGoBack
    BY <1>2, <1>o, <1>g, <1>d DEF DriverHome, Leaf, HardwareGoBack
<1>3. CASE DriverRoutes \/ DriverProfile \/ DriverDocuments
    BY <1>3, <1>o, <1>g, <1>c DEF DriverRoutes, DriverProfile, DriverDocuments, AskOnce
<1>4. CASE DriverOrders
  <2>1. active # NoActive => active.of \in Orders
    BY <1>t DEF DriverTyped, Actives
  <2> QED BY <1>4, <1>d, <1>s, <2>1 DEF DriverOrders, At
<1>5. CASE DriverForms
  <2>1. CASE UNCHANGED sheet /\ Ask([DCall("save") EXCEPT !.back = dtab])
    <3> DEFINE call == [DCall("save") EXCEPT !.back = dtab]
    <3>1. call \in DriverCall /\ call.do = "save"
      BY <1>t, NoDCallTyped DEF DCall, DriverCall, DriverTyped
    <3> HIDE DEF call
    <3>2. Ask(call) /\ UNCHANGED sheet
      BY <2>1 DEF call
    <3> QED BY <3>1, <3>2, DriverCallMade
  <2> QED BY <1>5, <1>g, <2>1 DEF DriverForms
<1>6. CASE PullRefresh
  <2> DEFINE call == [NoDCall EXCEPT !.do = "load", !.phase = "reload"]
  <2>1. call \in DriverCall /\ call.do = "load"
    BY NoDCallTyped DEF DriverCall
  <2>2. Ask(call) /\ UNCHANGED sheet
    BY <1>6 DEF PullRefresh
  <2> HIDE DEF call
  <2> QED BY <2>1, <2>2, DriverCallMade
<1>7. CASE DriverOrderDetail
  <2>1. CASE UNCHANGED sheet /\ Ask([DCall("advance") EXCEPT !.of = active.of, !.back = dtab])
    <3> DEFINE call == [DCall("advance") EXCEPT !.of = active.of, !.back = dtab]
    <3>1. active.of \in Orders \cup {None} /\ dtab \in MainTabs
      BY <1>t DEF DriverTyped, Actives, NoActive
    <3>2. call \in DriverCall /\ call.do = "advance"
      BY <3>1, NoDCallTyped DEF DCall, DriverCall
    <3> HIDE DEF call
    <3>3. Ask(call) /\ UNCHANGED sheet
      BY <2>1 DEF call
    <3> QED BY <3>2, <3>3, DriverCallMade
  <2>2. CASE opened # None /\ OpenSheet(opened)
    BY <1>t, <1>7, <1>s, <2>2 DEF DriverTyped, DriverOrderDetail, At
  <2> QED BY <1>7, <1>g, <2>1, <2>2 DEF DriverOrderDetail
<1>8. CASE BidSheet
  <2>1. CASE sheet' = NoBid /\ dcalls' = Unmounted("bid") /\ UNCHANGED <<shownVars, active, placed>>
    BY <2>1, SheetClosed
  <2>2. CASE /\ sheet.st = "form" /\ sheet' = [sheet EXCEPT !.st = "loading"]
             /\ Ask([DCall("bid") EXCEPT !.of = sheet.of])
    <3> DEFINE call == [DCall("bid") EXCEPT !.of = sheet.of]
    <3>1. /\ call \in DriverCall /\ call.do = "bid" /\ call.own /\ call.phase = "call"
          /\ call.of = sheet.of
      BY <1>t DEF DCall, NoDCall, DriverCall, DriverTyped, Sheet
    <3> HIDE DEF call
    <3>2. Ask(call)
      BY <2>2 DEF call
    <3> QED BY <2>2, <3>1, <3>2, DriverCallMade
  <2> QED BY <1>8, <2>1, <2>2 DEF BidSheet
<1>9. ASSUME NEW s \in DriverCalls, Failed(s) PROVE DriverInv'
  <2>1. dcalls' = [CallsAt(dscreen) EXCEPT ![s] = NoDCall]
    BY <1>9 DEF Failed, DDone, CallsAt
  <2> QED BY <1>9, <2>1, NoDCallTyped, SheetAnswered DEF Failed, shownVars
<1>10. ASSUME NEW s \in DriverCalls, Reloaded(s) PROVE DriverInv'
  <2>1. dcalls' = [CallsAt(dscreen') EXCEPT ![s] = NoDCall] /\ dcalls[s].phase = "reload"
    BY <1>10 DEF Reloaded
  <2>2. /\ dcalls' \in [DriverCalls -> DriverCall] /\ dcalls'[s] = NoDCall
        /\ \A t \in DriverCalls \ {s} : /\ dcalls'[t].do = dcalls[t].do
                                        /\ dcalls[t].do # "save" => dcalls'[t] = dcalls[t]
    BY <2>1, CallsStay, NoDCallTyped
  <2>3. ~Awaits(s)
    BY <2>1 DEF DriverInv, SheetWaits
  <2>4. SameBids
    BY <2>2, <2>3, NoDCallTyped DEF SameBids, Awaits
  <2>5. SheetWaits'
    BY <1>10, <2>4, OtherStep DEF Reloaded
  <2> QED BY <1>t, <1>10, <2>2, <2>5 DEF Reloaded, DriverInv, DriverTyped
<1>11. ASSUME NEW s \in DriverCalls, Succeeded(s) PROVE DriverInv'
  <2> DEFINE k == Reloading(dcalls[s])
             awaited == dcalls[s].do \in OwnCalls
             to == IF dcalls[s].do = "advance" THEN dcalls[s].back ELSE None
  <2>a. awaited \in BOOLEAN /\ to \in MainTabs \cup {None}
    BY <1>t DEF DriverTyped, DriverCall
  <2>b. k = [dcalls[s] EXCEPT !.phase = "reload", !.of = None, !.own = awaited, !.back = to]
    BY DEF Reloading
  <2>c. awaited => dcalls[s].do # "bid"
    BY DEF OwnCalls
  <2> HIDE DEF awaited, to, k
  <2>1. k \in DriverCall /\ k.do = dcalls[s].do /\ k.own = awaited
    BY <1>t, <2>a, <2>b DEF DriverTyped, DriverCall
  <2>2. ~(k.do = "bid" /\ k.own)
    BY <2>1, <2>c
  <2>3. dcalls' = [CallsAt(dscreen') EXCEPT ![s] = k]
    BY <1>11 DEF Succeeded, k
  <2> QED BY <1>11, <2>1, <2>2, <2>3, SheetAnswered DEF Succeeded
<1>12. CASE Reopen
  <2>1. /\ dcalls' \in [DriverCalls -> DriverCall]
        /\ \A s \in DriverCalls : dcalls'[s].do \in {"idle", "load"}
    BY <1>12, LoadingTyped DEF Reopen
  <2> QED BY <1>12, <2>1 DEF Reopen, NoActive, Actives, MainTabs, NoBid, Sheet, DriverInv,
                             DriverTyped, SheetWaits, Awaits
<1> QED BY <1>1, <1>2, <1>3, <1>4, <1>5, <1>6, <1>7, <1>8, <1>9, <1>10, <1>11, <1>12 DEF DriverStep

\* For any orders and any number of calls, a sheet shows success only for an order
\* a bid was taken for, and while it waits its bid is in flight (BidSheet's go).
THEOREM SheetTellsItsBid == Spec => []SheetTellsOfItsBid
<1>1. Init => DriverInv
  <2> SUFFICES ASSUME Init PROVE DriverInv
    OBVIOUS
  <2>1. dcalls \in Loading \cup {[c \in DriverCalls |-> NoDCall]}
    BY DEF Init
  <2>2. /\ dcalls \in [DriverCalls -> DriverCall]
        /\ \A s \in DriverCalls : dcalls[s].do \in {"idle", "load"}
    BY <2>1, LoadingTyped, NoDCallTyped
  <2> QED BY <2>2 DEF Init, DriverInit, NoActive, Actives, MainTabs, NoBid, Sheet, DriverInv,
                      DriverTyped, SheetWaits, Awaits
<1>2. DriverInv /\ [Next]_vars => DriverInv'
  <2> SUFFICES ASSUME DriverInv, [Next]_vars PROVE DriverInv'
    OBVIOUS
  <2>1. CASE UNCHANGED driverVars
    BY <2>1 DEF DriverInv, DriverTyped, SheetWaits, Awaits, driverVars
  <2> QED BY <2>1, DriverStepKeeps DEF Next, SignIn, ClientPage, DriverPage, Desk, vars
<1>3. DriverInv => SheetTellsOfItsBid
    BY DEF DriverInv, SheetWaits, Awaits, SheetTellsOfItsBid
<1> QED BY <1>1, <1>2, <1>3, PTL DEF Spec

---------------------------------------------------------------------------
(* The ends of the route.  One pending choice serves both ends, but the map *)
(* and the districts are shown only for the end that is being chosen, and   *)
(* with the choice complete up to there.                                    *)

LocationPoint == [city : Cities \cup {None}, dist : Cities \cup {None}]

DraftInv ==
    /\ ctab \in Tabs
    /\ pending \in LocationPoint
    /\ ends \in [Side -> LocationPoint] /\ picked \in [Side -> LocationPoint]
    /\ \A s \in Side :
          /\ cscreen = DistrictScreen[s] => side = s /\ pending.city \in Parted
          /\ cscreen = MapScreen[s] => side = s /\ pending = Place(pending.city)
    /\ DraftKeepsChoices

LEMMA PlaceTyped ==
    /\ NoPlace \in LocationPoint
    /\ \A c \in Cities \cup {None} : Place(c) \in LocationPoint
  BY WebClientAssumption DEF NoPlace, Place, LocationPoint

\* Screens on which nothing is pending.
LEMMA ElsewhereShown ==
    ASSUME DraftInv, UNCHANGED choiceVars, ctab' \in Tabs,
           cscreen' = cscreen \/ \A s \in Side : cscreen' \notin {DistrictScreen[s], MapScreen[s]}
    PROVE  DraftInv'
  BY DEF DraftInv, DraftKeepsChoices, choiceVars

LEMMA ChoiceKeeps ==
    ASSUME DraftInv, NEW s \in Side, CitySelect(s) \/ DistrictSelect(s) \/ MapPicker(s)
    PROVE  DraftInv'
<1> USE DEF Side, CityScreen, DistrictScreen, MapScreen
<1>1. ASSUME NEW next, GoTo(next), next \in {"home", "city-select-from", "city-select-to"}
      PROVE  DraftInv'
    BY <1>1, ElsewhereShown DEF GoTo, Show, ShowWith, Still, DraftInv
<1>2. CASE CitySelect(s)
  <2>1. ASSUME NEW c \in Cities, HandleCity(c, s) PROVE DraftInv'
    <3>1. /\ side' = s /\ pending'.city = c /\ pending' \in LocationPoint
          /\ c \notin Parted => pending' = Place(c)
          /\ cscreen' = IF c \in Parted THEN DistrictScreen[s] ELSE MapScreen[s]
          /\ UNCHANGED <<ctab, ends, picked>>
      BY <2>1 DEF HandleCity, Show, ShowWith, Choosing, Place, DraftInv, LocationPoint
    <3> QED BY <3>1 DEF DraftInv, DraftKeepsChoices
  <2> QED BY <1>1, <1>2, <2>1 DEF CitySelect
<1>3. CASE DistrictSelect(s)
  <2>1. CASE HandleDistrict
    <3>1. /\ side = s /\ UNCHANGED <<side, ctab, ends, picked>>
          /\ cscreen' = MapScreen[s] /\ pending.city \in Parted
      BY <1>3, <2>1 DEF DistrictSelect, On, HandleDistrict, Show, ShowWith, Choosing, DraftInv
    <3>2. pending' = Place(pending.city)
      BY <2>1, <3>1 DEF HandleDistrict, Place, DraftInv, LocationPoint
    <3>3. pending' \in LocationPoint /\ pending'.city = pending.city
      BY <3>1, <3>2, PlaceTyped, WebClientAssumption DEF Place
    <3> QED BY <3>1, <3>2, <3>3 DEF DraftInv, DraftKeepsChoices
  <2> QED BY <1>1, <1>3, <2>1 DEF DistrictSelect
<1>4. CASE MapPicker(s)
  <2>1. side = s /\ pending = Place(pending.city) /\ pending.city \in Cities \cup {None}
    BY <1>4 DEF MapPicker, On, DraftInv, LocationPoint
  <2>2. CASE HandleConfirmLoc(s)
    BY <2>1, <2>2 DEF HandleConfirmLoc, Show, ShowWith, DraftInv, DraftKeepsChoices
  <2>3. CASE pending.city \in Parted /\ GoTo(DistrictScreen[s])
    BY <2>1, <2>3 DEF GoTo, Show, ShowWith, Still, choiceVars, DraftInv, DraftKeepsChoices
  <2> QED BY <1>1, <1>4, <2>2, <2>3 DEF MapPicker
<1> QED BY <1>2, <1>3, <1>4

LEMMA ClientStepKeeps == ASSUME DraftInv, ClientStep PROVE DraftInv'
<1> USE DEF Side, DistrictScreen, MapScreen
<1>1. ASSUME UNCHANGED <<choiceVars, cscreen, ctab>> PROVE DraftInv'
    BY <1>1, ElsewhereShown DEF DraftInv
<1>2. ASSUME NEW next \in Tabs \cup {"contacts", "cargo-photo", "order-review", "order-success",
                  "c-order-detail", "bids", "confirm-delivery", "rating", "dispute",
                  "c-settings", "c-support"},
             cscreen' = next, UNCHANGED choiceVars, ctab' \in Tabs
      PROVE  DraftInv'
    BY <1>2, ElsewhereShown DEF Tabs
<1>3. CASE ClientHome
  <2>1. ASSUME NEW s \in Side, SelectEnd(s) PROVE DraftInv'
    BY <2>1 DEF SelectEnd, Show, ShowWith, Choosing, CityScreen, DraftInv, DraftKeepsChoices
  <2> QED BY <1>2, <1>3, <2>1 DEF ClientHome, GoTo, Show, ShowWith, Still, DraftInv
<1>4. CASE Menu \/ HardwareBack
    BY <1>1, <1>2, <1>4 DEF Menu, HardwareBack, Show, ShowWith, Still, DraftInv
<1>5. CASE Detected
  <2>1. CASE UNCHANGED ends
    BY <1>1, <1>5, <2>1 DEF Detected, choiceVars
  <2>2. CASE ends["from"] = NoPlace /\ picked["from"] = NoPlace
    <3>1. ends' \in [Side -> LocationPoint] /\ ends'["to"] = ends["to"]
      BY <1>5, WebClientAssumption DEF Detected, DraftInv, LocationPoint
    <3> QED BY <1>5, <2>2, <3>1 DEF Detected, DraftInv, DraftKeepsChoices
  <2> QED BY <1>5, <2>1, <2>2 DEF Detected, DraftInv, DraftKeepsChoices
<1>6. CASE OrderSuccess
    BY <1>6, PlaceTyped DEF OrderSuccess, NoEnds, Show, ShowWith, Tabs, DraftInv, DraftKeepsChoices
<1>7. ASSUME NEW do, NEW held, Call(do, held) PROVE DraftInv'
    BY <1>1, <1>7 DEF Call, Still
<1>8. CASE OrderScreens /\ ~OrderSuccess
    BY <1>2, <1>7, <1>8
       DEF OrderScreens, Contacts, CargoPhoto, OrderReview, ClientOrders, OrderDetail, ClientBids,
           ConfirmDelivery, Rating, Dispute, GoTo, GoTab, Show, ShowWith, Still, Tabs, DraftInv
<1>9. CASE ClientProfile \/ Settings \/ Support
    BY <1>2, <1>9 DEF ClientProfile, Settings, Support, GoTo, GoTab, Show, ShowWith, Still, Tabs, DraftInv
<1>10. ASSUME NEW s \in WebCalls, Refused(s) \/ Proceeds(s) PROVE DraftInv'
    BY <1>1, <1>10 DEF Refused, Proceeds, Still
<1>11. ASSUME NEW s \in WebCalls, OrderPublished(s) \/ Answered(s) PROVE DraftInv'
    BY <1>2, <1>11 DEF OrderPublished, Answered, ShowWith, Still, Tabs, DraftInv
<1> QED BY <1>3, <1>4, <1>5, <1>6, <1>8, <1>9, <1>10, <1>11, ChoiceKeeps DEF ClientStep

LEMMA DraftHolds == Spec => []DraftInv
<1>1. Init => DraftInv
    BY PlaceTyped DEF Init, ClientInit, NoEnds, Side, Tabs, DistrictScreen, MapScreen,
                      DraftInv, DraftKeepsChoices
<1>2. DraftInv /\ [Next]_vars => DraftInv'
  <2> SUFFICES ASSUME DraftInv, [Next]_vars PROVE DraftInv'
    OBVIOUS
  <2>1. CASE UNCHANGED clientVars
    BY <2>1 DEF DraftInv, DraftKeepsChoices, clientVars, choiceVars
  <2> QED BY <2>1, ClientStepKeeps DEF Next, SignIn, ClientPage, DriverPage, Desk, vars
<1> QED BY <1>1, <1>2, PTL DEF Spec

\* Each end of the route is what was confirmed for it: choices for the other end
\* and the current location found late do not get into it (handleCity,
\* handleConfirmLoc), for any cities.
THEOREM ChoicesAreKept == Spec => []DraftKeepsChoices
<1>1. DraftInv => DraftKeepsChoices
    BY DEF DraftInv
<1> QED BY <1>1, DraftHolds, PTL

---------------------------------------------------------------------------
(* The draft.  As long as no screen is left while its call is in flight,    *)
(* every call is of the screen that shows: the two calls that publish are   *)
(* of the review, whose button each of them holds, and the screen of        *)
(* success, like those the menu opens on, shows with no call in flight.     *)

ScreenCall == [do : {"idle", "create", "publish", "cancel", "select", "confirm", "rate", "leave"},
               here : BOOLEAN]

\* No call is made from these.
QuietScreens == Tabs \cup {"order-success"}

Publishing(s) == ccalls[s].do \in {"create", "publish"}

OnceInv ==
    /\ ccalls \in [WebCalls -> ScreenCall]
    /\ ~crossed =>
        /\ \A s \in WebCalls : ccalls[s].do # "idle" => ccalls[s].here
        /\ \A s \in WebCalls : Publishing(s) => cscreen = "order-review"
        /\ cscreen \in QuietScreens => \A s \in WebCalls : ccalls[s].do = "idle"
        /\ menu => cscreen \in Tabs
        /\ published => cscreen = "order-success"
        /\ \A s, t \in WebCalls : Publishing(s) /\ Publishing(t) => s = t

\* A screen that is left with nothing in flight, or with its own call answered.
LEMMA ShownOnce ==
    ASSUME OnceInv, NEW next, NEW calls \in [WebCalls -> ScreenCall], ShowWith(next, calls),
           \A s \in WebCalls : calls[s].do # "idle" => calls[s] = ccalls[s],
           next # "order-success", ~crossed' => ~published' /\ (menu' => next \in Tabs)
    PROVE  OnceInv'
<1>1. ccalls' \in [WebCalls -> ScreenCall]
    BY DEF ShowWith, ScreenCall
<1>2. CASE crossed'
    BY <1>1, <1>2 DEF OnceInv
<1>3. CASE ~crossed' /\ next # cscreen
  <2>1. ~crossed /\ \A s \in WebCalls : ~calls[s].here
    BY <1>3 DEF ShowWith
  <2>2. \A s \in WebCalls : calls[s].do = "idle"
    BY <2>1 DEF OnceInv
  <2>3. \A s \in WebCalls : ccalls'[s].do = "idle"
    BY <1>3, <2>2 DEF ShowWith, ScreenCall
  <2> QED BY <1>1, <1>3, <2>3 DEF OnceInv, Publishing, ShowWith
<1>4. CASE ~crossed' /\ next = cscreen
  <2>1. /\ ccalls' = calls /\ cscreen' = cscreen /\ ~crossed /\ ~published'
        /\ \A s \in WebCalls : calls[s].do # "idle" => calls[s] = ccalls[s]
    BY <1>4 DEF ShowWith
  <2> QED BY <1>1, <1>4, <2>1 DEF OnceInv, Publishing, QuietScreens
<1> QED BY <1>2, <1>3, <1>4

\* Going somewhere else, with what is published left as it is.
LEMMA WentOnce ==
    ASSUME OnceInv, NEW next, Show(next), UNCHANGED published, ~menu', next # "order-success",
           cscreen # "order-success"
    PROVE  OnceInv'
<1>1. ~crossed => ~published
    BY DEF OnceInv
<1>2. crossed => crossed'
    BY DEF Show, ShowWith
<1> QED BY <1>1, <1>2, ShownOnce DEF Show, OnceInv

LEMMA NothingOnce ==
    ASSUME OnceInv, UNCHANGED <<cscreen, ccalls, crossed, published>>,
           menu' => menu \/ cscreen \in Tabs
    PROVE  OnceInv'
  BY DEF OnceInv, Publishing, QuietScreens

LEMMA CalledOnce ==
    ASSUME OnceInv, NEW do \in {"create", "cancel", "select", "confirm", "rate"}, NEW held,
           Call(do, held), cscreen \notin QuietScreens,
           do = "create" => cscreen = "order-review" /\ held = {"create", "publish"}
    PROVE  OnceInv'
<1>1. PICK s \in WebCalls : ccalls' = [ccalls EXCEPT ![s] = [do |-> do, here |-> TRUE]]
    BY DEF Call
<1>2. ccalls' \in [WebCalls -> ScreenCall]
    BY <1>1 DEF OnceInv, ScreenCall
<1>3. /\ UNCHANGED <<cscreen, menu, crossed, published>>
      /\ ccalls'[s] = [do |-> do, here |-> TRUE]
      /\ \A t \in WebCalls : t # s => ccalls'[t] = ccalls[t]
    BY <1>1 DEF Call, Still, OnceInv
<1>4. do = "create" /\ ~crossed => \A t \in WebCalls : ~Publishing(t)
    BY DEF Call, OnceInv, Publishing
<1> QED BY <1>2, <1>3, <1>4 DEF OnceInv, Publishing, QuietScreens

LEMMA AnsweredOnce ==
    ASSUME OnceInv, NEW s \in WebCalls,
           Refused(s) \/ Proceeds(s) \/ OrderPublished(s) \/ Answered(s)
    PROVE  OnceInv'
<1>1. /\ CDone(s) \in [WebCalls -> ScreenCall] /\ CDone(s)[s].do = "idle"
      /\ \A t \in WebCalls : t # s => CDone(s)[t] = ccalls[t]
    BY DEF CDone, NoCCall, ScreenCall, OnceInv
<1> HIDE DEF OnceInv
<1>2. CASE Refused(s)
  <2>1. ccalls' = CDone(s) /\ UNCHANGED <<cscreen, menu, crossed, published>>
    BY <1>2 DEF Refused, Still
  <2> QED BY <1>1, <2>1 DEF OnceInv, Publishing, QuietScreens
<1>3. CASE Proceeds(s)
  <2>1. PICK k : k = ccalls'[s]
    OBVIOUS
  <2>2. /\ k \in ScreenCall /\ k.here = ccalls[s].here
        /\ \/ ccalls[s].do = "create" /\ k.do = "publish"
           \/ ccalls[s].do = "rate" /\ k.do = "leave"
        /\ ccalls' = [ccalls EXCEPT ![s] = k]
    BY <1>3, <2>1 DEF Proceeds, OnceInv, ScreenCall
  <2>3. UNCHANGED <<cscreen, menu, crossed, published>>
    BY <1>3 DEF Proceeds, Still
  <2> QED BY <2>2, <2>3 DEF OnceInv, Publishing, QuietScreens
<1>4. CASE OrderPublished(s)
  <2>1. /\ published' /\ cscreen' = "order-success" /\ Publishing(s)
        /\ UNCHANGED menu /\ ccalls' \in [WebCalls -> ScreenCall]
    BY <1>1, <1>4 DEF OrderPublished, ShowWith, ScreenCall, Publishing
  <2>2. ASSUME ~crossed' PROVE ~menu /\ \A t \in WebCalls : ccalls'[t].do = "idle"
    <3>1. ~crossed /\ cscreen = "order-review" /\ ~menu
      BY <1>4, <2>1, <2>2 DEF OrderPublished, ShowWith, OnceInv, Tabs
    <3>2. \A t \in WebCalls : ~CDone(s)[t].here
      BY <1>4, <2>2, <3>1 DEF OrderPublished, ShowWith
    <3>3. \A t \in WebCalls : CDone(s)[t].do = "idle"
      BY <1>1, <3>1, <3>2 DEF OnceInv
    <3> QED BY <1>1, <1>4, <3>1, <3>3 DEF OrderPublished, ShowWith, ScreenCall
  <2> QED BY <2>1, <2>2 DEF OnceInv, Publishing, QuietScreens
<1>5. CASE Answered(s)
  <2>1. /\ ccalls[s].do # "idle" /\ UNCHANGED <<published, menu>>
        /\ \E next \in {"c-order-detail", "rating", "orders"} : ShowWith(next, CDone(s))
    BY <1>5 DEF Answered, Still
  <2>2. crossed => crossed'
    BY <2>1 DEF ShowWith
  <2>3. ~crossed => ~published /\ ~menu
    BY <2>1 DEF OnceInv, QuietScreens
  <2> QED BY <1>1, <2>1, <2>2, <2>3, ShownOnce
<1> QED BY <1>2, <1>3, <1>4, <1>5

LEMMA ClientStepOnce == ASSUME OnceInv, DraftInv, ClientStep PROVE OnceInv'
<1> USE DEF Side, CityScreen, DistrictScreen, MapScreen, On
<1>1. ASSUME NEW next, GoTo(next), ~menu, next # "order-success", cscreen # "order-success"
      PROVE  OnceInv'
    BY <1>1, WentOnce DEF GoTo, Still
<1>2. CASE ClientHome
    BY <1>1, <1>2, WentOnce DEF ClientHome, SelectEnd, Choosing
<1>3. CASE Menu
  <2>1. CASE UNCHANGED <<cscreen, ccalls, crossed>>
    BY <1>3, <2>1, NothingOnce DEF Menu, Still
  <2>2. ASSUME NEW next \in Tabs \cup {"c-support", "c-settings"}, Show(next), menu, ~menu'
        PROVE  OnceInv'
    <3>1. UNCHANGED published /\ next # "order-success" /\ (crossed => crossed')
      BY <1>3, <2>2 DEF Menu, Still, Tabs, Show, ShowWith
    <3>2. ~crossed => ~published
      BY <2>2 DEF OnceInv, Tabs
    <3>3. ccalls \in [WebCalls -> ScreenCall]
      BY DEF OnceInv
    <3> QED BY <2>2, <3>1, <3>2, <3>3, ShownOnce DEF Show
  <2> QED BY <1>3, <2>1, <2>2 DEF Menu
<1>4. CASE HardwareBack
  <2>1. ccalls' \in [WebCalls -> ScreenCall]
    BY <1>4 DEF HardwareBack, OnceInv, ScreenCall
  <2>2. ~crossed' => ~published /\ \A s \in WebCalls : ccalls[s].do = "idle"
    BY <1>4 DEF HardwareBack, OnceInv
  <2>3. UNCHANGED published /\ ~menu' /\ \A s \in WebCalls : ccalls'[s].do = ccalls[s].do
    BY <1>4, <2>1 DEF HardwareBack, Still, OnceInv, ScreenCall
  <2> QED BY <2>1, <2>2, <2>3 DEF OnceInv, Publishing, QuietScreens
<1>5. CASE Detected
    BY <1>5, NothingOnce DEF Detected
<1>6. ASSUME NEW s \in Side, CitySelect(s) \/ DistrictSelect(s) \/ MapPicker(s) PROVE OnceInv'
  <2>1. cscreen # "order-success" /\ ~menu
    BY <1>6 DEF CitySelect, DistrictSelect, MapPicker
  <2>2. ASSUME NEW next, Show(next), UNCHANGED <<menu, published>>, next # "order-success"
        PROVE  OnceInv'
    BY <2>1, <2>2, WentOnce
  <2>3. /\ CityScreen[s] # "order-success" /\ MapScreen[s] # "order-success"
        /\ DistrictScreen[s] # "order-success"
    OBVIOUS
  <2> HIDE DEF CityScreen, DistrictScreen, MapScreen
  <2>4. CASE CitySelect(s)
    BY <1>1, <2>1, <2>2, <2>3, <2>4 DEF CitySelect, HandleCity, Choosing
  <2>5. CASE DistrictSelect(s)
    <3>1. side = s
      BY <2>5 DEF DistrictSelect, DraftInv
    <3> QED BY <1>1, <2>1, <2>2, <2>3, <2>5, <3>1 DEF DistrictSelect, HandleDistrict, Choosing
  <2>6. CASE MapPicker(s)
    BY <1>1, <2>1, <2>2, <2>3, <2>6 DEF MapPicker, HandleConfirmLoc
  <2> QED BY <1>6, <2>4, <2>5, <2>6
<1>7. CASE OrderSuccess
    BY <1>7, ShownOnce DEF OrderSuccess, Show, OnceInv
<1>a. ASSUME NEW tab \in Tabs, GoTab(tab), ~menu, cscreen # "order-success" PROVE OnceInv'
    BY <1>a, WentOnce DEF GoTab, Still, Tabs
<1>8. CASE Contacts \/ CargoPhoto \/ ClientOrders \/ Dispute \/ ClientProfile \/ Settings \/ Support
    BY <1>1, <1>8, <1>a DEF Contacts, CargoPhoto, ClientOrders, Dispute, ClientProfile, Settings,
                           Support, Tabs
<1>9. CASE OrderReview \/ OrderDetail \/ ClientBids \/ ConfirmDelivery \/ Rating
    BY <1>1, <1>9, <1>a, CalledOnce
       DEF OrderReview, OrderDetail, ClientBids, ConfirmDelivery, Rating, Tabs, QuietScreens
<1> QED BY <1>2, <1>3, <1>4, <1>5, <1>6, <1>7, <1>8, <1>9, AnsweredOnce
       DEF ClientStep, OrderScreens

\* A draft is published once: its review holds the button through both calls,
\* creating the order and publishing it, and the draft is dropped with the screen
\* of success - as long as no screen was left under its call (publishOrder).
THEOREM DraftIsPublishedOnce == Spec => []DraftPublishedOnce
<1>1. Init => OnceInv
    BY DEF Init, ClientInit, NoCCall, OnceInv, ScreenCall, Publishing
<1>2. DraftInv /\ OnceInv /\ [Next]_vars => OnceInv'
  <2> SUFFICES ASSUME DraftInv, OnceInv, [Next]_vars PROVE OnceInv'
    OBVIOUS
  <2>1. CASE UNCHANGED clientVars
    BY <2>1, NothingOnce DEF clientVars
  <2> QED BY <2>1, ClientStepOnce DEF Next, SignIn, ClientPage, DriverPage, Desk, vars
<1>3. OnceInv => DraftPublishedOnce
    BY DEF OnceInv, DraftPublishedOnce, Publishing
<1> QED BY <1>1, <1>2, <1>3, DraftHolds, PTL DEF Spec

---------------------------------------------------------------------------
(* Signing in.  A role has a claim when its tokens are stored or are being  *)
(* renewed, when its page was entered, and when a check that the page still *)
(* waits for was made with its tokens: each of these can become the page    *)
(* that shows or the tokens that are stored.  No two roles have a claim.    *)

Pages == Mobile \cup {"auth", "loading", "admin", "admin-checking", "admin-login"}

SignCall == [do : {"idle", "check", "load", "logout", "request", "verify", "resend"},
             role : Mobile \cup {None}, owner : Mobile \cup {None},
             renewal : {"not-yet", "under-way", "over"}, maker : {"gone", "page", "screen"}]

\* A check whose answer is taken.
Live(s) == waiting[s].do = "check" /\ waiting[s].maker # "gone"

Claim(r) ==
    \/ saved = r
    \/ page = r /\ ~typed
    \/ \E s \in SignCalls : waiting[s].owner = r /\ (waiting[s].renewal = "under-way" \/ Live(s))

SignInv ==
    /\ build \in Builds /\ page \in Pages /\ role \in Mobile /\ saved \in Mobile \cup {None}
    /\ waiting \in [SignCalls -> SignCall]
    /\ \A s \in SignCalls :
          /\ waiting[s].do \in {"check", "verify"} => waiting[s].role \in Mobile
          /\ Live(s) => page \in {"auth", "loading"}

OneClaim == ~overtaken => \A q, r \in Mobile : Claim(q) /\ Claim(r) => q = r

LEMMA WaitTyped ==
    /\ NoWait.do = "idle" /\ NoWait.renewal = "not-yet" /\ NoWait.maker = "gone"
    /\ NoWait \in SignCall
  BY DEF NoWait, SignCall

LEMMA WaitMade ==
    ASSUME NEW do \in {"check", "load", "logout", "request", "verify", "resend"},
           NEW r \in Mobile \cup {None}, NEW o \in Mobile \cup {None}, NEW m \in {"page", "screen"}
    PROVE  /\ Wait(do, r, o, m) \in SignCall
           /\ Wait(do, r, o, m).do = do /\ Wait(do, r, o, m).role = r
           /\ Wait(do, r, o, m).owner = o /\ Wait(do, r, o, m).maker = m
           /\ Wait(do, r, o, m).renewal = "not-yet"
  BY DEF NoWait, Wait, SignCall

LEMMA DoneTyped ==
    ASSUME SignInv, NEW s \in SignCalls
    PROVE  /\ Done(s) \in [SignCalls -> SignCall] /\ Done(s)[s] = NoWait
           /\ \A c \in SignCalls : c # s => Done(s)[c] = waiting[c]
  BY WaitTyped DEF SignInv, Done

\* Nothing gets a claim, and nothing else that matters moves.
LEMMA ClaimsKept ==
    ASSUME OneClaim, UNCHANGED overtaken, \A r \in Mobile : Claim(r)' => Claim(r) PROVE OneClaim'
  BY DEF OneClaim

\* Calls that are over, or that only lose their screen.
LEMMA OthersKept ==
    ASSUME SignInv, OneClaim, UNCHANGED <<build, page, saved, typed, overtaken>>, role' \in Mobile,
           waiting' \in [SignCalls -> SignCall],
           \A s \in SignCalls :
               \/ waiting'[s] = NoWait
               \/ /\ waiting'[s].do = waiting[s].do /\ waiting'[s].role = waiting[s].role
                  /\ waiting'[s].owner = waiting[s].owner
                  /\ waiting'[s].renewal = waiting[s].renewal
                  /\ waiting'[s].maker # "gone" => waiting[s].maker # "gone"
    PROVE  SignInv' /\ OneClaim'
<1>1. \A s \in SignCalls : Live(s)' => Live(s) /\ waiting'[s].owner = waiting[s].owner
    BY WaitTyped DEF Live
<1>2. SignInv'
    BY <1>1, WaitTyped DEF SignInv
<1>3. \A r \in Mobile : Claim(r)' => Claim(r)
    BY <1>1, WaitTyped DEF Claim
<1> QED BY <1>2, <1>3, ClaimsKept

LEMMA LeftScreenTyped ==
    ASSUME NEW calls \in [SignCalls -> SignCall]
    PROVE  /\ LeftScreen(calls) \in [SignCalls -> SignCall]
           /\ \A s \in SignCalls :
                 \/ LeftScreen(calls)[s] = calls[s]
                 \/ /\ calls[s].maker = "screen" /\ LeftScreen(calls)[s].maker = "page"
                    /\ LeftScreen(calls)[s].do = calls[s].do
                    /\ LeftScreen(calls)[s].role = calls[s].role
                    /\ LeftScreen(calls)[s].owner = calls[s].owner
                    /\ LeftScreen(calls)[s].renewal = calls[s].renewal
  BY DEF LeftScreen, SignCall

\* Whatever is waited for once a page was entered, renewals apart: the check of
\* the sign-in page, made with the tokens stored by then.
Awaited(w, calls, q, tokens) ==
    /\ w \in [SignCalls -> SignCall]
    /\ \A s \in SignCalls :
          /\ w[s].do \in {"check", "verify"} => w[s].role \in Mobile
          /\ w[s].do = "check" /\ w[s].maker # "gone" => q = "auth" /\ w[s].owner = tokens
          /\ w[s].renewal = "under-way" =>
                calls[s].renewal = "under-way" /\ calls[s].owner = w[s].owner

LEMMA CheckingMade ==
    ASSUME NEW calls \in [SignCalls -> SignCall], NEW q, NEW r \in Mobile,
           NEW tokens \in Mobile \cup {None}, NEW w \in Checking(calls, q, r, tokens),
           \A s \in SignCalls : calls[s].do \in {"check", "verify"} => calls[s].role \in Mobile
    PROVE  Awaited(w, calls, q, tokens)
<1> DEFINE left == [s \in SignCalls |-> IF q = page /\ calls[s].do # "check" THEN calls[s]
                                        ELSE [calls[s] EXCEPT !.maker = "gone"]]
<1>1. /\ left \in [SignCalls -> SignCall]
      /\ \A s \in SignCalls :
            /\ left[s].do = calls[s].do /\ left[s].role = calls[s].role
            /\ left[s].renewal = calls[s].renewal /\ left[s].owner = calls[s].owner
            /\ left[s].do = "check" => left[s].maker = "gone"
    BY DEF SignCall
<1>2. \/ w = left
      \/ /\ q = "auth"
         /\ \E s \in SignCalls : w = [left EXCEPT ![s] = Wait("check", r, tokens, "page")]
    BY DEF Checking
<1> HIDE DEF left
<1>3. CASE w = left
    BY <1>1, <1>3 DEF Awaited
<1>4. ASSUME q = "auth", NEW s \in SignCalls, NEW k, k = Wait("check", r, tokens, "page"),
             w = [left EXCEPT ![s] = k]
      PROVE  /\ w \in [SignCalls -> SignCall]
             /\ \A c \in SignCalls : c # s => w[c] = left[c]
             /\ w[s].do = "check" /\ w[s].role = r /\ w[s].owner = tokens
             /\ w[s].renewal = "not-yet"
  <2>1. k \in SignCall /\ k.do = "check" /\ k.role = r /\ k.owner = tokens /\ k.renewal = "not-yet"
    BY <1>4, WaitMade
  <2> QED BY <1>1, <1>4, <2>1
<1> QED BY <1>1, <1>2, <1>3, <1>4 DEF Awaited

\* Another page gives a claim to its own role and to the tokens stored with it,
\* and takes that of the checks of the page that was left.
LEMMA Entered ==
    ASSUME SignInv, UNCHANGED build, NEW p \in Mobile \cup {"auth"},
           NEW tokens \in Mobile \cup {None}, NEW calls \in [SignCalls -> SignCall],
           \A s \in SignCalls : calls[s] = NoWait \/ calls[s] = waiting[s],
           Enter(p, tokens, calls)
    PROVE  /\ SignInv'
           /\ \A r \in Mobile : Claim(r)' =>
                 \/ r = tokens \/ r = p
                 \/ p = "auth" /\ Claim(r)
                 \/ \E s \in SignCalls : waiting[s].owner = r /\ waiting[s].renewal = "under-way"
<1> DEFINE next == IF build = "web" /\ p \in Mobile /\ tokens = None THEN "auth" ELSE p
<1>1. /\ page' = next /\ saved' = tokens /\ next \in {p, "auth"} /\ next \in Pages
      /\ p = page => UNCHANGED <<role, typed>> /\ waiting' = calls
      /\ p # page => /\ role' \in {role, "client"}
                     /\ waiting' \in Checking(calls, next, role, tokens)
    BY DEF Enter, Pages
<1>2. next = p \/ (next = "auth" /\ tokens = None)
    OBVIOUS
<1> HIDE DEF next
<1>3. \A s \in SignCalls : calls[s].do \in {"check", "verify"} => calls[s].role \in Mobile
    BY WaitTyped DEF SignInv
<1>4. CASE p # page
  <2>1. /\ waiting' \in [SignCalls -> SignCall]
        /\ \A s \in SignCalls :
              /\ waiting'[s].do \in {"check", "verify"} => waiting'[s].role \in Mobile
              /\ waiting'[s].do = "check" /\ waiting'[s].maker # "gone" =>
                    next = "auth" /\ waiting'[s].owner = tokens
              /\ waiting'[s].renewal = "under-way" =>
                    calls[s].renewal = "under-way" /\ calls[s].owner = waiting'[s].owner
    <3>1. role \in Mobile
      BY DEF SignInv
    <3>2. PICK w \in Checking(calls, next, role, tokens) : w = waiting'
      BY <1>1, <1>4
    <3>3. Awaited(w, calls, next, tokens)
      BY <1>3, <3>1, CheckingMade
    <3> QED BY <3>2, <3>3 DEF Awaited
  <2>2. SignInv'
    BY <1>1, <1>4, <2>1 DEF SignInv, Live, Mobile
  <2>3. \A s \in SignCalls : waiting'[s].renewal = "under-way" =>
              waiting[s].renewal = "under-way" /\ waiting[s].owner = waiting'[s].owner
    BY <2>1, WaitTyped
  <2>4. \A r \in Mobile : page' = r => r = p
    BY <1>1 DEF Mobile
  <2> QED BY <1>1, <2>1, <2>2, <2>3, <2>4 DEF Claim, Live
<1>5. CASE p = page
  <2>1. /\ UNCHANGED <<role, typed>> /\ waiting' = calls /\ page' \in {page, "auth"}
        /\ page' = page \/ page \in Mobile
    BY <1>1, <1>2, <1>5
  <2>2. \A s \in SignCalls : Live(s)' => Live(s) /\ waiting'[s] = waiting[s]
    BY <2>1, WaitTyped DEF Live
  <2>3. SignInv'
    BY <1>1, <1>3, <2>1, <2>2 DEF SignInv, Mobile
  <2>4. \A s \in SignCalls : waiting'[s].renewal = "under-way" => waiting'[s] = waiting[s]
    BY <2>1, WaitTyped
  <2>5. \A s \in SignCalls : Live(s)' => p = "auth"
    BY <1>5, <2>2 DEF SignInv, Mobile
  <2> QED BY <1>1, <2>1, <2>2, <2>3, <2>4, <2>5 DEF Claim, Mobile
<1> QED BY <1>4, <1>5

LEMMA CallSent ==
    ASSUME SignInv, OneClaim, NEW do \in {"load", "logout", "request", "verify", "resend"},
           NEW r \in Mobile, NEW o \in Mobile \cup {None}, NEW m \in {"page", "screen"},
           Send(Wait(do, r, o, m)), UNCHANGED build
    PROVE  SignInv' /\ OneClaim'
<1>1. PICK k : k = Wait(do, r, o, m)
    OBVIOUS
<1>2. k \in SignCall /\ k.do = do /\ k.role = r /\ k.renewal = "not-yet"
    BY <1>1, WaitMade
<1>3. PICK s \in SignCalls : waiting' = [waiting EXCEPT ![s] = k]
    BY <1>1 DEF Send, Stay
<1>4. UNCHANGED <<page, role, saved, typed, overtaken>>
    BY DEF Send, Stay
<1>5. /\ waiting' \in [SignCalls -> SignCall] /\ waiting'[s] = k
      /\ \A c \in SignCalls : c # s => waiting'[c] = waiting[c]
    BY <1>2, <1>3 DEF SignInv
<1>6. SignInv'
    BY <1>2, <1>4, <1>5 DEF SignInv, Live
<1>7. \A q \in Mobile : Claim(q)' => Claim(q)
    BY <1>2, <1>4, <1>5 DEF Claim, Live
<1> QED BY <1>4, <1>6, <1>7, ClaimsKept

LEMMA SignInScreens ==
    ASSUME SignInv, OneClaim, AuthFlow \/ RolePage \/ AdminPage, UNCHANGED build
    PROVE  SignInv' /\ OneClaim'
<1> role \in Mobile /\ saved \in Mobile \cup {None}
    BY DEF SignInv
<1>1. ASSUME NEW next, ShowStep(next) PROVE SignInv' /\ OneClaim'
  <2>1. /\ UNCHANGED <<page, role, saved, typed, overtaken>>
        /\ waiting' = LeftScreen(waiting) /\ waiting \in [SignCalls -> SignCall]
    BY <1>1 DEF ShowStep, SignInv
  <2> QED BY <2>1, LeftScreenTyped, OthersKept
<1>2. ASSUME NEW do \in {"request", "verify"}, Press(do) PROVE SignInv' /\ OneClaim'
    BY <1>2, CallSent DEF Press
<1>3. CASE ChooseRole /\ page = "auth"
  <2>1. PICK r \in Mobile : /\ role' = r
                            /\ waiting' \in IF r = role THEN {waiting}
                                            ELSE Checking(waiting, page, r, saved)
    BY <1>3 DEF ChooseRole
  <2>2. UNCHANGED <<page, saved, typed, overtaken>>
    BY <1>3 DEF ChooseRole
  <2>3. CASE r = role
    BY <2>1, <2>2, <2>3, OthersKept DEF SignInv
  <2>4. CASE waiting' \in Checking(waiting, page, r, saved)
    <3>1. Awaited(waiting', waiting, page, saved)
      BY <2>4, CheckingMade DEF SignInv
    <3>2. SignInv'
      BY <1>3, <2>1, <2>2, <3>1 DEF SignInv, Live, Awaited
    <3>3. \A q \in Mobile : Claim(q)' => Claim(q)
      BY <2>2, <3>1 DEF Claim, Live, Awaited
    <3> QED BY <2>2, <3>2, <3>3, ClaimsKept
  <2> QED BY <2>1, <2>3, <2>4
<1>4. CASE AuthFlow
    BY <1>1, <1>2, <1>3, <1>4, CallSent
       DEF AuthFlow, SplashScreen, OnboardingScreen, RoleSelectScreen, PhoneScreen, OtpScreen
<1>5. CASE RolePage
    BY <1>5, CallSent DEF RolePage
<1>6. CASE AdminPage
  <2>1. /\ UNCHANGED <<role, saved, waiting, typed, overtaken>>
        /\ {page, page'} \subseteq {"admin", "admin-login", "admin-checking"}
    BY <1>6 DEF AdminPage
  <2>2. SignInv'
    BY <2>1 DEF SignInv, Live, Pages
  <2>3. \A r \in Mobile : Claim(r)' => Claim(r)
    BY <2>1 DEF Claim, Live, Mobile
  <2> QED BY <2>1, <2>2, <2>3, ClaimsKept
<1> QED BY <1>4, <1>5, <1>6

\* The address of a page drops what is in flight: the tokens stored are all
\* that is left.
LEMMA AddressOpened ==
    ASSUME SignInv, OpenAddress, UNCHANGED build PROVE SignInv' /\ OneClaim'
<1>1. PICK p \in Mobile \cup {"auth", "admin"} :
          /\ page' = IF p \in Mobile /\ saved = None THEN "auth"
                     ELSE IF p = "admin" THEN IF staff THEN "admin-checking" ELSE "admin-login"
                     ELSE p
          /\ typed' = (p \in Mobile /\ saved # p)
    BY DEF OpenAddress
<1>2. /\ UNCHANGED saved /\ role' = "driver" /\ ~overtaken'
      /\ waiting' \in Checking([s \in SignCalls |-> NoWait], page', "driver", saved)
    BY DEF OpenAddress
<1> DEFINE calls == [s \in SignCalls |-> NoWait]
<1>3. /\ calls \in [SignCalls -> SignCall]
      /\ \A s \in SignCalls : calls[s].do = "idle" /\ calls[s].renewal = "not-yet"
    BY WaitTyped
<1>4. "driver" \in Mobile /\ saved \in Mobile \cup {None}
    BY DEF Mobile, SignInv
<1>5. waiting' \in Checking(calls, page', "driver", saved)
    BY <1>2
<1> HIDE DEF calls
<1>6. Awaited(waiting', calls, page', saved)
    BY <1>3, <1>4, <1>5, CheckingMade
<1>7. /\ waiting' \in [SignCalls -> SignCall]
      /\ \A s \in SignCalls : /\ waiting'[s].do \in {"check", "verify"} =>
                                    waiting'[s].role \in Mobile
                              /\ Live(s)' => page' = "auth" /\ waiting'[s].owner = saved
                              /\ waiting'[s].renewal # "under-way"
    BY <1>3, <1>6 DEF Awaited, Live
<1>8. page' \in Pages
    BY <1>1 DEF Pages, Mobile
<1>9. SignInv'
    BY <1>2, <1>4, <1>7, <1>8 DEF SignInv
<1>10. \A r \in Mobile : page' = r /\ ~typed' => saved = r
    BY <1>1 DEF Mobile
<1>11. \A r \in Mobile : Claim(r)' => saved = r
    BY <1>2, <1>7, <1>10 DEF Claim
<1> QED BY <1>9, <1>11 DEF OneClaim

\* Answers that leave page and tokens alone.
LEMMA AnswerLeaves ==
    ASSUME SignInv, OneClaim, NEW s \in SignCalls, waiting' = Done(s),
           UNCHANGED <<build, page, role, saved, typed, overtaken>>
    PROVE  SignInv' /\ OneClaim'
<1>1. /\ waiting' \in [SignCalls -> SignCall] /\ role' \in Mobile
      /\ \A c \in SignCalls : waiting'[c] = NoWait \/ waiting'[c] = waiting[c]
    BY DoneTyped DEF SignInv
<1> QED BY <1>1, OthersKept

LEMMA SignInAnswers ==
    ASSUME SignInv, OneClaim, UNCHANGED build, NEW s \in SignCalls,
           \/ Checked(s) \/ Unauthorized(s) \/ Renewed(s) \/ CodeRequested(s)
           \/ Verified(s) \/ Loaded(s) \/ LoggedOut(s)
    PROVE  SignInv' /\ OneClaim'
<1> DEFINE calls == Done(s)
<1>a. /\ calls \in [SignCalls -> SignCall]
      /\ \A c \in SignCalls : calls[c] = NoWait \/ calls[c] = waiting[c]
    BY DoneTyped
<1>b. /\ saved \in Mobile \cup {None} /\ None \in Mobile \cup {None}
      /\ waiting[s] \in SignCall /\ waiting \in [SignCalls -> SignCall]
    BY DEF SignInv
<1> HIDE DEF calls
<1>c. ASSUME Stay(calls), UNCHANGED overtaken PROVE SignInv' /\ OneClaim'
    BY <1>c, AnswerLeaves DEF Stay, calls
\* Where the page that is entered, and the tokens, had a claim already.
<1>d. ASSUME NEW p \in Mobile \cup {"auth"}, NEW tokens \in {saved, None}, Enter(p, tokens, calls),
             UNCHANGED overtaken, p \in Mobile => Claim(p)
      PROVE  SignInv' /\ OneClaim'
  <2>1. tokens \in Mobile \cup {None} /\ (tokens \in Mobile => Claim(tokens))
    BY <1>b, <1>d, WebSignInAssumption DEF Claim
  <2>2. SignInv' /\ \A r \in Mobile : Claim(r)' =>
           \/ r = tokens \/ r = p
           \/ Claim(r)
           \/ \E c \in SignCalls : waiting[c].owner = r /\ waiting[c].renewal = "under-way"
    BY <1>a, <1>d, <2>1, Entered
  <2>3. \A r \in Mobile : Claim(r)' => Claim(r)
    BY <1>d, <2>1, <2>2 DEF Claim
  <2> QED BY <1>d, <2>2, <2>3, ClaimsKept
<1>1. CASE Checked(s)
  <2>1. UNCHANGED overtaken
    BY <1>1 DEF Checked
  <2>2. ASSUME waiting[s].maker # "gone", waiting[s].owner = waiting[s].role,
               Enter(waiting[s].role, saved, calls)
        PROVE  SignInv' /\ OneClaim'
    <3>1. Live(s) /\ waiting[s].role \in Mobile
      BY <1>1, <2>2 DEF Checked, Live, SignInv
    <3>2. Claim(waiting[s].role)
      BY <2>2, <3>1 DEF Claim
    <3> QED BY <1>d, <2>1, <2>2, <3>1, <3>2
  <2>3. CASE Enter("auth", saved, calls)
    BY <1>d, <2>1, <2>3 DEF Mobile
  <2> QED BY <1>1, <1>c, <2>1, <2>2, <2>3 DEF Checked, calls
<1>2. CASE Unauthorized(s)
  <2>1. PICK k : k = [waiting[s] EXCEPT !.owner = saved, !.renewal = "under-way"]
    OBVIOUS
  <2>2. /\ k \in SignCall /\ k.do = waiting[s].do /\ k.role = waiting[s].role
        /\ k.owner = saved /\ k.maker = waiting[s].maker
    BY <1>b, <2>1 DEF SignCall
  <2>3. waiting' = [waiting EXCEPT ![s] = k]
    BY <1>2, <1>b, <2>1 DEF Unauthorized, Stay, SignCall
  <2>4. UNCHANGED <<page, role, saved, typed, overtaken>>
    BY <1>2 DEF Unauthorized, Stay
  <2>5. /\ waiting' \in [SignCalls -> SignCall] /\ waiting'[s] = k
        /\ \A c \in SignCalls : c # s => waiting'[c] = waiting[c]
    BY <1>b, <2>2, <2>3
  <2>6. SignInv'
    BY <2>2, <2>4, <2>5 DEF SignInv, Live
  <2>7. \A r \in Mobile : Claim(r)' => Claim(r)
    BY <2>2, <2>4, <2>5 DEF Claim, Live
  <2> QED BY <2>4, <2>6, <2>7, ClaimsKept
<1>3. CASE Renewed(s)
  <2>1. PICK k : k = waiting'[s]
    OBVIOUS
  <2>2. /\ k \in SignCall /\ k.do = waiting[s].do /\ k.role = waiting[s].role
        /\ k.owner \in {waiting[s].owner, None} /\ k.maker = waiting[s].maker
        /\ k.renewal = "over"
    BY <1>3, <1>b, <2>1 DEF Renewed, SignCall
  <2>3. waiting' = [waiting EXCEPT ![s] = k]
    BY <1>3, <1>b, <2>1 DEF Renewed, SignCall
  <2>4. /\ UNCHANGED <<page, role, typed, overtaken>>
        /\ waiting[s].renewal = "under-way" /\ saved' \in {waiting[s].owner, None, saved}
    BY <1>3 DEF Renewed
  <2>5. /\ waiting' \in [SignCalls -> SignCall] /\ waiting'[s] = k
        /\ \A c \in SignCalls : c # s => waiting'[c] = waiting[c]
    BY <1>b, <2>2, <2>3
  <2>6. SignInv'
    BY <1>b, <2>2, <2>4, <2>5 DEF SignInv, Live, SignCall
  <2>7. \A r \in Mobile : Claim(r)' => Claim(r)
    BY <2>2, <2>4, <2>5, WebSignInAssumption DEF Claim, Live
  <2> QED BY <2>4, <2>6, <2>7, ClaimsKept
<1>4. CASE CodeRequested(s)
  <2>1. /\ UNCHANGED <<page, role, saved, typed, overtaken>>
        /\ waiting' = calls \/ waiting' = LeftScreen(calls)
    BY <1>4 DEF CodeRequested, calls
  <2>2. CASE waiting' = LeftScreen(calls)
    <3>1. /\ waiting' \in [SignCalls -> SignCall] /\ role' \in Mobile
          /\ \A c \in SignCalls : waiting'[c] = calls[c] \/
                /\ calls[c].maker = "screen" /\ waiting'[c].maker = "page"
                /\ waiting'[c].do = calls[c].do /\ waiting'[c].role = calls[c].role
                /\ waiting'[c].owner = calls[c].owner /\ waiting'[c].renewal = calls[c].renewal
      BY <1>a, <2>1, <2>2, LeftScreenTyped DEF SignInv
    <3>2. \A c \in SignCalls : calls[c].maker = "screen" => calls[c] = waiting[c]
      BY <1>a, WaitTyped
    <3>3. \A c \in SignCalls :
               \/ waiting'[c] = NoWait
               \/ /\ waiting'[c].do = waiting[c].do /\ waiting'[c].role = waiting[c].role
                  /\ waiting'[c].owner = waiting[c].owner
                  /\ waiting'[c].renewal = waiting[c].renewal
                  /\ waiting'[c].maker # "gone" => waiting[c].maker # "gone"
      BY <1>a, <3>1, <3>2
    <3> QED BY <2>1, <3>1, <3>3, OthersKept
  <2> QED BY <2>1, <2>2, AnswerLeaves DEF calls
<1>5. CASE Verified(s)
  <2> DEFINE r == waiting[s].role
  <2>1. r \in Mobile
    BY <1>5 DEF Verified, SignInv
  <2> DEFINE others == \E c \in SignCalls : /\ waiting[c].renewal = "under-way"
                                             /\ waiting[c].owner # waiting[s].role
  <2>2. CASE Enter(r, r, calls) /\ ~overtaken' /\ ~others
    <3>1. \A c \in SignCalls : waiting[c].renewal = "under-way" => waiting[c].owner = r
      BY <2>2
    <3> HIDE DEF r
    <3>2. SignInv' /\ \A q \in Mobile : Claim(q)' => q = r
      BY <1>a, <2>1, <2>2, <3>1, Entered DEF Mobile
    <3> QED BY <3>2 DEF OneClaim
  <2>3. CASE Enter(r, r, calls) /\ overtaken'
    <3> HIDE DEF r
    <3>1. SignInv'
      BY <1>a, <2>1, <2>3, Entered
    <3> QED BY <2>3, <3>1 DEF OneClaim
  <2>4. \/ Enter(r, r, calls) /\ overtaken' = (overtaken \/ others)
        \/ Stay(calls) /\ UNCHANGED overtaken
    BY <1>5 DEF Verified, calls
  <2> QED BY <1>c, <2>2, <2>3, <2>4
<1>6. CASE Loaded(s)
    BY <1>6, <1>c DEF Loaded, calls
<1>7. CASE LoggedOut(s)
    BY <1>7, <1>d DEF LoggedOut, Mobile, calls
<1> QED BY <1>1, <1>2, <1>3, <1>4, <1>5, <1>6, <1>7

\* The client's and the driver's page call with tokens of their own role: what
\* checks, renewals, sign-ins and sign-outs of any number leave on the screen and
\* in the store is of one role, the two known ways to part them aside (AuthPage,
\* sessionRefreshMe, verifyOtpFor, sessionLogout).
THEOREM PageCallsForItsRole == Spec => []PageMatchesTokens
<1>1. Init => SignInv /\ OneClaim
  <2> SUFFICES ASSUME Init PROVE SignInv /\ OneClaim
    OBVIOUS
  <2>1. /\ build \in Builds /\ saved \in Mobile \cup {None} /\ page \in {"loading", "auth"}
        /\ role \in Mobile
    BY DEF Init, SignInInit, Mobile
  <2> DEFINE k == Wait("check", IF build = "web" THEN role ELSE saved, saved, "page")
  <2>2. \E t \in SignCalls :
            waiting = [c \in SignCalls |-> IF c # t \/ saved = None THEN NoWait ELSE k]
    BY DEF Init, SignInInit
  <2>3. saved # None => /\ k \in SignCall /\ k.do = "check" /\ k.owner = saved
                        /\ k.role \in Mobile /\ k.renewal = "not-yet"
    BY <2>1, WaitMade
  <2> HIDE DEF k
  <2>4. /\ waiting \in [SignCalls -> SignCall]
        /\ \A c \in SignCalls : waiting[c] = NoWait \/ (waiting[c] = k /\ saved # None)
    BY <2>2, <2>3, WaitTyped
  <2>5. SignInv
    BY <2>1, <2>3, <2>4, WaitTyped DEF SignInv, Live, Pages
  <2>6. \A r \in Mobile : Claim(r) => r = saved
    BY <2>1, <2>3, <2>4, WaitTyped DEF Claim, Live, Mobile
  <2> QED BY <2>5, <2>6 DEF OneClaim
<1>2. SignInv /\ OneClaim /\ [Next]_vars => SignInv' /\ OneClaim'
  <2> SUFFICES ASSUME SignInv, OneClaim, [Next]_vars PROVE SignInv' /\ OneClaim'
    OBVIOUS
  <2>1. CASE UNCHANGED <<build, signVars>>
    <3>1. /\ UNCHANGED <<build, page, saved, role, typed, overtaken, waiting>>
          /\ role \in Mobile /\ waiting \in [SignCalls -> SignCall]
      BY <2>1 DEF signVars, SignInv
    <3> QED BY <3>1, OthersKept
  <2>2. CASE SignInStep /\ UNCHANGED build
    BY <2>2, SignInScreens, AddressOpened, SignInAnswers DEF SignInStep
  <2> QED BY <2>1, <2>2 DEF Next, SignIn, ClientPage, DriverPage, Desk, vars
<1>3. SignInv /\ OneClaim => PageMatchesTokens
    BY DEF SignInv, OneClaim, Claim, PageMatchesTokens
<1> QED BY <1>1, <1>2, <1>3, PTL DEF Spec
=============================================================================
