----------------------------- MODULE MobileProofs -----------------------------
(***************************************************************************)
(* Theorems about MobileApp, for any number of works and calls in flight,  *)
(* any orders and records, any limit of guesses and any staff.             *)
(***************************************************************************)
EXTENDS MobileApp, TLAPS

---------------------------------------------------------------------------
(* The staff session.  Unless someone signed out with a call in flight,    *)
(* every call in flight carries the one user the page shows, so no answer  *)
(* can bring another one; and a page that shows nobody waits for one sign- *)
(* in at most.                                                             *)

StaffCall == [do : {"idle", "verify", "load", "profile"}, as : StaffOrNobody, renewing : BOOLEAN]

StaffTyped ==
    /\ page \in StaffOrNobody /\ stored \in StaffOrNobody /\ tokens \in StaffOrNobody
    /\ pageBusy \in BOOLEAN /\ late \in BOOLEAN
    /\ call \in [Calls -> StaffCall]

\* Every call carries the user of the page, and nothing else is stored.
OneUser ==
    /\ stored \in {page, Nobody} /\ tokens \in {page, Nobody}
    /\ tokens # Nobody => stored = page
    /\ \A c \in Calls :
          /\ call[c].do # "verify"
          /\ call[c].do \in {"load", "profile"} => call[c].as \in {page, Nobody}
          /\ call[c].renewing => call[c].as = page /\ call[c].do # "idle"

\* Nobody is signed in, and at most one sign-in is under way.
NoUser ==
    /\ stored = Nobody /\ tokens = Nobody
    /\ \A c \in Calls :
          /\ call[c].do \in {"idle", "verify"} /\ ~call[c].renewing
          /\ call[c].do = "verify" => pageBusy /\ call[c].as # Nobody
    /\ \A c, d \in Calls : call[c].do = "verify" /\ call[d].do = "verify" => c = d

StaffInv ==
    /\ StaffTyped
    /\ ~late => IF page = Nobody THEN NoUser ELSE OneUser

LEMMA SilenceTyped == Silence \in StaffCall /\ Silence.do = "idle" /\ ~Silence.renewing
  BY DEF Silence, StaffCall, StaffOrNobody

LEMMA CarryingTyped ==
    ASSUME NEW do \in {"verify", "load", "profile"}, NEW s \in StaffOrNobody
    PROVE  /\ Carrying(do, s) \in StaffCall
           /\ Carrying(do, s).do = do /\ Carrying(do, s).as = s /\ ~Carrying(do, s).renewing
  BY DEF Carrying, Silence, StaffCall, StaffOrNobody

LEMMA StaffStepKeeps == ASSUME StaffInv, StaffStep PROVE StaffInv'
<1> USE AdminStaffAssumption
<1>1. ASSUME NEW s \in Staff, Login(s) PROVE StaffInv'
  <2>1. PICK c \in Calls : call' = [call EXCEPT ![c] = Carrying("verify", s)]
    BY <1>1 DEF Login, Place
  <2>2. s \in StaffOrNobody /\ s # Nobody
    BY DEF StaffOrNobody
  <2> QED BY <1>1, <2>1, <2>2, CarryingTyped DEF Login, StaffInv, StaffTyped, NoUser
<1>2. ASSUME NEW c \in Calls, LoginAccepted(c) PROVE StaffInv'
  <2>1. /\ call'[c].do = "load" /\ call'[c].as = call[c].as /\ call'[c].renewing = call[c].renewing
        /\ call' \in [Calls -> StaffCall] /\ \A d \in Calls \ {c} : call'[d] = call[d]
    BY <1>2 DEF LoginAccepted, StaffInv, StaffTyped, StaffCall
  <2>2. call[c].as \in StaffOrNobody
    BY DEF StaffInv, StaffTyped, StaffCall
  <2>3. page = Nobody /\ ~late => OneUser'
    BY <1>2, <2>1, <2>2 DEF LoginAccepted, StaffInv, NoUser, OneUser
  <2>4. ~late => page = Nobody /\ page' # Nobody
    BY <1>2, <2>1 DEF LoginAccepted, StaffInv, NoUser, OneUser
  <2> QED BY <1>2, <2>1, <2>2, <2>3, <2>4 DEF LoginAccepted, StaffInv, StaffTyped
<1>3. CASE LoadAll
  <2>1. PICK c \in Calls : call' = [call EXCEPT ![c] = Carrying("load", tokens)]
    BY <1>3 DEF LoadAll, Place
  <2> QED BY <1>3, <2>1, CarryingTyped DEF LoadAll, StaffInv, StaffTyped, OneUser
<1>4. CASE AskProfile
  <2>1. PICK c \in Calls : call' = [call EXCEPT ![c] = Carrying("profile", tokens)]
    BY <1>4 DEF AskProfile, Place
  <2> QED BY <1>4, <2>1, CarryingTyped DEF AskProfile, StaffInv, StaffTyped, OneUser
<1>5. ASSUME NEW c \in Calls, UserAnswered(c) PROVE StaffInv'
  <2>1. call[c].as \in StaffOrNobody
    BY DEF StaffInv, StaffTyped, StaffCall
  <2>2. ~late => page # Nobody /\ page' = page
    BY <1>5 DEF UserAnswered, StaffInv, NoUser, OneUser
  <2>3. ~late => OneUser'
    BY <1>5, <2>2, SilenceTyped DEF UserAnswered, StaffInv, StaffTyped, OneUser
  <2>4. StaffTyped'
    BY <1>5, <2>1, SilenceTyped DEF UserAnswered, StaffInv, StaffTyped
  <2> QED BY <1>5, <2>2, <2>3, <2>4 DEF UserAnswered, StaffInv
<1>6. ASSUME NEW c \in Calls, CallFailed(c) PROVE StaffInv'
    BY <1>6, SilenceTyped DEF CallFailed, Hang, StaffInv, StaffTyped, NoUser, OneUser
<1>7. ASSUME NEW c \in Calls, Unauthorized(c) PROVE StaffInv'
  <2>1. CASE tokens = Nobody
    BY <1>7, <2>1, SilenceTyped DEF Unauthorized, Hang, StaffInv, StaffTyped, NoUser, OneUser
  <2>2. CASE tokens # Nobody
    <3>1. /\ call'[c].do = call[c].do /\ call'[c].as = tokens /\ call'[c].renewing
          /\ call' \in [Calls -> StaffCall] /\ \A d \in Calls \ {c} : call'[d] = call[d]
      BY <1>7, <2>2 DEF Unauthorized, StaffInv, StaffTyped, StaffCall
    <3> QED BY <1>7, <2>2, <3>1 DEF Unauthorized, StaffInv, StaffTyped, NoUser, OneUser
  <2> QED BY <2>1, <2>2
<1>8. ASSUME NEW c \in Calls, Renewed(c) PROVE StaffInv'
  <2>1. /\ call'[c].do = call[c].do /\ call'[c].as = call[c].as /\ ~call'[c].renewing
        /\ call[c].as \in StaffOrNobody
        /\ call' \in [Calls -> StaffCall] /\ \A d \in Calls \ {c} : call'[d] = call[d]
    BY <1>8 DEF Renewed, StaffInv, StaffTyped, StaffCall
  <2> QED BY <1>8, <2>1 DEF Renewed, StaffInv, StaffTyped, NoUser, OneUser
<1>9. ASSUME NEW c \in Calls, RenewRefused(c) PROVE StaffInv'
  <2>1. StaffTyped'
    BY <1>9, SilenceTyped DEF RenewRefused, Hang, StaffInv, StaffTyped, StaffOrNobody
  <2> QED BY <1>9, <2>1, SilenceTyped DEF RenewRefused, Hang, StaffInv, StaffTyped, NoUser, OneUser
<1>10. CASE Logout
  <2>1. Waiting = {} /\ ~late => NoUser'
    BY <1>10 DEF Logout, Waiting, StaffInv, NoUser, OneUser
  <2> QED BY <1>10, <2>1 DEF Logout, StaffInv, StaffTyped, StaffOrNobody
<1>11. CASE ReloadPage
  <2>1. PICK c \in Calls :
            call' = [d \in Calls |-> IF d = c /\ stored # Nobody /\ tokens # Nobody
                                     THEN Carrying("load", tokens) ELSE Silence]
    BY <1>11 DEF ReloadPage
  <2>2. StaffTyped'
    BY <1>11, <2>1, SilenceTyped, CarryingTyped DEF ReloadPage, StaffInv, StaffTyped
  <2> QED BY <1>11, <2>1, <2>2, SilenceTyped, CarryingTyped
          DEF ReloadPage, StaffInv, StaffTyped, NoUser, OneUser
<1> QED BY <1>1, <1>2, <1>3, <1>4, <1>5, <1>6, <1>7, <1>8, <1>9, <1>10, <1>11 DEF StaffStep

\* While tokens are stored, the page and the stored user are those of the tokens,
\* through refreshes, refusals and reloads, for any number of calls in flight -
\* unless someone signed out with a call in flight (loadAll, adminApiRequest).
THEOREM StaffPageFollowsTokens == Spec => []StaffPageMatchesTokens
<1>1. Init => StaffInv
  <2> SUFFICES ASSUME StaffInit PROVE StaffInv
    BY DEF Init
  <2>1. PICK c \in Calls : call = [d \in Calls |-> IF d = c /\ page # Nobody
                                                   THEN Carrying("load", page) ELSE Silence]
    BY DEF StaffInit
  <2>2. StaffTyped
    BY <2>1, SilenceTyped, CarryingTyped DEF StaffInit, StaffTyped
  <2> QED BY <2>1, <2>2, SilenceTyped, CarryingTyped DEF StaffInit, StaffInv, NoUser, OneUser
<1>2. StaffInv /\ [Next]_vars => StaffInv'
  <2> SUFFICES ASSUME StaffInv, [Next]_vars PROVE StaffInv'
    OBVIOUS
  <2>1. CASE UNCHANGED staffVars
    BY <2>1 DEF StaffInv, StaffTyped, NoUser, OneUser, staffVars
  <2> QED BY <2>1, StaffStepKeeps DEF Next, App, AdminTables, AdminDrawers, AdminPage, vars
<1>3. StaffInv => StaffPageMatchesTokens
    BY DEF StaffInv, NoUser, OneUser, StaffPageMatchesTokens
<1> QED BY <1>1, <1>2, <1>3, PTL DEF Spec

---------------------------------------------------------------------------
(* The drawers of the admin desk.  As long as no two works run at once,    *)
(* loads of the table among them, the busy flag is up while anything that  *)
(* can change the drawer is in flight, so that no dialog opens over it;    *)
(* and what is loaded beside an order is of the order the drawer shows by  *)
(* then.                                                                   *)

Later   == {"open", "besides", "list"}
Dialogs == [kind : {"none", "create", "edit", "confirm", "district"}, of : RecordOrNone]

DeskWork == [do : Later \cup {"idle", "search", "change"}, rest : Seq(Later),
             of : RecordOrNone, asked : Dialogs]

RecordTyped ==
    /\ desk \in RecordDesks
    /\ drawer \in RecordOrNone /\ besides \in RecordOrNone /\ dialog \in Dialogs
    /\ deskBusy \in BOOLEAN /\ crossed \in BOOLEAN
    /\ work \in [Desks -> DeskWork]

\* What a work of the orders or the drivers panel has yet to do.
PlannedWork(w) ==
    /\ w.do = "change" => w.rest = IF desk = "orders" THEN <<"open", "besides", "list">>
                                   ELSE <<"open", "list">>
    /\ w.do = "open" => w.rest \in IF desk = "orders" THEN {<<"besides">>, <<"besides", "list">>}
                                   ELSE {<<>>, <<"list">>}
    /\ w.do = "besides" => w.rest \in {<<>>, <<"list">>}
    /\ w.do \in {"list", "search"} => w.rest = <<>>
Planned == desk \in InDrawer => \A d \in Desks : PlannedWork(work[d])

\* Outside the orders and drivers panels a change keeps the record it was asked for.
AskedElsewhere ==
    desk \notin InDrawer => \A d \in Desks : work[d].do = "change" => work[d].of = work[d].asked.of

OneWork == \A c, d \in Desks : work[c].do # "idle" /\ work[d].do # "idle" => c = d

\* A dialog of a drawer is about what the drawer shows, and nothing moves below
\* it, though the table may be loaded again under it.
DialogOverDrawer ==
    /\ dialog # NoDialog => drawer # NoRecord /\ dialog.of = drawer
    /\ \A d \in Desks :
          /\ work[d].do \in {"open", "change", "besides"} => deskBusy /\ dialog = NoDialog
          /\ work[d].do = "list" => deskBusy
          /\ work[d].do = "change" => work[d].of = work[d].asked.of

\* The dialogs of these two panels are confirmations, which close at once.
ConfirmedInDrawer == desk \in InDrawer /\ dialog # NoDialog => dialog.kind = "confirm"

\* The drivers held are of the order shown, or are on their way.
BesidesOfDrawer ==
    drawer # NoRecord =>
        /\ \A d \in Desks : work[d].do \in {"besides", "search"} => work[d].of = drawer
        /\ besides \in {drawer, NoRecord} \/ \E d \in Desks : work[d].do = "besides"

RecordInv ==
    /\ RecordTyped /\ Planned /\ AskedElsewhere /\ ConfirmedInDrawer
    /\ ~crossed => /\ OneWork
                   /\ desk \in InDrawer => DialogOverDrawer
                   /\ desk = "orders" => BesidesOfDrawer

\* The plans, call by call.
LEMMA PlanSteps ==
    /\ Head(<<"list">>) = "list" /\ Tail(<<"list">>) = <<>>
    /\ Head(<<"besides">>) = "besides" /\ Tail(<<"besides">>) = <<>>
    /\ Head(<<"besides", "list">>) = "besides" /\ Tail(<<"besides", "list">>) = <<"list">>
    /\ Head(<<"open", "list">>) = "open" /\ Tail(<<"open", "list">>) = <<"list">>
    /\ Head(<<"open", "besides", "list">>) = "open"
    /\ Tail(<<"open", "besides", "list">>) = <<"besides", "list">>
    /\ <<"list">> # <<>> /\ <<"besides">> # <<>> /\ <<"besides", "list">> # <<>>
    /\ <<"open", "list">> # <<>> /\ <<"open", "besides", "list">> # <<>>
  OBVIOUS

LEMMA PlansTyped ==
    /\ <<>> \in Seq(Later) /\ <<"list">> \in Seq(Later)
    /\ AfterOpen \in Seq(Later) /\ AfterRefresh \in Seq(Later)
    /\ desk \in RecordDesks => AfterChange \in Seq(Later)
<1>1. /\ <<>> \in Seq(Later) /\ <<"list">> \in Seq(Later) /\ <<"besides">> \in Seq(Later)
      /\ <<"besides", "list">> \in Seq(Later) /\ <<"open", "list">> \in Seq(Later)
      /\ <<"open", "besides", "list">> \in Seq(Later)
      /\ <<"list", "open", "besides">> \in Seq(Later)
    BY DEF Later
<1> QED BY <1>1 DEF AfterOpen, AfterRefresh, AfterChange, RecordDesks

LEMMA NoWorkTyped ==
    /\ NoWork \in DeskWork /\ NoWork.do = "idle"
    /\ NoDialog \in Dialogs /\ NoDialog.of = NoRecord
    /\ NoRecord \in RecordOrNone
  BY DEF NoWork, DeskWork, RecordOrNone, NoDialog, Dialogs

\* A work that does not cross another one is the only one.
LEMMA Begun ==
    ASSUME RecordTyped, NEW do \in {"list", "open", "search", "change"}, NEW rest \in Seq(Later),
           NEW r \in RecordOrNone, NEW m \in Dialogs, Begin(do, rest, r, m)
    PROVE  /\ desk' = desk
           /\ deskBusy' \in BOOLEAN /\ crossed' \in BOOLEAN
           /\ deskBusy => deskBusy'
           /\ do # "search" /\ desk \notin Beside => deskBusy'
           /\ ~crossed' => ~crossed /\ \A e \in Desks : work[e].do = "idle"
           /\ \E d \in Desks :
                 /\ work' \in [Desks -> DeskWork]
                 /\ work'[d].do = do /\ work'[d].rest = rest
                 /\ work'[d].of = r /\ work'[d].asked = m
                 /\ \A e \in Desks \ {d} : work'[e] = work[e]
<1>1. PICK d \in Desks :
          work' = [work EXCEPT ![d] = [do |-> do, rest |-> rest, of |-> r, asked |-> m]]
    BY DEF Begin
<1>2. [do |-> do, rest |-> rest, of |-> r, asked |-> m] \in DeskWork
    BY DEF DeskWork, Later
<1>3. /\ work' \in [Desks -> DeskWork]
      /\ work'[d].do = do /\ work'[d].rest = rest /\ work'[d].of = r /\ work'[d].asked = m
      /\ \A e \in Desks \ {d} : work'[e] = work[e]
    BY <1>1, <1>2 DEF RecordTyped
<1>4. /\ desk' = desk
      /\ deskBusy' \in BOOLEAN /\ crossed' \in BOOLEAN
      /\ deskBusy => deskBusy'
      /\ do # "search" /\ desk \notin Beside => deskBusy'
      /\ ~crossed' => ~crossed /\ \A e \in Desks : work[e].do = "idle"
    BY DEF Begin, RecordTyped, Silent, DeskWorking
<1> QED BY <1>3, <1>4

\* A work that goes on keeps the flag as it is, or raises it.
LEMMA WentOn ==
    ASSUME RecordTyped, NEW d \in Desks, NEW rest \in Seq(Later), NEW r \in RecordOrNone,
           GoOn(d, rest, r)
    PROVE  /\ UNCHANGED <<desk, crossed>>
           /\ work' \in [Desks -> DeskWork]
           /\ \A e \in Desks \ {d} : work'[e] = work[e]
           /\ deskBusy' \in BOOLEAN
           /\ rest = <<>> => work'[d].do = "idle"
           /\ rest # <<>> => /\ work'[d].do = Head(rest) /\ work'[d].do \in Later
                             /\ work'[d].rest = Tail(rest) /\ work'[d].of = r
                             /\ deskBusy => deskBusy'
<1>1. CASE rest = <<>>
    BY <1>1, NoWorkTyped DEF GoOn, Finish, RecordTyped, Silent
<1>2. CASE rest # <<>>
  <2>1. Head(rest) \in Later /\ Tail(rest) \in Seq(Later)
    BY <1>2
  <2>3. [do |-> Head(rest), rest |-> Tail(rest), of |-> r, asked |-> NoDialog] \in DeskWork
    BY <2>1, NoWorkTyped DEF DeskWork
  <2>4. /\ work' = [work EXCEPT ![d] =
                     [do |-> Head(rest), rest |-> Tail(rest), of |-> r, asked |-> NoDialog]]
        /\ deskBusy' \in BOOLEAN /\ (deskBusy => deskBusy')
        /\ UNCHANGED <<desk, crossed>>
    BY <1>2 DEF GoOn, RecordTyped
  <2> QED BY <1>2, <2>1, <2>3, <2>4 DEF RecordTyped
<1> QED BY <1>1, <1>2

\* Opening and refreshing need no dialog open; the table may be loaded under one,
\* and an assignment's dialog searches.
LEMMA BeginKeeps ==
    ASSUME RecordInv, NEW do \in {"list", "open", "search"}, NEW rest \in Seq(Later),
           NEW r \in RecordOrNone, Begin(do, rest, r, NoDialog),
           do = "open" => dialog = NoDialog,
           do = "search" => desk = "orders" /\ r = drawer,
           desk \in InDrawer => PlannedWork([NoWork EXCEPT !.do = do, !.rest = rest]),
           UNCHANGED <<drawer, besides, dialog>>
    PROVE  RecordInv'
<1>1. RecordTyped /\ NoDialog \in Dialogs
    BY NoWorkTyped DEF RecordInv
<1>2. PICK d \in Desks :
              /\ work' \in [Desks -> DeskWork]
              /\ work'[d].do = do /\ work'[d].rest = rest /\ work'[d].of = r
              /\ \A e \in Desks \ {d} : work'[e] = work[e]
    BY <1>1, Begun
<1>3. /\ desk' = desk
      /\ deskBusy' \in BOOLEAN /\ crossed' \in BOOLEAN
      /\ do # "search" /\ desk \notin Beside => deskBusy'
      /\ ~crossed' => ~crossed /\ \A e \in Desks : work[e].do = "idle"
    BY <1>1, Begun
<1>4. desk \in InDrawer => PlannedWork(work'[d])
    BY <1>2 DEF PlannedWork, NoWork
<1>5. Planned'
    BY <1>2, <1>3, <1>4 DEF RecordInv, Planned, PlannedWork
<1>6. RecordTyped' /\ AskedElsewhere' /\ ConfirmedInDrawer'
    BY <1>2, <1>3 DEF RecordInv, RecordTyped, AskedElsewhere, ConfirmedInDrawer
<1>7. ASSUME ~crossed'
      PROVE  /\ OneWork'
             /\ (desk \in InDrawer => DialogOverDrawer)'
             /\ (desk = "orders" => BesidesOfDrawer)'
  <2>1. ~crossed /\ \A e \in Desks : work[e].do = "idle"
    BY <1>3, <1>7
  <2>2. OneWork'
    BY <1>2, <2>1 DEF OneWork
  <2>3. (desk \in InDrawer => DialogOverDrawer)'
    BY <1>2, <1>3, <2>1 DEF RecordInv, DialogOverDrawer, InDrawer, Beside
  <2>4. (desk = "orders" => BesidesOfDrawer)'
    BY <1>2, <1>3, <2>1 DEF RecordInv, BesidesOfDrawer
  <2> QED BY <2>2, <2>3, <2>4
<1> QED BY <1>5, <1>6, <1>7 DEF RecordInv

\* An answer: what the panel shows has changed as the premises say, the work has
\* ended or gone on to the next call of its plan.
LEMMA AnswerKeeps == ASSUME RecordInv, DeskAnswered PROVE RecordInv'
<1>0. /\ RecordTyped /\ <<>> \in Seq(Later)
      /\ \A e \in Desks : /\ work[e].of \in RecordOrNone /\ work[e].rest \in Seq(Later)
                          /\ work[e].asked \in Dialogs
                          /\ work[e].rest # <<>> => Tail(work[e].rest) \in Seq(Later)
    BY DEF RecordInv, RecordTyped, DeskWork
<1>1. ASSUME NEW e \in Desks, RecordOpened(e) PROVE RecordInv'
  <2>1. /\ work[e].do = "open" /\ drawer' = work[e].of
        /\ UNCHANGED <<besides, dialog>> /\ GoOn(e, work[e].rest, work[e].of)
    BY <1>1 DEF RecordOpened
  <2>2. /\ UNCHANGED <<desk, crossed>>
        /\ work' \in [Desks -> DeskWork] /\ deskBusy' \in BOOLEAN
        /\ \A f \in Desks \ {e} : work'[f] = work[f]
        /\ work[e].rest = <<>> => work'[e].do = "idle"
        /\ work[e].rest # <<>> => /\ work'[e].do = Head(work[e].rest) /\ work'[e].do \in Later
                                  /\ work'[e].rest = Tail(work[e].rest)
                                  /\ work'[e].of = work[e].of /\ (deskBusy => deskBusy')
    BY <1>0, <2>1, WentOn
  <2>3. desk = "orders" => /\ work'[e].do = "besides" /\ work'[e].of = work[e].of
                           /\ work'[e].rest \in {<<>>, <<"list">>}
    BY <2>1, <2>2, PlanSteps DEF RecordInv, Planned, PlannedWork, InDrawer
  <2>4. desk = "drivers" => work'[e].do = "idle" \/ (work'[e].do = "list" /\ work'[e].rest = <<>>)
    BY <2>1, <2>2, PlanSteps DEF RecordInv, Planned, PlannedWork, InDrawer
  <2>5. Planned'
    BY <2>2, <2>3, <2>4 DEF RecordInv, Planned, PlannedWork, InDrawer
  <2>6. RecordTyped' /\ AskedElsewhere' /\ ConfirmedInDrawer'
    BY <1>0, <2>1, <2>2 DEF RecordInv, RecordTyped, AskedElsewhere, ConfirmedInDrawer, Later
  <2>7. OneWork /\ (desk \in InDrawer => DialogOverDrawer) =>
            OneWork' /\ (desk \in InDrawer => DialogOverDrawer)'
    BY <2>1, <2>2, <2>3, <2>4 DEF OneWork, DialogOverDrawer, InDrawer
  <2>8. OneWork /\ desk = "orders" => BesidesOfDrawer'
    BY <2>1, <2>2, <2>3 DEF OneWork, BesidesOfDrawer
  <2> QED BY <2>2, <2>5, <2>6, <2>7, <2>8 DEF RecordInv
<1>2. ASSUME NEW e \in Desks, BesidesLoaded(e) PROVE RecordInv'
  <2>1. /\ work[e].do \in {"besides", "search"}
        /\ besides' \in {work[e].of, besides, NoRecord}
        /\ desk = "orders" => besides' \in {work[e].of, NoRecord}
        /\ UNCHANGED <<drawer, dialog>> /\ GoOn(e, work[e].rest, work[e].of)
    BY <1>2 DEF BesidesLoaded
  <2>2. /\ UNCHANGED <<desk, crossed>>
        /\ work' \in [Desks -> DeskWork] /\ deskBusy' \in BOOLEAN
        /\ \A f \in Desks \ {e} : work'[f] = work[f]
        /\ work[e].rest = <<>> => work'[e].do = "idle"
        /\ work[e].rest # <<>> => /\ work'[e].do = Head(work[e].rest) /\ work'[e].do \in Later
                                  /\ work'[e].rest = Tail(work[e].rest)
                                  /\ (deskBusy => deskBusy')
    BY <1>0, <2>1, WentOn
  <2>3. desk \in InDrawer =>
            \/ work'[e].do = "idle"
            \/ work[e].do = "besides" /\ work'[e].do = "list" /\ work'[e].rest = <<>>
    BY <2>1, <2>2, PlanSteps DEF RecordInv, Planned, PlannedWork
  <2>5. Planned'
    BY <2>2, <2>3 DEF RecordInv, Planned, PlannedWork
  <2>6. RecordTyped' /\ AskedElsewhere' /\ ConfirmedInDrawer'
    BY <1>0, <2>1, <2>2, NoWorkTyped
       DEF RecordInv, RecordTyped, AskedElsewhere, ConfirmedInDrawer, Later
  <2>7. OneWork /\ (desk \in InDrawer => DialogOverDrawer) =>
            OneWork' /\ (desk \in InDrawer => DialogOverDrawer)'
    BY <2>1, <2>2, <2>3 DEF OneWork, DialogOverDrawer
  <2>8. OneWork /\ desk = "orders" /\ BesidesOfDrawer => BesidesOfDrawer'
    BY <2>1, <2>2, <2>3 DEF OneWork, BesidesOfDrawer, InDrawer
  <2> QED BY <2>2, <2>5, <2>6, <2>7, <2>8 DEF RecordInv
<1>3. ASSUME NEW e \in Desks, TableLoaded(e) PROVE RecordInv'
  <2>1. /\ work[e].do = "list"
        /\ UNCHANGED <<drawer, besides, dialog>> /\ GoOn(e, work[e].rest, work[e].of)
    BY <1>3 DEF TableLoaded
  <2>2. /\ UNCHANGED <<desk, crossed>>
        /\ work' \in [Desks -> DeskWork] /\ deskBusy' \in BOOLEAN
        /\ \A f \in Desks \ {e} : work'[f] = work[f]
        /\ work[e].rest = <<>> => work'[e].do = "idle"
        /\ work[e].rest # <<>> => work'[e].do \in Later
    BY <1>0, <2>1, WentOn
  <2>3. desk \in InDrawer => work'[e].do = "idle"
    BY <2>1, <2>2 DEF RecordInv, Planned, PlannedWork
  <2>5. Planned'
    BY <2>2, <2>3 DEF RecordInv, Planned, PlannedWork
  <2>6. RecordTyped' /\ AskedElsewhere' /\ ConfirmedInDrawer'
    BY <2>1, <2>2 DEF RecordInv, RecordTyped, AskedElsewhere, ConfirmedInDrawer, Later
  <2>7. OneWork /\ (desk \in InDrawer => DialogOverDrawer) =>
            OneWork' /\ (desk \in InDrawer => DialogOverDrawer)'
    BY <2>1, <2>2, <2>3 DEF OneWork, DialogOverDrawer
  <2>8. desk = "orders" /\ BesidesOfDrawer => BesidesOfDrawer'
    BY <2>1, <2>2, <2>3 DEF BesidesOfDrawer, InDrawer
  <2> QED BY <2>2, <2>5, <2>6, <2>7, <2>8 DEF RecordInv
<1>4. ASSUME NEW e \in Desks, ChangeMade(e) PROVE RecordInv'
  <2>1. PICK r \in Records : GoOn(e, work[e].rest, r)
    BY <1>4 DEF ChangeMade
  <2>2. /\ UNCHANGED <<desk, crossed>>
        /\ work' \in [Desks -> DeskWork] /\ deskBusy' \in BOOLEAN
        /\ \A f \in Desks \ {e} : work'[f] = work[f]
        /\ work[e].rest = <<>> => work'[e].do = "idle"
        /\ work[e].rest # <<>> => /\ work'[e].do = Head(work[e].rest) /\ work'[e].do \in Later
                                  /\ work'[e].rest = Tail(work[e].rest)
                                  /\ (deskBusy => deskBusy')
    BY <1>0, <2>1, WentOn DEF RecordOrNone
  <2>3. /\ work[e].do = "change" /\ UNCHANGED <<drawer, besides>>
        /\ dialog' \in {dialog, NoDialog}
    BY <1>4 DEF ChangeMade
  <2>4. desk \in InDrawer =>
            /\ work'[e].do = "open" /\ (deskBusy => deskBusy')
            /\ work'[e].rest \in IF desk = "orders" THEN {<<"besides", "list">>} ELSE {<<"list">>}
    BY <2>2, <2>3, PlanSteps DEF RecordInv, Planned, PlannedWork
  <2>5. Planned'
    BY <2>2, <2>4 DEF RecordInv, Planned, PlannedWork
  <2>6. RecordTyped' /\ AskedElsewhere' /\ ConfirmedInDrawer'
    BY <2>2, <2>3, NoWorkTyped
       DEF RecordInv, RecordTyped, AskedElsewhere, ConfirmedInDrawer, Later
  <2>7. OneWork /\ (desk \in InDrawer => DialogOverDrawer) =>
            OneWork' /\ (desk \in InDrawer => DialogOverDrawer)'
    BY <2>2, <2>3, <2>4 DEF OneWork, DialogOverDrawer
  <2>8. desk = "orders" /\ BesidesOfDrawer => BesidesOfDrawer'
    BY <2>2, <2>3, <2>4 DEF BesidesOfDrawer, InDrawer
  <2> QED BY <2>2, <2>5, <2>6, <2>7, <2>8 DEF RecordInv
<1>5. ASSUME NEW e \in Desks, DeskFailed(e) PROVE RecordInv'
  <2> DEFINE left == IF desk = "orders" /\ work[e].do = "open" THEN Tail(work[e].rest) ELSE <<>>
  <2>1. /\ work[e].do \in {"open", "change"}
        /\ UNCHANGED <<drawer, besides, dialog>> /\ GoOn(e, left, work[e].of)
    BY <1>5 DEF DeskFailed
  <2>2. /\ left \in {<<>>, <<"list">>}
    BY <2>1, PlanSteps DEF RecordInv, Planned, PlannedWork, InDrawer
  <2>3. left \in Seq(Later) /\ Head(<<"list">>) = "list" /\ Tail(<<"list">>) = <<>>
        /\ <<"list">> # <<>>
    BY <2>2, PlanSteps, PlansTyped
  <2> HIDE DEF left
  <2>4. /\ UNCHANGED <<desk, crossed>>
        /\ work' \in [Desks -> DeskWork] /\ deskBusy' \in BOOLEAN
        /\ \A f \in Desks \ {e} : work'[f] = work[f]
        /\ left = <<>> => work'[e].do = "idle"
        /\ left # <<>> => /\ work'[e].do = Head(left) /\ work'[e].rest = Tail(left)
                          /\ (deskBusy => deskBusy')
    BY <1>0, <2>1, <2>3, WentOn
  <2>5. \/ work'[e].do = "idle"
        \/ work'[e].do = "list" /\ work'[e].rest = <<>> /\ (deskBusy => deskBusy')
    BY <2>2, <2>3, <2>4
  <2>6. Planned'
    BY <2>4, <2>5 DEF RecordInv, Planned, PlannedWork
  <2>7. RecordTyped' /\ AskedElsewhere' /\ ConfirmedInDrawer'
    BY <2>1, <2>4, <2>5 DEF RecordInv, RecordTyped, AskedElsewhere, ConfirmedInDrawer
  <2>8. OneWork /\ (desk \in InDrawer => DialogOverDrawer) =>
            OneWork' /\ (desk \in InDrawer => DialogOverDrawer)'
    BY <2>1, <2>4, <2>5 DEF OneWork, DialogOverDrawer
  <2>9. desk = "orders" /\ BesidesOfDrawer => BesidesOfDrawer'
    BY <2>1, <2>4, <2>5 DEF BesidesOfDrawer
  <2> QED BY <2>4, <2>6, <2>7, <2>8, <2>9 DEF RecordInv
<1> QED BY <1>1, <1>2, <1>3, <1>4, <1>5 DEF DeskAnswered

LEMMA SubmitKeeps == ASSUME RecordInv, Submit PROVE RecordInv'
<1>1. /\ RecordTyped /\ dialog \in Dialogs /\ TargetOf(dialog) \in RecordOrNone
      /\ AfterChange \in Seq(Later)
    BY PlansTyped DEF TargetOf, RecordInv, RecordTyped, Dialogs
<1>2. /\ Begin("change", AfterChange, TargetOf(dialog), dialog)
      /\ ~deskBusy /\ UNCHANGED <<drawer, besides>>
      /\ dialog # NoDialog /\ dialog' \in {dialog, NoDialog}
      /\ desk \in InDrawer /\ dialog.kind = "confirm" => dialog' = NoDialog
      /\ TargetOf(dialog) = IF desk \in InDrawer THEN drawer ELSE dialog.of
    BY DEF Submit, ClosesAtOnce, TargetOf, InDrawer, Beside
<1>3. PICK d \in Desks :
              /\ work' \in [Desks -> DeskWork]
              /\ work'[d].do = "change" /\ work'[d].rest = AfterChange
              /\ work'[d].of = TargetOf(dialog) /\ work'[d].asked = dialog
              /\ \A e \in Desks \ {d} : work'[e] = work[e]
    BY <1>1, <1>2, Begun
<1>4. /\ desk' = desk
      /\ deskBusy' \in BOOLEAN /\ crossed' \in BOOLEAN
      /\ desk \notin Beside => deskBusy'
      /\ ~crossed' => ~crossed /\ \A e \in Desks : work[e].do = "idle"
    BY <1>1, <1>2, Begun
<1>5. desk \in InDrawer => dialog.kind = "confirm" /\ dialog' = NoDialog
    BY <1>2 DEF RecordInv, ConfirmedInDrawer
<1>6. Planned'
    BY <1>3, <1>4 DEF RecordInv, Planned, PlannedWork, AfterChange, InDrawer
<1>7. RecordTyped' /\ AskedElsewhere' /\ ConfirmedInDrawer'
    BY <1>2, <1>3, <1>4, <1>5, NoWorkTyped DEF RecordInv, RecordTyped, AskedElsewhere, ConfirmedInDrawer
<1>8. ~crossed' => /\ OneWork'
                   /\ (desk \in InDrawer => DialogOverDrawer)'
                   /\ (desk = "orders" => BesidesOfDrawer)'
    BY <1>2, <1>3, <1>4, <1>5
       DEF RecordInv, OneWork, DialogOverDrawer, BesidesOfDrawer, InDrawer, Beside
<1> QED BY <1>6, <1>7, <1>8 DEF RecordInv

\* No dialog opens over a drawer but from its own buttons, when nothing runs.
LEMMA AskingKeeps ==
    ASSUME RecordInv, NEW kind \in {"create", "edit", "confirm", "district"},
           NEW r \in RecordOrNone, AskFor(kind, r),
           desk \in InDrawer => kind = "confirm" /\ ~deskBusy /\ drawer # NoRecord /\ r = drawer
    PROVE  RecordInv'
<1>1. /\ dialog' = [kind |-> kind, of |-> r] /\ dialog' \in Dialogs
      /\ UNCHANGED <<desk, drawer, besides, deskBusy, work, crossed>>
    BY DEF AskFor, Dialogs
<1>2. RecordTyped' /\ Planned' /\ AskedElsewhere' /\ ConfirmedInDrawer'
    BY <1>1 DEF RecordInv, RecordTyped, Planned, PlannedWork, AskedElsewhere, ConfirmedInDrawer
<1>3. (desk \in InDrawer => DialogOverDrawer) => (desk \in InDrawer => DialogOverDrawer)'
    BY <1>1 DEF DialogOverDrawer
<1> QED BY <1>1, <1>2, <1>3 DEF RecordInv, OneWork, BesidesOfDrawer

LEMMA LoadingTyped ==
    /\ TableLoading \in [Desks -> DeskWork]
    /\ \A d \in Desks : /\ TableLoading[d].do \in {"idle", "list"}
                        /\ TableLoading[d].rest = <<>>
    /\ \A c, d \in Desks : TableLoading[c].do # "idle" /\ TableLoading[d].do # "idle" => c = d
<1> DEFINE first == CHOOSE e \in Desks : TRUE
<1>1. NoWork = [do |-> "idle", rest |-> <<>>, of |-> NoRecord, asked |-> NoDialog]
    BY DEF NoWork
<1>2. [NoWork EXCEPT !.do = "list"] = [do |-> "list", rest |-> <<>>, of |-> NoRecord, asked |-> NoDialog]
    BY <1>1
<1>3. [NoWork EXCEPT !.do = "list"] \in DeskWork
    BY <1>2, NoWorkTyped DEF DeskWork, Later
<1>4. TableLoading = [[e \in Desks |-> NoWork] EXCEPT ![first] = [NoWork EXCEPT !.do = "list"]]
  <2>1. CASE Desks = {}
    BY <2>1 DEF TableLoading
  <2>2. CASE Desks # {}
    <3>1. first \in Desks
      BY <2>2
    <3> QED BY <3>1 DEF TableLoading
  <2> QED BY <2>1, <2>2
<1> HIDE DEF first
<1> QED BY <1>1, <1>2, <1>3, <1>4, NoWorkTyped

LEMMA MountedInv ==
    ASSUME desk \in RecordDesks, drawer = NoRecord, besides = NoRecord, dialog = NoDialog,
           deskBusy = TRUE, work = TableLoading, crossed = FALSE
    PROVE  RecordInv
<1>1. RecordTyped /\ Planned /\ AskedElsewhere /\ ConfirmedInDrawer
    BY LoadingTyped, NoWorkTyped DEF RecordTyped, Planned, PlannedWork, AskedElsewhere, ConfirmedInDrawer
<1>2. OneWork /\ DialogOverDrawer /\ BesidesOfDrawer
    BY LoadingTyped DEF OneWork, DialogOverDrawer, BesidesOfDrawer
<1> QED BY <1>1, <1>2 DEF RecordInv

LEMMA RecordStepKeeps == ASSUME RecordInv, RecordStep PROVE RecordInv'
<1> USE AdminRecordsAssumption
<1>0. /\ RecordTyped /\ drawer \in RecordOrNone /\ NoRecord \in RecordOrNone
      /\ <<>> \in Seq(Later) /\ AfterOpen \in Seq(Later) /\ AfterRefresh \in Seq(Later)
    BY PlansTyped DEF RecordInv, RecordTyped, RecordOrNone
<1>1. ASSUME NEW r \in Records, OpenRecord(r) PROVE RecordInv'
  <2>1. desk \in InDrawer => PlannedWork([NoWork EXCEPT !.do = "open", !.rest = AfterOpen])
    BY DEF PlannedWork, NoWork, AfterOpen, InDrawer, Twofold
  <2> QED BY <1>0, <1>1, <2>1, BeginKeeps DEF OpenRecord, AtTable, RecordOrNone
<1>2. CASE Drawer
  <2>1. CASE RefreshDrawer
    <3>1. desk \in InDrawer => PlannedWork([NoWork EXCEPT !.do = "open", !.rest = AfterRefresh])
      BY DEF PlannedWork, NoWork, AfterRefresh, AfterOpen, InDrawer, Twofold
    <3> QED BY <1>0, <2>1, <3>1, BeginKeeps DEF RefreshDrawer
  <2>2. CASE CloseDrawer
    <3>1. /\ drawer' = NoRecord /\ dialog = NoDialog /\ crossed' = (crossed /\ DeskWorking)
          /\ UNCHANGED <<desk, besides, dialog, deskBusy, work>>
      BY <2>2 DEF CloseDrawer
    <3>2. RecordTyped' /\ Planned' /\ AskedElsewhere' /\ ConfirmedInDrawer'
      BY <1>0, <3>1 DEF RecordInv, RecordTyped, Planned, PlannedWork, AskedElsewhere, ConfirmedInDrawer
    <3>3. ASSUME ~crossed', crossed
          PROVE  OneWork' /\ DialogOverDrawer'
      BY <3>1, <3>3 DEF DeskWorking, OneWork, DialogOverDrawer
    <3>4. ASSUME ~crossed
          PROVE  OneWork' /\ (desk \in InDrawer => DialogOverDrawer)'
      BY <3>1, <3>4 DEF RecordInv, OneWork, DialogOverDrawer
    <3>5. BesidesOfDrawer'
      BY <3>1 DEF BesidesOfDrawer
    <3> QED BY <3>2, <3>3, <3>4, <3>5 DEF RecordInv
  <2> QED BY <1>2, <2>1, <2>2 DEF Drawer
<1>3. CASE AskInDrawer
    BY <1>0, <1>3, AskingKeeps DEF AskInDrawer
<1>4. ASSUME Forms \/ CityForms \/ TariffForms \/ AskOnRow, desk \notin InDrawer PROVE RecordInv'
    BY <1>0, <1>4, AskingKeeps DEF Forms, Create, AskOnRow, CityForms, TariffForms, RecordOrNone
<1>5. CASE CloseDialog
    BY <1>5, NoWorkTyped DEF CloseDialog, RecordInv, RecordTyped, Planned, PlannedWork, AskedElsewhere,
            ConfirmedInDrawer, OneWork, DialogOverDrawer, BesidesOfDrawer
<1>6. ASSUME SearchDrivers, desk = "orders" PROVE RecordInv'
  <2>1. PlannedWork([NoWork EXCEPT !.do = "search", !.rest = <<>>])
    BY DEF PlannedWork, NoWork
  <2> QED BY <1>0, <1>6, <2>1, BeginKeeps DEF SearchDrivers
<1>7. ASSUME NEW p \in RecordDesks, ChooseDesk(p) PROVE RecordInv'
  <2>1. RecordTyped' /\ Planned' /\ AskedElsewhere' /\ ConfirmedInDrawer'
    BY <1>7, LoadingTyped, NoWorkTyped
       DEF ChooseDesk, RecordTyped, Planned, PlannedWork, AskedElsewhere, ConfirmedInDrawer
  <2>2. OneWork' /\ DialogOverDrawer' /\ BesidesOfDrawer'
    BY <1>7, LoadingTyped DEF ChooseDesk, OneWork, DialogOverDrawer, BesidesOfDrawer
  <2> QED BY <2>1, <2>2 DEF RecordInv
<1>8. CASE LoadTable \/ LoadTyped
  <2>1. PlannedWork([NoWork EXCEPT !.do = "list", !.rest = <<>>])
    BY DEF PlannedWork, NoWork
  <2> QED BY <1>0, <1>8, <2>1, BeginKeeps DEF LoadTable, LoadTyped
<1>9. CASE TypeText
    BY <1>9 DEF TypeText, RecordInv, RecordTyped, Planned, PlannedWork, AskedElsewhere,
            ConfirmedInDrawer, OneWork, DialogOverDrawer, BesidesOfDrawer
<1>10. CASE Table
    BY <1>1, <1>8, <1>9, <1>10 DEF Table
<1>11. CASE \/ OrderDrawer \/ OrderDialogs \/ DriverDrawer \/ DriverDialogs
            \/ CityDrawer \/ CityDialogs \/ TariffDrawer \/ TariffDialogs
    BY <1>2, <1>3, <1>4, <1>5, <1>6, <1>10, <1>11, SubmitKeeps
       DEF OrderDrawer, OrderDialogs, DriverDrawer, DriverDialogs, CityDrawer, CityDialogs,
           TariffDrawer, TariffDialogs, InDrawer
<1>12. CASE UserDialogs \/ ClientDialogs
    BY <1>2, <1>4, <1>5, <1>10, <1>12, SubmitKeeps
       DEF UserDialogs, ClientDialogs, Drawer, InDrawer
<1> QED BY <1>7, <1>11, <1>12, AnswerKeeps DEF RecordStep

LEMMA RecordsInv == Spec => []RecordInv
<1>1. Init => RecordInv
    BY MountedInv DEF Init, RecordInit
<1>2. RecordInv /\ [Next]_vars => RecordInv'
  <2> SUFFICES ASSUME RecordInv, [Next]_vars PROVE RecordInv'
    OBVIOUS
  <2>1. CASE UNCHANGED recordVars
    BY <2>1 DEF recordVars, RecordInv, RecordTyped, Planned, PlannedWork, AskedElsewhere,
            ConfirmedInDrawer, OneWork, DialogOverDrawer, BesidesOfDrawer
  <2> QED BY <2>1, RecordStepKeeps DEF Next, App, AdminTables, AdminDrawers, AdminPage, vars
<1> QED BY <1>1, <1>2, PTL DEF Spec

\* A change goes to the record its dialog was opened for, for any records and any
\* number of works, unless two works run at once (the confirmations of the
\* orders and drivers panels).
THEOREM ChangesGoWhereAsked == Spec => []ChangesWhatWasAsked
<1>1. RecordInv => ChangesWhatWasAsked
    BY DEF RecordInv, AskedElsewhere, DialogOverDrawer, ChangesWhatWasAsked
<1> QED BY <1>1, RecordsInv, PTL

\* The drivers offered for an assignment are the eligible drivers of the order in
\* the drawer, unless two works run at once (loadEligibleDrivers, openOrder).
THEOREM OfferedDriversAreEligible == Spec => []ShownDriversAreEligible
<1>1. RecordInv => ShownDriversAreEligible
    BY DEF RecordInv, InDrawer, DialogOverDrawer, BesidesOfDrawer, ShownDriversAreEligible
<1> QED BY <1>1, RecordsInv, PTL


---------------------------------------------------------------------------
(* The works of the app.  As long as no work has lowered the flag of       *)
(* another one, the flag is up while any work is in flight; so those that  *)
(* need it down to start - sending a form, guessing at a code - start      *)
(* alone, and one of their kind is in flight at most.                      *)

Sending  == {"create", "publish", "update"}
Guessing == {"verify", "compare", "outdated"}

Counts(k) ==
    /\ k = [live |-> k.live, attempts |-> k.attempts, guesses |-> k.guesses]
    /\ k.attempts \in Nat /\ k.guesses \in Nat

WorksShaped ==
    /\ job = [w \in Works |-> [do |-> job[w].do, of |-> job[w].of, seen |-> job[w].seen]]
    /\ \A w \in Works : job[w].seen \in Nat
    /\ Counts(code)

OneOf(kinds) == \A v, w \in Works : {job[v].do, job[w].do} \subseteq kinds => v = w

\* No comparison is made with a count of guesses other than the one stored.
GuessesCounted ==
    /\ code.guesses <= code.attempts /\ code.attempts <= MaxAttempts
    /\ \A w \in Works : job[w].do = "compare" =>
          job[w].seen = code.attempts /\ job[w].seen < MaxAttempts

WorksInv ==
    /\ WorksShaped
    /\ ~unlocked => /\ \A w \in Works : job[w].do # "idle" => busy
                    /\ OneOf(Sending) /\ OneOf(Guessing)
                    /\ GuessesCounted

LEMMA IdleShaped ==
    /\ Idle = [do |-> "idle", of |-> None, seen |-> 0]
    /\ Load = [do |-> "load", of |-> None, seen |-> 0]
    /\ \A do, o : Work(do, o) = [do |-> do, of |-> o, seen |-> 0]
<1>1. ASSUME NEW do, NEW o PROVE Work(do, o) = [do |-> do, of |-> o, seen |-> 0]
  <2>1. Work(do, o) \in [do : {do}, of : {o}, seen : {0}]
    BY DEF Idle, Work
  <2> QED BY <2>1
<1> QED BY <1>1 DEF Idle, Load

LEMMA NewCodeCounts == \A k \in {NoCode, NewCode} : Counts(k) /\ k.attempts = 0 /\ k.guesses = 0
  BY DEF NoCode, NewCode, Counts

LEMMA StillKeeps == ASSUME WorksInv, UNCHANGED shell PROVE WorksInv'
  BY DEF WorksInv, WorksShaped, OneOf, GuessesCounted, shell

LEMMA GoKeeps == ASSUME WorksInv, NEW next, Go(next) PROVE WorksInv'
<1>1. CASE Loads(next, signedIn)
  <2>1. PICK w \in Works : job[w].do = "idle" /\ job' = [job EXCEPT ![w] = Load]
    BY <1>1 DEF Go
  <2> QED BY <1>1, <2>1, IdleShaped DEF Go, WorksInv, WorksShaped, OneOf, GuessesCounted,
            Sending, Guessing
<1>2. CASE ~Loads(next, signedIn)
    BY <1>2 DEF Go, WorksInv, WorksShaped, OneOf, GuessesCounted
<1> QED BY <1>1, <1>2

\* What needs the flag down to start finds no work in flight.
LEMMA RunKeeps ==
    ASSUME WorksInv, NEW do, NEW o, Run(do, o),
           do \in Sending \cup Guessing => ~busy, do # "compare"
    PROVE  WorksInv'
<1>1. PICK w \in Works : job[w].do = "idle" /\ job' = [job EXCEPT ![w] = Work(do, o)]
    BY DEF Run
<1> QED BY <1>1, IdleShaped DEF Run, WorksInv, WorksShaped, OneOf, GuessesCounted, Sending, Guessing

LEMMA ContinueKeeps ==
    ASSUME WorksInv, NEW w \in Works, NEW do, Continue(w, do), do \notin Sending \cup Guessing,
           job[w].do # "idle"
    PROVE  WorksInv'
  BY DEF Continue, WorksInv, WorksShaped, OneOf, GuessesCounted, Sending, Guessing

LEMMA LowerKeeps ==
    ASSUME WorksInv, NEW w \in Works, NEW loads \in BOOLEAN, Lower(w, loads), UNCHANGED code
    PROVE  WorksInv'
  BY IdleShaped DEF Lower, LowerFrom, WorksInv, WorksShaped, OneOf, GuessesCounted, Sending,
            Guessing

LEMMA EndKeeps == ASSUME WorksInv, NEW w \in Works, End(w) PROVE WorksInv'
  BY LowerKeeps DEF End

LEMMA EndAtKeeps ==
    ASSUME WorksInv, NEW w \in Works, NEW next, NEW in, EndAt(w, next, in)
    PROVE  WorksInv'
<1>1. Loads(next, in) \in BOOLEAN
    BY DEF Loads
<1> QED BY <1>1, LowerKeeps DEF EndAt


LEMMA SignInKeeps == ASSUME WorksInv, ShellStep PROVE WorksInv'
<1> USE AppShellAssumption
<1>1. CASE Splash \/ Onboarding \/ ChooseRole
    BY <1>1, GoKeeps DEF Splash, Onboarding, ChooseRole
<1>2. CASE PhoneScreen \/ OtpScreen
    BY <1>2, GoKeeps, RunKeeps DEF PhoneScreen, OtpScreen, Sending, Guessing
<1>3. ASSUME NEW w \in Works, EndLoad(w) PROVE WorksInv'
    BY <1>3, EndKeeps DEF EndLoad
<1>4. ASSUME NEW w \in Works, RequestAnswered(w) PROVE WorksInv'
  <2>1. CASE End(w)
    BY <2>1, EndKeeps
  <2>2. ASSUME NEW loads \in BOOLEAN, LowerFrom(job, w, loads), code' = code PROVE WorksInv'
    BY <2>2, LowerKeeps DEF Lower
  <2>3. ASSUME NEW loads \in BOOLEAN, LowerFrom(Outdated, w, loads), code' = NewCode PROVE WorksInv'
    <3>1. Counts(code') /\ code'.attempts = 0 /\ code'.guesses = 0
      BY <2>3, NewCodeCounts
    <3>2. /\ Outdated = [v \in Works |-> [do |-> Outdated[v].do, of |-> job[v].of, seen |-> job[v].seen]]
          /\ \A v \in Works : Outdated[v].do = IF job[v].do = "compare" THEN "outdated" ELSE job[v].do
      BY DEF Outdated, WorksInv, WorksShaped
    <3>3. /\ job' = [v \in Works |-> IF v = w THEN IF loads THEN Load ELSE Idle ELSE Outdated[v]]
          /\ busy' = loads
          /\ unlocked' = (unlocked \/ (~loads /\ \E v \in Works \ {w} : job[v].do # "idle"))
      BY <2>3, <3>2 DEF LowerFrom
    <3>4. /\ job'[w].do = IF loads THEN "load" ELSE "idle"
          /\ \A v \in Works \ {w} :
                job'[v].do = IF job[v].do = "compare" THEN "outdated" ELSE job[v].do
      BY <3>2, <3>3, IdleShaped
    <3>5. WorksShaped'
      BY <3>1, <3>2, <3>3, IdleShaped DEF WorksInv, WorksShaped, Counts
    <3>6. ~unlocked' => ~unlocked /\ \A v \in Works : job'[v].do # "idle" => busy'
      BY <3>3, <3>4 DEF WorksInv
    <3>7. ~unlocked' => OneOf(Sending)' /\ OneOf(Guessing)'
      BY <3>4, <3>6 DEF WorksInv, OneOf, Sending, Guessing
    <3>8. GuessesCounted'
      BY <3>1, <3>4 DEF GuessesCounted
    <3> QED BY <3>5, <3>6, <3>7, <3>8 DEF WorksInv
  <2>4. CASE ~End(w)
    <3>1. PICK sent \in BOOLEAN, loads \in BOOLEAN :
              /\ code' = IF sent THEN NewCode ELSE code
              /\ LowerFrom(IF sent THEN Outdated ELSE job, w, loads)
      BY <1>4, <2>4 DEF RequestAnswered, Loads
    <3> QED BY <2>2, <2>3, <3>1
  <2> QED BY <2>1, <2>4
<1>5. ASSUME NEW w \in Works, VerifyRead(w) PROVE WorksInv'
  <2>1. CASE End(w)
    BY <2>1, EndKeeps
  <2>2. CASE ~End(w)
    <3>1. /\ job[w].do = "verify" /\ code.attempts < MaxAttempts
          /\ job' = [job EXCEPT ![w].do = "compare", ![w].seen = code.attempts]
          /\ UNCHANGED <<busy, code, unlocked>>
      BY <1>5, <2>2 DEF VerifyRead
    <3>2. job[w] = [do |-> job[w].do, of |-> job[w].of, seen |-> job[w].seen]
      BY DEF WorksInv, WorksShaped
    <3>3. job'[w] = [[job[w] EXCEPT !.do = "compare"] EXCEPT !.seen = code.attempts]
      BY <3>1 DEF WorksInv, WorksShaped
    <3>4. job'[w] \in [do : {"compare"}, of : {job[w].of}, seen : {code.attempts}]
      BY <3>2, <3>3
    <3>5. /\ job' = [v \in Works |-> job'[v]]
          /\ \A v \in Works \ {w} : job'[v] = job[v]
      BY <3>1 DEF WorksInv, WorksShaped
    <3>6. \A v \in Works : job'[v] = [do |-> job'[v].do, of |-> job'[v].of, seen |-> job'[v].seen]
      BY <3>4, <3>5 DEF WorksInv, WorksShaped
    <3>7. job'[w].do = "compare" /\ job'[w].seen = code.attempts /\ code.attempts \in Nat
      BY <3>4 DEF WorksInv, WorksShaped, Counts
    <3>8. WorksShaped'
      BY <3>1, <3>5, <3>6, <3>7 DEF WorksInv, WorksShaped, Counts
    <3>9. ~unlocked => busy'
      BY <3>1 DEF WorksInv
    <3>10. \A v \in Works : job'[v].do \in Sending => job[v].do \in Sending
      BY <3>5, <3>7 DEF Sending
    <3>11. ~unlocked => OneOf(Sending)'
      BY <3>10 DEF WorksInv, OneOf
    <3>12. ~unlocked => \A v \in Works \ {w} : job[v].do \notin Guessing
      BY <3>1 DEF WorksInv, OneOf, Guessing
    <3>13. ~unlocked => OneOf(Guessing)'
      BY <3>5, <3>12 DEF OneOf
    <3>14. ~unlocked => GuessesCounted'
      BY <3>1, <3>5, <3>7 DEF WorksInv, GuessesCounted
    <3> QED BY <3>1, <3>8, <3>9, <3>11, <3>13, <3>14 DEF WorksInv
  <2> QED BY <2>1, <2>2
<1>6. ASSUME NEW w \in Works, Lower(w, FALSE) \/ Lower(w, Loads(HomeOf(chosen), TRUE)),
             job[w].do \in {"compare", "outdated"},
             Counts(code'),
             ~unlocked => code'.guesses <= code'.attempts /\ code'.attempts <= MaxAttempts
      PROVE  WorksInv'
  <2>1. PICK loads \in BOOLEAN : Lower(w, loads)
    BY <1>6 DEF Loads
  <2>2. /\ job' = [v \in Works |-> [do |-> job'[v].do, of |-> job'[v].of, seen |-> job'[v].seen]]
        /\ \A v \in Works : job'[v].seen \in Nat
        /\ job'[w].do = IF loads THEN "load" ELSE "idle"
        /\ \A v \in Works \ {w} : job'[v] = job[v]
    BY <2>1, IdleShaped DEF Lower, LowerFrom, WorksInv, WorksShaped
  <2>3. ~unlocked => \A v \in Works \ {w} : job[v].do \notin Guessing
    BY <1>6 DEF WorksInv, OneOf, Guessing
  <2>4. busy' = loads /\ (~unlocked' => ~unlocked /\ (loads \/ \A v \in Works \ {w} : job[v].do = "idle"))
    BY <2>1 DEF Lower, LowerFrom
  <2>5. WorksShaped'
    BY <1>6, <2>2 DEF WorksShaped, Counts
  <2>6. ~unlocked' => /\ \A v \in Works : job'[v].do # "idle" => busy'
                      /\ OneOf(Sending)'
    BY <2>2, <2>4 DEF WorksInv, OneOf, Sending
  <2>7. ~unlocked' => \A v \in Works : job'[v].do \notin Guessing
    BY <2>2, <2>3, <2>4 DEF Guessing
  <2>8. ~unlocked' => OneOf(Guessing)' /\ GuessesCounted'
    BY <1>6, <2>4, <2>7 DEF OneOf, GuessesCounted, Guessing
  <2> QED BY <2>5, <2>6, <2>8 DEF WorksInv
<1>7. ASSUME NEW w \in Works, VerifyWrong(w) PROVE WorksInv'
  <2>1. CASE job[w].do = "outdated"
    BY <1>6, <1>7, <2>1 DEF VerifyWrong, WorksInv, WorksShaped, GuessesCounted, Counts
  <2>2. CASE job[w].do = "compare"
    <3>1. /\ code = [live |-> code.live, attempts |-> code.attempts, guesses |-> code.guesses]
          /\ code.attempts \in Nat /\ code.guesses \in Nat /\ job[w].seen \in Nat
      BY DEF WorksInv, WorksShaped, Counts
    <3>2. code' = [live |-> code.live, attempts |-> job[w].seen + 1,
                   guesses |-> IF code.guesses > MaxAttempts THEN code.guesses ELSE code.guesses + 1]
      BY <1>7, <2>2, <3>1 DEF VerifyWrong
    <3>3. /\ Counts(code')
          /\ code'.attempts = job[w].seen + 1
          /\ code'.guesses = IF code.guesses > MaxAttempts THEN code.guesses ELSE code.guesses + 1
      BY <3>1, <3>2 DEF Counts
    <3>4. ~unlocked => code'.guesses <= code'.attempts /\ code'.attempts <= MaxAttempts
      BY <2>2, <3>1, <3>3 DEF WorksInv, GuessesCounted
    <3> QED BY <1>6, <1>7, <2>2, <3>3, <3>4 DEF VerifyWrong
  <2> QED BY <1>7, <2>1, <2>2 DEF VerifyWrong
<1>8. ASSUME NEW w \in Works, VerifyRight(w) PROVE WorksInv'
  <2>1. CASE job[w].do = "outdated"
    BY <1>6, <1>8, <2>1 DEF VerifyRight, WorksInv, WorksShaped, GuessesCounted
  <2>2. CASE job[w].do = "compare"
    <3>1. Counts(code') /\ code'.attempts = 0 /\ code'.guesses = 0
      BY <1>8, <2>2, NewCodeCounts DEF VerifyRight
    <3>2. code'.guesses <= code'.attempts /\ code'.attempts <= MaxAttempts
      BY <3>1
    <3> QED BY <1>6, <1>8, <2>2, <3>1, <3>2 DEF VerifyRight
  <2> QED BY <1>8, <2>1, <2>2 DEF VerifyRight
<1>9. ASSUME NEW w \in Works, LogoutAnswered(w) \/ ProfileSaved(w) PROVE WorksInv'
  <2>1. ASSUME EndAt(w, "role", FALSE) PROVE WorksInv'
    BY <2>1, EndAtKeeps, Zenon
  <2> QED BY <1>9, <2>1, EndKeeps DEF LogoutAnswered, ProfileSaved
<1> QED BY <1>1, <1>2, <1>3, <1>4, <1>5, <1>7, <1>8, <1>9 DEF ShellStep

\* A sheet asks for one of three works.
SheetAsks == sheet.kind \in {"none", "confirm-delivery", "cancel-order", "select-driver"}

LEMMA ClientKeeps == ASSUME WorksInv, SheetAsks, ClientStep PROVE WorksInv'
<1>1. CASE UNCHANGED shell
    BY <1>1, StillKeeps
<1>2. ASSUME NEW next, Visit(next) PROVE WorksInv'
    BY <1>2, GoKeeps DEF Visit
<1>3. ASSUME NEW do, NEW o, Start(do, o) \/ Open(do, o), do \notin Sending \cup Guessing
      PROVE  WorksInv'
    BY <1>3, RunKeeps DEF Start, Open, Guessing
<1>4. CASE Wizard
  <2>1. CASE Publish
    BY <2>1, RunKeeps DEF Publish, Start
  <2>2. CASE Home \/ LocationSelector \/ DistrictSelector \/ MapPicker
    BY <1>1, <1>2, <2>2, GoKeeps DEF Home, BottomNav, LocationSelector, SelectCity,
            DistrictSelector, SelectDistrict, MapPicker
  <2>3. CASE RouteSummary \/ OrderAddress \/ OrderPhoto
    BY <1>2, <1>3, <2>3, GoKeeps DEF RouteSummary, CancelEditing, OrderAddress, OrderPhoto,
            Sending, Guessing
  <2> QED BY <1>2, <1>4, <2>1, <2>2, <2>3 DEF Wizard, OrderReview
<1>5. CASE OrderScreens
  <2>1. CASE Success \/ OrdersList \/ Bids \/ Rating \/ Dispute \/ Notifications \/ Profile
    BY <1>1, <1>2, <1>3, <2>1 DEF Success, OrdersList, BottomNav, Bids, Ask, Rating, Dispute,
            Notifications, Profile, Sending, Guessing
  <2>2. CASE OrderDetail \/ NothingFound
    BY <1>1, <1>2, <1>3, <2>2, GoKeeps DEF OrderDetail, BeginEditOrder, Ask, NothingFound,
            Sending, Guessing
  <2>3. CASE ConfirmSheet
    BY <1>1, <1>3, <2>3 DEF ConfirmSheet, NoSheet, SheetAsks, Sending, Guessing
  <2> QED BY <1>5, <2>1, <2>2, <2>3 DEF OrderScreens
<1>6. ASSUME NEW w \in Works, Answered(w) PROVE WorksInv'
  <2>1. job[w].do # "idle"
    BY <1>6 DEF Answered, Pending
  <2>2. CASE Updated(w) \/ Published(w) \/ DriverSelected(w) \/ OrderCancelled(w) \/ DisputeOpened(w)
    BY <2>1, <2>2, ContinueKeeps DEF Updated, Published, DriverSelected, OrderCancelled,
            DisputeOpened, Sending, Guessing
  <2>3. CASE UploadAnswered(w) \/ DeliveryConfirmed(w) \/ Concluded(w) \/ BidsLoaded(w)
    BY <2>3, EndKeeps, EndAtKeeps DEF UploadAnswered, DeliveryConfirmed, Concluded, BidsLoaded
  <2>4. CASE Opened(w) \/ NoticeRead(w)
    BY <2>1, <2>4, ContinueKeeps, EndKeeps, EndAtKeeps DEF Opened, NoticeRead, Sending, Guessing
  <2>5. CASE Failed(w)
    BY <2>5, LowerKeeps DEF Failed
  <2>6. CASE Created(w)
    <3>1. PICK o \in Orders : job' = [job EXCEPT ![w] = Work("publish", o)]
      BY <2>6 DEF Created
    <3>2. job[w].do = "create" /\ UNCHANGED <<busy, code, unlocked>>
      BY <2>6 DEF Created
    <3>3. job'[w].do = "publish" /\ \A v \in Works \ {w} : job'[v] = job[v]
      BY <3>1, IdleShaped DEF WorksInv, WorksShaped
    <3>4. WorksShaped'
      BY <3>1, <3>2, IdleShaped DEF WorksInv, WorksShaped
    <3> QED BY <3>2, <3>3, <3>4 DEF WorksInv, OneOf, GuessesCounted, Sending, Guessing
  <2> QED BY <1>6, <2>2, <2>3, <2>4, <2>5, <2>6 DEF Answered
<1> QED BY <1>4, <1>5, <1>6 DEF ClientStep


LEMMA SheetKeeps == ASSUME SheetAsks, ClientStep PROVE SheetAsks'
<1>1. CASE UNCHANGED sheet \/ sheet' = NoSheet
    BY <1>1 DEF SheetAsks, NoSheet
<1>2. ASSUME NEW kind \in {"confirm-delivery", "cancel-order", "select-driver"}, NEW o, Ask(kind, o)
      PROVE  SheetAsks'
    BY <1>2 DEF Ask, SheetAsks
<1>3. CASE Wizard
    BY <1>1, <1>3 DEF Wizard, Home, Visit, BottomNav, clientVars, LocationSelector, SelectCity,
            DistrictSelector, SelectDistrict, MapPicker, RouteSummary, CancelEditing, OrderAddress,
            OrderPhoto, Start, OrderReview, Publish
<1>4. CASE OrderScreens
    BY <1>1, <1>2, <1>4 DEF OrderScreens, Success, OrdersList, Open, Visit, Start, BottomNav,
            clientVars, OrderDetail, BeginEditOrder, Bids, ConfirmSheet, Rating, Dispute,
            Notifications, Profile, NothingFound
<1>5. ASSUME NEW w \in Works, Answered(w) PROVE SheetAsks'
    BY <1>1, <1>5 DEF Answered, UploadAnswered, Updated, Created, Published, Opened, BidsLoaded,
            NoticeRead, DriverSelected, DeliveryConfirmed, OrderCancelled, DisputeOpened, Concluded,
            Failed, clientVars, formVars, display
<1> QED BY <1>3, <1>4, <1>5 DEF ClientStep

LEMMA DriverKeeps == ASSUME WorksInv, DriverStep PROVE WorksInv'
<1>1. CASE UNCHANGED shell
    BY <1>1, StillKeeps
<1>2. ASSUME NEW next, Enter(next) PROVE WorksInv'
    BY <1>2, GoKeeps DEF Enter
<1>3. ASSUME NEW do, NEW x, Call(do, x), do \notin Sending \cup Guessing PROVE WorksInv'
    BY <1>3, RunKeeps DEF Call, Guessing
<1>4. CASE DriverHome \/ ProfileForm \/ DriverDocuments \/ DriverIncome \/ DriverProfile
    BY <1>2, <1>3, <1>4 DEF DriverHome, ProfileForm, DriverDocuments, DriverIncome, DriverProfile,
            DriverNav, Sending, Guessing
<1>5. CASE RoutesList \/ AddRoute \/ RouteDistrict
    BY <1>1, <1>2, <1>3, <1>5, GoKeeps DEF RoutesList, NewRoute, StartEditDriverRoute, DriverNav,
            AddRoute, ChooseRouteCity, LeaveRoute, SaveRoute, RouteDistrict, Sending, Guessing
<1>6. CASE FeedAndHistory \/ DriverBid \/ DriverOrderDetail
    BY <1>2, <1>3, <1>6, GoKeeps DEF FeedAndHistory, OpenBid, DriverNav, DriverBid,
            DriverOrderDetail, Sending, Guessing
<1>7. ASSUME NEW w \in Works, DriverAnswered(w) PROVE WorksInv'
  <2>1. job[w].do # "idle"
    BY <1>7 DEF DriverAnswered, Pending
  <2>2. CASE OrderShown(w) \/ DriverConcluded(w) \/ DriverEnded(w)
    BY <2>2, EndKeeps, EndAtKeeps DEF OrderShown, DriverConcluded, DriverEnded
  <2>3. CASE StatusUpdated(w) \/ RouteUpdated(w)
    BY <2>1, <2>3, ContinueKeeps DEF StatusUpdated, RouteUpdated, Sending, Guessing
  <2> QED BY <1>7, <2>2, <2>3 DEF DriverAnswered
<1> QED BY <1>4, <1>5, <1>6, <1>7 DEF DriverStep

LEMMA WorksStart == Init => WorksInv /\ SheetAsks
<1> SUFFICES ASSUME ShellInit, ClientInit PROVE WorksInv /\ SheetAsks
    BY DEF Init
<1>1. PICK w : \/ job = [v \in Works |-> Idle]
               \/ job = [v \in Works |-> IF v = w THEN Load ELSE Idle]
    BY DEF ShellInit
<1>2. WorksShaped
    BY <1>1, IdleShaped, NewCodeCounts DEF ShellInit, WorksShaped
<1>3. \A v \in Works : job[v].do = "idle" \/ (v = w /\ job[v].do = "load")
    BY <1>1, IdleShaped
<1>4. (\E v \in Works : job[v].do # "idle") => busy
    BY IdleShaped DEF ShellInit
<1>5. OneOf(Sending) /\ OneOf(Guessing) /\ GuessesCounted
    BY <1>3, NewCodeCounts, AppShellAssumption DEF ShellInit, OneOf, GuessesCounted, Sending,
            Guessing
<1> QED BY <1>2, <1>4, <1>5 DEF WorksInv, ClientInit, NoSheet, SheetAsks

LEMMA WorksHold == Spec => [](WorksInv /\ SheetAsks)
<1>1. WorksInv /\ SheetAsks /\ [Next]_vars => (WorksInv /\ SheetAsks)'
  <2> SUFFICES ASSUME WorksInv, SheetAsks, [Next]_vars PROVE WorksInv' /\ SheetAsks'
    OBVIOUS
  <2>1. CASE UNCHANGED appVars
    BY <2>1, StillKeeps DEF appVars, clientVars, SheetAsks
  <2>2. CASE ClientStep
    BY <2>2, ClientKeeps, SheetKeeps
  <2>3. CASE (DriverStep \/ ShellStep) /\ UNCHANGED clientVars
    BY <2>3, DriverKeeps, SignInKeeps DEF clientVars, SheetAsks
  <2> QED BY <2>1, <2>2, <2>3 DEF Next, App, ClientApp, DriverApp, SignInApp, AdminTables,
            AdminDrawers, AdminPage, vars
<1> QED BY WorksStart, <1>1, PTL DEF Spec

\* The form on the screen is sent once, for any number of works in flight, as
\* long as none has lowered the flag of another (run, publishOrder).
THEOREM FormsAreSentOnce == Spec => []PublishedOnce
<1>1. WorksInv => PublishedOnce
    BY DEF WorksInv, OneOf, Sending, PublishedOnce
<1> QED BY <1>1, WorksHold, PTL

\* A code is guessed at no more often than the limit, for any limit, though the
\* server counts without a lock (verify_otp).
THEOREM GuessesStayWithinLimit == Spec => []GuessesAreLimited
<1>1. WorksInv => GuessesAreLimited
    BY AppShellAssumption DEF WorksInv, WorksShaped, Counts, GuessesCounted, GuessesAreLimited
<1> QED BY <1>1, WorksHold, PTL

=============================================================================
