------------------------------- MODULE WebApp -------------------------------
(***************************************************************************)
(* The web front end (frontend/src/app/App.tsx) and the Android app        *)
(* (android-app/src), which follows it screen by screen: signing in        *)
(* (WebSignIn), the client's page (WebClient), the driver's page           *)
(* (WebDriver) and, on the web only, the admin desk (WebDesk).  A page     *)
(* keeps its state for itself and loses it when another one is shown, so   *)
(* each behaviour is of one part, chosen at the start; which page shows    *)
(* and when is WebSignIn's matter.                                         *)
(***************************************************************************)
EXTENDS WebClient, WebDriver, WebDesk

VARIABLE part     \* what this behaviour is of

vars == <<part, build, signVars, clientVars, driverVars, deskVars>>

Parts == {"sign-in", "client", "driver", "desk"}

\* The parts a behaviour is not of stand still, each in one initial state.
Init ==
    /\ part \in Parts
    /\ SignInInit /\ ClientInit /\ DriverInit /\ DeskInit
    /\ part # "sign-in" => saved = None /\ ~staff
    /\ part = "desk" => build = "web"
    /\ dcalls \in IF part = "driver" THEN Loading ELSE {[c \in DriverCalls |-> NoDCall]}

SignIn  == /\ part = "sign-in" /\ SignInStep
           /\ UNCHANGED <<part, build, clientVars, driverVars, deskVars>>

ClientPage == /\ part = "client" /\ ClientStep
              /\ UNCHANGED <<part, build, signVars, driverVars, deskVars>>

DriverPage == /\ part = "driver" /\ DriverStep
              /\ UNCHANGED <<part, build, signVars, clientVars, deskVars>>

Desk == /\ part = "desk" /\ DeskStep
        /\ UNCHANGED <<part, build, signVars, clientVars, driverVars>>

Next == SignIn \/ ClientPage \/ DriverPage \/ Desk

Spec == Init /\ [][Next]_vars

---------------------------------------------------------------------------
(* Properties *)

\* The page of a client or a driver calls with tokens of that role, whatever
\* checks, renewals and sign-ins overlap - unless the page of the other role was
\* opened by its address, or one signed in while tokens of the other role were
\* being renewed, whose answer is stored over the new ones (sessionRefreshMe,
\* http.ts's retry).
PageMatchesTokens ==
    page \in Mobile /\ saved # None /\ ~typed /\ ~overtaken => saved = page

\* An end of the route the user has confirmed on the map is the city and the
\* district chosen for it: neither the current location nor a choice for the
\* other end, begun and left, gets into it (handleCity, handleConfirmLoc and the
\* detection of ClientApp).
DraftKeepsChoices == \A s \in Side : picked[s] # NoPlace => ends[s] = picked[s]

\* A draft is published once: it stays no longer than the screen of success, and
\* no second order is made of it meanwhile, unless a screen was left while its
\* call was in flight, or success by Android's Back button (publishOrder,
\* OrderReview's busy).
DraftPublishedOnce ==
    ~crossed =>
        /\ published => cscreen = "order-success"
        /\ \A s, t \in WebCalls :
              {ccalls[s].do, ccalls[t].do} \subseteq {"create", "publish"} => s = t

\* The sheet of a bid tells of its own bid: it shows success only for an order a
\* bid was taken for, and while it waits that bid is in flight, though it can be
\* closed under its call and opened for another order (BidSheet's go).
SheetTellsOfItsBid ==
    /\ sheet.st = "success" => sheet.of \in placed
    /\ sheet.st = "loading" => \E s \in DriverCalls :
          dcalls[s].do = "bid" /\ dcalls[s].phase = "call" /\ dcalls[s].of = sheet.of

\* The vehicle form of the desk holds the vehicle of the driver it is saved
\* under, though drawer, dialog and form are set apart and closed by answers to
\* other calls (openVehicle, saveVehicle).
VehicleFormIsTheDrivers == modal = "vehicle" => content = drawer
================================================================================
