------------------------------ MODULE WebSignIn ------------------------------
(***************************************************************************)
(* Signing in and out of the web front end (frontend/src/app/App.tsx) and  *)
(* of the Android app (android-app/src).  Clients and drivers share one    *)
(* store of tokens, so the page that shows and the tokens that are stored  *)
(* may part.  Sessions models the tokens themselves; here only whose they  *)
(* are is followed.                                                        *)
(***************************************************************************)
EXTENDS Naturals

CONSTANTS None,
          SignCalls   \* bound: calls in flight at once

VARIABLES
    build,      \* which of the two programs runs
    page,       \* the route, or the screen of the session gate
    step,       \* authStep
    role,       \* the role chosen
    saved,      \* the role of the stored mobile tokens
    staff,      \* whether tokens of the admin desk are stored
    waiting,    \* the calls in flight
    typed,      \* history: the page of another role was opened by its address
    overtaken   \* history: someone signed in while tokens of another role were
                \* being renewed

signVars == <<page, step, role, saved, staff, waiting, typed, overtaken>>

Mobile == {"client", "driver"}

ASSUME WebSignInAssumption == None \notin Mobile

Builds == {"web", "android"}

\* A call: the role and the tokens it is made with, whether these are being
\* renewed, and whether what made it - the screen, the page - still shows.
NoWait == [do |-> "idle", role |-> None, owner |-> None, renewal |-> "not-yet", maker |-> "gone"]
Wait(do, r, o, maker) == [NoWait EXCEPT !.do = do, !.role = r, !.owner = o, !.maker = maker]

\* The web starts on the sign-in page; the Android app holds its gate until the
\* stored user has been checked.
SignInInit ==
    /\ build \in Builds /\ step = "splash" /\ staff \in BOOLEAN
    /\ saved \in Mobile \cup {None}
    /\ role = IF build = "web" THEN "driver" ELSE "client"
    /\ page = IF build = "android" /\ saved # None THEN "loading" ELSE "auth"
    /\ \E s \in SignCalls :
          waiting = [c \in SignCalls |-> IF c # s \/ saved = None THEN NoWait
                     ELSE Wait("check", IF build = "web" THEN role ELSE saved, saved, "page")]
    /\ typed = FALSE /\ overtaken = FALSE

---------------------------------------------------------------------------
(* Pages *)

LeftScreen(calls) ==
    [s \in SignCalls |-> IF calls[s].maker # "screen" THEN calls[s]
                         ELSE [calls[s] EXCEPT !.maker = "page"]]

\* AuthPage checks the stored tokens whenever it is entered or its role changes,
\* and takes no answer to an earlier check.
Checking(calls, p, r, tokens) ==
    LET left == [s \in SignCalls |-> IF p = page /\ calls[s].do # "check" THEN calls[s]
                                     ELSE [calls[s] EXCEPT !.maker = "gone"]]
    IN  IF build = "web" /\ p = "auth" /\ tokens # None
        THEN {[left EXCEPT ![s] = Wait("check", r, tokens, "page")] :
                 s \in {c \in SignCalls : left[c].do = "idle"}}
        ELSE {left}

\* navigate, or a change of the gate's role.  The web's pages lead back when no
\* tokens are stored.
Enter(p, tokens, calls) ==
    LET next == IF build = "web" /\ p \in Mobile /\ tokens = None THEN "auth" ELSE p
    IN  /\ page' = next /\ saved' = tokens
        /\ IF p = page THEN waiting' = calls /\ UNCHANGED <<step, role, typed>>
           ELSE /\ step' = "splash" /\ typed' = FALSE
                /\ role' = IF build = "android" THEN "client" ELSE role
                /\ waiting' \in Checking(calls, next, role, tokens)

Stay(calls) == waiting' = calls /\ UNCHANGED <<page, step, role, saved, typed>>

Send(call) ==
    /\ \E s \in SignCalls : waiting[s].do = "idle" /\ Stay([waiting EXCEPT ![s] = call])
    /\ UNCHANGED <<staff, overtaken>>

\* The button of a screen waits for the call that screen has sent.
Press(do) ==
    /\ \A s \in SignCalls : ~(waiting[s].do = do /\ waiting[s].maker = "screen")
    /\ Send(Wait(do, role, None, "screen"))

ShowStep(next) ==
    /\ step' = next /\ waiting' = LeftScreen(waiting)
    /\ UNCHANGED <<page, role, saved, staff, typed, overtaken>>

SplashScreen == step = "splash" /\ ShowStep("onboarding")

OnboardingScreen == step = "onboarding" /\ ShowStep("role-select")

ChooseRole ==
    \E r \in Mobile :
        /\ role' = r /\ step' = "phone"
        /\ waiting' \in IF r = role THEN {waiting} ELSE Checking(waiting, page, r, saved)
        /\ UNCHANGED <<page, saved, staff, typed, overtaken>>

RoleSelectScreen == step = "role-select" /\ (ChooseRole \/ ShowStep("onboarding"))

PhoneScreen == step = "phone" /\ (ShowStep("role-select") \/ Press("request"))

OtpScreen ==
    /\ step = "otp"
    /\ ShowStep("phone") \/ Press("verify") \/ Send(Wait("resend", role, None, "page"))

AuthFlow == page = "auth" /\ (SplashScreen \/ OnboardingScreen \/ RoleSelectScreen
                              \/ PhoneScreen \/ OtpScreen)

\* The client's and the driver's page call with the stored tokens, and sign out.
RolePage ==
    /\ page \in Mobile
    /\ \E do \in {"load", "logout"} : Send(Wait(do, page, saved, "page"))

\* Any page can be opened by its address, which drops the calls in flight.
OpenAddress ==
    /\ build = "web"
    /\ \E p \in Mobile \cup {"auth", "admin"} :
          /\ page' = IF p \in Mobile /\ saved = None THEN "auth"
                     ELSE IF p = "admin" THEN IF staff THEN "admin-checking" ELSE "admin-login"
                     ELSE p
          /\ step' = "splash" /\ role' = "driver"
          /\ waiting' \in Checking([s \in SignCalls |-> NoWait], page', "driver", saved)
          /\ typed' = (p \in Mobile /\ saved # p)
    /\ overtaken' = FALSE
    /\ UNCHANGED <<saved, staff>>

---------------------------------------------------------------------------
(* Answers *)

Done(s) == [waiting EXCEPT ![s] = NoWait]

\* Mutant: an answer is taken though the page was left or the role changed.
CheckedLate(s) ==
    /\ waiting[s].do = "check" /\ waiting[s].renewal # "under-way"
    /\ \/ waiting[s].owner = waiting[s].role /\ Enter(waiting[s].role, saved, Done(s))
       \/ IF page = "loading" THEN Enter("auth", saved, Done(s)) ELSE Stay(Done(s))
    /\ UNCHANGED <<staff, overtaken>>

\* sessionRefreshMe answers with a user of the role asked for, or with nothing.
Checked(s) ==
    /\ waiting[s].do = "check" /\ waiting[s].renewal # "under-way"
    /\ \/ /\ waiting[s].maker # "gone" /\ waiting[s].owner = waiting[s].role
          /\ Enter(waiting[s].role, saved, Done(s))
       \/ IF page = "loading" THEN Enter("auth", saved, Done(s)) ELSE Stay(Done(s))
    /\ UNCHANGED <<staff, overtaken>>

\* A 401 is answered by renewing the tokens stored by then, once.
Unauthorized(s) ==
    /\ waiting[s].do \in {"check", "load", "logout"} /\ waiting[s].renewal = "not-yet"
    /\ saved # None
    /\ Stay([waiting EXCEPT ![s].owner = saved, ![s].renewal = "under-way"])
    /\ UNCHANGED <<staff, overtaken>>

\* The renewed tokens are stored over whatever is stored when they come, a
\* refusal drops whatever is stored, and a lost call leaves it.
Renewed(s) ==
    /\ waiting[s].renewal = "under-way"
    /\ saved' \in {waiting[s].owner, None, saved}
    /\ waiting' = [waiting EXCEPT ![s].renewal = "over",
                                 ![s].owner = IF saved' = @ THEN @ ELSE None]
    /\ UNCHANGED <<page, step, role, staff, typed, overtaken>>

\* requestOtpFor goes on to the code, whatever step the user went to meanwhile.
CodeRequested(s) ==
    /\ waiting[s].do \in {"request", "resend"}
    /\ IF waiting[s].do = "request" /\ waiting[s].maker # "gone"
       THEN step' \in {step, "otp"} ELSE UNCHANGED step
    /\ waiting' = IF step' = step THEN Done(s) ELSE LeftScreen(Done(s))
    /\ UNCHANGED <<page, role, saved, staff, typed, overtaken>>

\* verifyOtpFor stores the tokens of the role it was called for, and goes there.
Verified(s) ==
    /\ waiting[s].do = "verify"
    /\ \/ /\ Enter(waiting[s].role, waiting[s].role, Done(s))
          /\ overtaken' = (overtaken \/ \E c \in SignCalls : /\ waiting[c].renewal = "under-way"
                                                             /\ waiting[c].owner # waiting[s].role)
       \/ Stay(Done(s)) /\ UNCHANGED overtaken
    /\ UNCHANGED staff

Loaded(s) ==
    /\ waiting[s].do = "load" /\ waiting[s].renewal # "under-way"
    /\ Stay(Done(s)) /\ UNCHANGED <<staff, overtaken>>

\* sessionLogout drops whatever is stored, whoever signed in meanwhile.
LoggedOut(s) ==
    /\ waiting[s].do = "logout" /\ waiting[s].renewal # "under-way"
    /\ Enter("auth", None, Done(s))
    /\ UNCHANGED <<staff, overtaken>>

\* The admin page checks its own tokens, signs in by password, and signs out.
AdminPage ==
    /\ \/ page = "admin-checking" /\ page' \in {"admin", "admin-login"} /\ UNCHANGED staff
       \/ page = "admin-login" /\ page' = "admin" /\ staff' = TRUE
       \/ page = "admin" /\ page' = "admin-login" /\ staff' = FALSE
    /\ UNCHANGED <<step, role, saved, waiting, typed, overtaken>>

SignInStep ==
    \/ AuthFlow \/ RolePage \/ OpenAddress \/ AdminPage
    \/ \E s \in SignCalls : \/ Checked(s) \/ Unauthorized(s) \/ Renewed(s) \/ CodeRequested(s)
                            \/ Verified(s) \/ Loaded(s) \/ LoggedOut(s)
================================================================================
