------------------------------- MODULE AppShell -------------------------------
(***************************************************************************)
(* The frame of the mobile app (ConnectedApp.tsx): the screen, the sign-in *)
(* screens with their one-time code, and `run`, which every button uses to *)
(* call the server.  `run` keeps one busy flag for all works: the end of   *)
(* any work lowers it, though another work may still be in flight.         *)
(*                                                                         *)
(* The server answers a work with anything it could answer; the orders it  *)
(* keeps are the subject of Marketplace.  A device belongs to one person,  *)
(* so the role chosen never changes.                                       *)
(***************************************************************************)
EXTENDS Naturals

CONSTANTS Orders, None,
          Works,         \* bound: works in flight at once
          Overlapping,   \* bound: works that start though another is in flight
          OtpLength,     \* digits of the codes the server sends
          MaxAttempts    \* otp_max_verify_attempts

ASSUME AppShellAssumption ==
    None \notin Orders /\ OtpLength \in Nat /\ MaxAttempts \in Nat \ {0}

VARIABLES
    chosen,     \* selectedRole, and the role of the user who signs in
    signedIn,   \* auth.isAuthenticated
    screen,
    busy,
    job,        \* the works in flight
    code,       \* the latest OtpCode row of the phone
    unlocked,   \* history: a work ended while another one was in flight
    disturbed   \* history: the user went on while an order work was in flight,
                \* or an order failed to open

shell == <<chosen, signedIn, screen, busy, job, code, unlocked, disturbed>>

Role        == {"client", "driver"}
AuthScreens == {"splash", "onboarding", "role", "phone", "otp"}
HomeOf(r)   == IF r = "driver" THEN "driver-home" ELSE "client-home"

\* The screens that call the server as soon as they are entered.
LoadingScreens ==
    {"client-home", "client-orders", "client-notifications", "client-profile",
     "driver-home", "driver-profile", "driver-income", "driver-routes",
     "driver-feed", "driver-orders"}

Idle == [do |-> "idle", of |-> None, seen |-> 0]
Load == [Idle EXCEPT !.do = "load"]
Work(do, o) == [Idle EXCEPT !.do = do, !.of = o]

Pending == {w \in Works : job[w].do \notin {"idle", "load"}}

NoCode  == [live |-> FALSE, attempts |-> 0, guesses |-> 0]
NewCode == [NoCode EXCEPT !.live = TRUE]

\* A first start, or a start over a stored session, already on its home screen.
ShellInit ==
    /\ chosen \in Role
    /\ \/ /\ signedIn = FALSE /\ screen = "splash" /\ busy = FALSE
          /\ job = [w \in Works |-> Idle]
       \/ /\ signedIn = TRUE /\ screen = HomeOf(chosen) /\ busy = TRUE
          /\ \E w \in Works : job = [v \in Works |-> IF v = w THEN Load ELSE Idle]
    /\ code = NoCode
    /\ unlocked = FALSE /\ disturbed = FALSE

\* The guard on the session: without a user only the sign-in screens show,
\* with one they give way to the home screen.
Allowed(next, in) ==
    IF in THEN IF next \in AuthScreens THEN HomeOf(chosen) ELSE next
    ELSE IF next \in AuthScreens THEN next ELSE "role"

Loads(next, in) == in /\ Allowed(next, in) \in LoadingScreens /\ Allowed(next, in) # screen

---------------------------------------------------------------------------
(* go and run *)

Show(next, in) == screen' = Allowed(next, in) /\ signedIn' = in

\* go, from a button: a loading screen starts its load.
Go(next) ==
    /\ Show(next, signedIn)
    /\ disturbed' = (disturbed \/ Pending # {})
    /\ IF Loads(next, signedIn)
       THEN /\ busy' = TRUE
            /\ \E w \in Works : job[w].do = "idle" /\ job' = [job EXCEPT ![w] = Load]
       ELSE UNCHANGED <<busy, job>>
    /\ UNCHANGED <<chosen, code, unlocked>>

\* run, up to the first answer it waits for.
Run(do, o) ==
    /\ Pending = {} \/ do \in Overlapping
    /\ busy' = TRUE
    /\ \E w \in Works : job[w].do = "idle" /\ job' = [job EXCEPT ![w] = Work(do, o)]
    /\ disturbed' = (disturbed \/ Pending # {})
    /\ UNCHANGED <<chosen, signedIn, screen, code, unlocked>>

\* A work goes on to its next call.
Continue(w, do) ==
    /\ job' = [job EXCEPT ![w].do = do]
    /\ UNCHANGED <<chosen, signedIn, screen, busy, code, unlocked, disturbed>>

\* The finally block of run, after the work's last go; entering a loading
\* screen at that moment raises the flag again.
LowerFrom(jobs, w, loads) ==
    /\ busy' = loads
    /\ job' = [jobs EXCEPT ![w] = IF loads THEN Load ELSE Idle]
    /\ unlocked' = (unlocked \/ (~loads /\ \E v \in Works \ {w} : job[v].do # "idle"))

Lower(w, loads) == LowerFrom(job, w, loads)

EndAt(w, next, in) ==
    /\ Show(next, in)
    /\ Lower(w, Loads(next, in))
    /\ UNCHANGED <<chosen, code, disturbed>>

End(w) ==
    /\ Lower(w, FALSE)
    /\ UNCHANGED <<chosen, signedIn, screen, code, disturbed>>

\* A load whose screen shows nothing these modules follow, and any work that
\* fails before its first answer.
EndLoad(w) == job[w].do = "load" /\ End(w)

---------------------------------------------------------------------------
(* Signing in and out.  auth_service.py counts the wrong guesses at a code *)
(* without a lock: it reads the row, compares, and writes count + 1.       *)

Splash == screen = "splash" /\ Go("onboarding")

Onboarding == screen = "onboarding" /\ Go("role")

ChooseRole == screen = "role" /\ Go("phone")

PhoneScreen ==
    /\ screen = "phone"
    /\ Go("role") \/ (~busy /\ Run("request", None))

OtpScreen ==
    /\ screen = "otp"
    /\ \/ Go("phone")
       \/ ~busy /\ OtpLength >= 6 /\ Run("verify", None)
       \/ Run("resend", None)

Outdated == [v \in Works |-> IF job[v].do # "compare" THEN job[v]
                             ELSE [job[v] EXCEPT !.do = "outdated"]]

\* request_otp: a new code puts the earlier ones out of use, and a comparison
\* with one of them will count on the old row.  The app takes the refusal "too
\* soon" for success.
RequestAnswered(w) ==
    /\ job[w].do \in {"request", "resend"}
    /\ \/ End(w)
       \/ \E sent \in BOOLEAN :
             LET next  == IF job[w].do = "request" THEN "otp" ELSE screen
                 loads == job[w].do = "request" /\ Loads(next, signedIn)
             IN  /\ Show(next, signedIn)
                 /\ code' = IF sent THEN NewCode ELSE code
                 /\ LowerFrom(IF sent THEN Outdated ELSE job, w, loads)
                 /\ UNCHANGED <<chosen, disturbed>>

\* verify_otp, up to the comparison; it refuses a code that is used, expired
\* or guessed at too often.
VerifyRead(w) ==
    /\ job[w].do = "verify"
    /\ \/ End(w)
       \/ /\ code.live /\ code.attempts < MaxAttempts
          /\ job' = [job EXCEPT ![w].do = "compare", ![w].seen = code.attempts]
          /\ UNCHANGED <<chosen, signedIn, screen, busy, code, unlocked, disturbed>>

\* Mutant: a wrong guess is not counted.
VerifyWrongUncounted(w) ==
    /\ job[w].do \in {"compare", "outdated"}
    /\ code' = [code EXCEPT !.guesses = IF @ > MaxAttempts THEN @ ELSE @ + 1]
    /\ Lower(w, FALSE)
    /\ UNCHANGED <<chosen, signedIn, screen, disturbed>>

VerifyWrong(w) ==
    /\ job[w].do \in {"compare", "outdated"}
    /\ code' = IF job[w].do = "outdated" THEN code
               ELSE [code EXCEPT !.attempts = job[w].seen + 1,
                                 !.guesses = IF @ > MaxAttempts THEN @ ELSE @ + 1]
    /\ Lower(w, FALSE)
    /\ UNCHANGED <<chosen, signedIn, screen, disturbed>>

VerifyRight(w) ==
    /\ job[w].do \in {"compare", "outdated"}
    /\ code' = IF job[w].do = "outdated" THEN code ELSE NoCode
    /\ Show(HomeOf(chosen), TRUE)
    /\ Lower(w, Loads(HomeOf(chosen), TRUE))
    /\ UNCHANGED <<chosen, disturbed>>

\* logout clears the session whatever the server answers.
LogoutAnswered(w) == job[w].do = "logout" /\ EndAt(w, "role", FALSE)

\* Saving a profile ends with refreshMe, which signs out when it fails.
ProfileSaved(w) ==
    /\ job[w].do = "save-profile"
    /\ End(w) \/ EndAt(w, "role", FALSE)

ShellStep ==
    \/ Splash \/ Onboarding \/ ChooseRole \/ PhoneScreen \/ OtpScreen
    \/ \E w \in Works : \/ EndLoad(w) \/ RequestAnswered(w)
                        \/ VerifyRead(w) \/ VerifyWrong(w) \/ VerifyRight(w)
                        \/ LogoutAnswered(w) \/ ProfileSaved(w)
================================================================================
