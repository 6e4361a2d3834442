------------------------------ MODULE AdminStaff ------------------------------
(***************************************************************************)
(* Who the admin desk of the mobile app is signed in as: the user its page *)
(* shows (AdminApp.tsx), the user and the tokens in local storage, and the *)
(* calls that put a user in any of the three when they are answered.  What *)
(* the server answers to a refresh is the subject of Sessions; here it may *)
(* accept or refuse any.                                                   *)
(***************************************************************************)
CONSTANTS Staff, Nobody,
          Calls             \* bound: calls in flight at once

ASSUME AdminStaffAssumption == Nobody \notin Staff

VARIABLES
    page,       \* user of AdminApp
    stored,     \* the stored user
    tokens,     \* whose tokens are stored
    pageBusy,   \* busy of AdminApp, of AdminLogin while nobody is shown
    call,       \* the calls in flight, and whose token or phone they carry
    late        \* history: someone signed out with a call in flight

staffVars == <<page, stored, tokens, pageBusy, call, late>>

StaffOrNobody == Staff \cup {Nobody}

Silence == [do |-> "idle", as |-> Nobody, renewing |-> FALSE]
Carrying(do, s) == [Silence EXCEPT !.do = do, !.as = s]

StaffInit ==
    /\ page \in StaffOrNobody /\ stored = page /\ tokens = page
    /\ pageBusy = (page # Nobody)
    /\ \E c \in Calls : call = [d \in Calls |-> IF d = c /\ page # Nobody
                                                THEN Carrying("load", page) ELSE Silence]
    /\ late = FALSE

Waiting == {c \in Calls : call[c].do # "idle"}

Place(do, s) ==
    \E c \in Calls : /\ call[c].do = "idle"
                     /\ call' = [call EXCEPT ![c] = Carrying(do, s)]

Hang(c) ==
    /\ call' = [call EXCEPT ![c] = Silence]
    /\ pageBusy' = (pageBusy /\ call[c].do # IF page = Nobody THEN "verify" ELSE "load")

---------------------------------------------------------------------------

\* login of AdminLogin, with a phone and a code.
Login(s) ==
    /\ page = Nobody /\ ~pageBusy
    /\ Place("verify", s) /\ pageBusy' = TRUE
    /\ UNCHANGED <<page, stored, tokens, late>>

\* The tokens are saved, the page is shown, and loadAll starts.
LoginAccepted(c) ==
    /\ call[c].do = "verify"
    /\ page' = call[c].as /\ stored' = call[c].as /\ tokens' = call[c].as
    /\ call' = [call EXCEPT ![c].do = "load"]
    /\ pageBusy' = TRUE
    /\ UNCHANGED late

\* loadAll asks for the user among the rest, and does nothing without a token.
LoadAll ==
    /\ page # Nobody /\ ~pageBusy /\ tokens # Nobody
    /\ Place("load", tokens) /\ pageBusy' = TRUE
    /\ UNCHANGED <<page, stored, tokens, late>>

\* refreshProfile and saveProfile of AdminProfilePanel.
AskProfile ==
    /\ page # Nobody
    /\ Place("profile", tokens)
    /\ UNCHANGED <<page, stored, tokens, pageBusy, late>>

\* The user that comes back is shown and stored, whoever is signed in by now.
UserAnswered(c) ==
    /\ call[c].do \in {"load", "profile"} /\ ~call[c].renewing /\ call[c].as # Nobody
    /\ page' = call[c].as /\ stored' = call[c].as
    /\ call' = [call EXCEPT ![c] = Silence]
    /\ pageBusy' = (pageBusy /\ page # Nobody /\ call[c].do = "profile")
    /\ UNCHANGED <<tokens, late>>

CallFailed(c) ==
    /\ call[c].do # "idle" /\ ~call[c].renewing
    /\ Hang(c)
    /\ UNCHANGED <<page, stored, tokens, late>>

\* On a 401 the tokens stored by then are refreshed; without any, the storage
\* is cleared.  The requests of one loadAll may each come to this.
Unauthorized(c) ==
    /\ call[c].do \in {"load", "profile"} /\ ~call[c].renewing
    /\ IF tokens = Nobody THEN stored' = Nobody /\ Hang(c)
       ELSE /\ call' = [call EXCEPT ![c].as = tokens, ![c].renewing = TRUE]
            /\ UNCHANGED <<stored, pageBusy>>
    /\ UNCHANGED <<page, tokens, late>>

Renewed(c) ==
    /\ call[c].renewing
    /\ tokens' = call[c].as /\ stored' = call[c].as
    /\ call' = [call EXCEPT ![c].renewing = FALSE]
    /\ UNCHANGED <<page, pageBusy, late>>

\* A refusal clears the storage; the page goes on showing its user.
RenewRefused(c) ==
    /\ call[c].renewing
    /\ tokens' = Nobody /\ stored' = Nobody
    /\ Hang(c)
    /\ UNCHANGED <<page, late>>

\* Mutant: the storage is left as it is.
LeavePage ==
    /\ page # Nobody
    /\ page' = Nobody /\ pageBusy' = FALSE
    /\ late' = (late \/ Waiting # {})
    /\ UNCHANGED <<stored, tokens, call>>

\* logout, of the page and of the profile panel, tells the server nothing.
Logout ==
    /\ page # Nobody
    /\ page' = Nobody /\ stored' = Nobody /\ tokens' = Nobody
    /\ pageBusy' = FALSE
    /\ late' = (late \/ Waiting # {})
    /\ UNCHANGED call

\* The page is loaded anew from what is stored.
ReloadPage ==
    /\ page' = stored
    /\ pageBusy' = (stored # Nobody /\ tokens # Nobody)
    /\ \E c \in Calls :
          call' = [d \in Calls |-> IF d = c /\ stored # Nobody /\ tokens # Nobody
                                   THEN Carrying("load", tokens) ELSE Silence]
    /\ UNCHANGED <<stored, tokens, late>>

StaffStep ==
    \/ (\E s \in Staff : Login(s)) \/ LoadAll \/ AskProfile \/ Logout \/ ReloadPage
    \/ \E c \in Calls : \/ LoginAccepted(c) \/ UserAnswered(c) \/ CallFailed(c)
                        \/ Unauthorized(c) \/ Renewed(c) \/ RenewRefused(c)
================================================================================
