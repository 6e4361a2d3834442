------------------------------- MODULE Sessions -------------------------------
(***************************************************************************)
(* The sign-in session of one device: the refresh sessions on the server,  *)
(* the tokens in the device's storage, what the screen believes, and the   *)
(* API calls in flight between them (http.ts).  A token stands for the     *)
(* access and refresh token issued together.  Calls overlap; an answer may *)
(* be late or lost, and the page may be reloaded at any moment.            *)
(***************************************************************************)
EXTENDS Integers

CONSTANTS Users, NoUser, Calls,
          MaxToken      \* bound: tokens the server issues

ASSUME SessionsAssumption ==
    NoUser \notin Users /\ MaxToken \in Nat \ {0}

VARIABLES
    shell,      \* which shell runs: AuthContext.tsx or SessionProvider.tsx
    issued,     \* tokens 1 .. issued exist
    session,    \* status of the RefreshSession row of each token
    owner,      \* the user a token was issued to
    stored,     \* tokenStorage: the token pair and the user kept beside it
    shown,      \* the user the screen takes for signed in
    loading,    \* AuthContext isLoading, SessionProvider status "loading"
    call,       \* the API calls in flight
    stranded,   \* history: the answer that told of its revocation was lost
    outlived    \* history: a call was in flight across a sign-in or sign-out

vars == <<shell, issued, session, owner, stored, shown,
          loading, call, stranded, outlived>>
server == <<issued, session, owner>>
client == <<stored, shown, loading, outlived>>

Token   == 1 .. MaxToken
NoToken == 0
Kind    == {"work", "me", "logout", "login"}
AtServer == {"request", "refresh", "rotating"}
Answered == {"ok", "unauthorized", "rotated", "refused", "failed"}

Empty  == [token |-> NoToken, user |-> NoUser]
NoCall == [kind |-> "none", pc |-> "idle", token |-> NoToken, body |-> NoToken,
           refresh |-> NoToken, user |-> NoUser, retried |-> FALSE,
           gone |-> FALSE]

Store == [token : Token \cup {NoToken}, user : Users \cup {NoUser}]
Call  == [kind : Kind \cup {"none"}, pc : {"idle"} \cup AtServer \cup Answered,
          token : Token \cup {NoToken}, body : Token \cup {NoToken},
          refresh : Token \cup {NoToken}, user : Users \cup {NoUser},
          retried : BOOLEAN, gone : BOOLEAN]

\* A first start: nobody is signed in.
FreshStart ==
    /\ issued = 0
    /\ session = [t \in Token |-> "free"]
    /\ owner = [t \in Token |-> NoUser]
    /\ stored = Empty /\ shown = NoUser /\ loading = FALSE
    /\ call = [c \in Calls |-> NoCall]

\* The page is loaded again over a stored session, while the server may still
\* be working on a refresh or a sign-out of the page that is gone.  AuthContext
\* shows the stored user meanwhile, SessionProvider shows nobody.
Reload ==
    /\ issued = 1
    /\ session = [t \in Token |-> IF t = 1 THEN "live" ELSE "free"]
    /\ loading = TRUE
    /\ \E u \in Users, c \in Calls :
          /\ owner = [t \in Token |-> IF t = 1 THEN u ELSE NoUser]
          /\ stored = [token |-> 1, user |-> u]
          /\ shown = IF shell = "context" THEN u ELSE NoUser
          /\ \E old \in {NoCall,
                         [NoCall EXCEPT !.kind = "work", !.pc = "rotating",
                                        !.refresh = 1, !.gone = TRUE],
                         [NoCall EXCEPT !.kind = "logout", !.pc = "request",
                                        !.token = 1, !.body = 1, !.gone = TRUE]} :
                call = [d \in Calls |->
                          IF d = c THEN [NoCall EXCEPT !.kind = "me", !.pc = "request",
                                                       !.token = 1]
                          ELSE old]

Init ==
    /\ shell \in {"context", "provider"}
    /\ stranded = FALSE /\ outlived = FALSE
    /\ FreshStart \/ Reload

\* The session a call revoked, as long as its client has not heard of it.
Committed(c) ==
    CASE call[c].pc = "rotated" -> {call[c].refresh}
      [] call[c].pc = "ok" /\ call[c].kind = "logout" -> {call[c].body} \ {NoToken}
      [] OTHER -> {}

---------------------------------------------------------------------------
(* Starting a call: apiRequest reads the access token, logout first reads  *)
(* the refresh token it will put in the body.                              *)

Send(c, kind, u) ==
    /\ call[c].pc = "idle"
    /\ call' = [call EXCEPT ![c] =
           [NoCall EXCEPT !.kind = kind, !.pc = "request", !.user = u,
                          !.token = IF kind = "login" THEN NoToken ELSE stored.token,
                          !.body = IF kind = "logout" THEN stored.token ELSE NoToken]]

StartWork(c) ==
    /\ shown # NoUser /\ ~loading
    /\ Send(c, "work", NoUser)
    /\ UNCHANGED <<shell, server, client, stranded>>

StartLogout(c) ==
    /\ shown # NoUser /\ ~loading
    /\ Send(c, "logout", NoUser)
    /\ UNCHANGED <<shell, server, client, stranded>>

StartLogin(c, u) ==
    /\ shown = NoUser /\ ~loading
    /\ \A d \in Calls : call[d].kind # "login"
    /\ Send(c, "login", u)
    /\ UNCHANGED <<shell, server, client, stranded>>

OthersPending(c) == \E d \in Calls \ {c} : call[d].pc # "idle" /\ ~call[d].gone

\* refreshMe after a change of the profile: with no token it signs out at once.
StartRefreshMe(c) ==
    /\ shell = "context" /\ shown # NoUser /\ ~loading
    /\ IF stored.token # NoToken
       THEN Send(c, "me", NoUser) /\ UNCHANGED client
       ELSE /\ call[c].pc = "idle"
            /\ stored' = Empty /\ shown' = NoUser
            /\ outlived' = (outlived \/ OthersPending(c))
            /\ UNCHANGED <<call, loading>>
    /\ UNCHANGED <<shell, server, stranded>>

---------------------------------------------------------------------------
(* The server.                                                             *)

IssueFor(u) ==
    /\ issued < MaxToken
    /\ issued' = issued + 1
    /\ session' = [session EXCEPT ![issued + 1] = "live"]
    /\ owner' = [owner EXCEPT ![issued + 1] = u]

\* What remains of a call once it is answered.  The result of a screen's own
\* work is that screen's business: here it ends as soon as it is answered.
Reply(c, pc, t, u) ==
    call' = [call EXCEPT ![c] =
               IF call[c].kind = "work" /\ pc # "refused" THEN NoCall
               ELSE [NoCall EXCEPT !.kind = call[c].kind, !.pc = pc, !.token = t,
                                   !.user = u, !.gone = call[c].gone]]

Reply401(c) ==
    call' = [call EXCEPT ![c].pc = "unauthorized", ![c].token = NoToken]

\* Only the access token is looked at: it stays good after its session ended,
\* until it expires.  Whether it has expired by now is left open.
Verdicts(t) == IF t = NoToken THEN {FALSE} ELSE BOOLEAN

ServeLogin(c) ==
    /\ call[c].pc = "request" /\ call[c].kind = "login"
    /\ IssueFor(call[c].user)
    /\ Reply(c, "ok", issued + 1, call[c].user)
    /\ UNCHANGED <<shell, client, stranded>>

ServeRequest(c) ==
    /\ call[c].pc = "request" /\ call[c].kind \in {"work", "me"}
    /\ \E authorized \in Verdicts(call[c].token) :
          IF authorized
          THEN Reply(c, "ok", NoToken,
                     IF call[c].kind = "me" THEN owner[call[c].token] ELSE NoUser)
          ELSE Reply401(c)
    /\ UNCHANGED <<shell, server, client, stranded>>

\* The session in the body is revoked, whichever access token was sent with it.
ServeLogout(c) ==
    /\ call[c].pc = "request" /\ call[c].kind = "logout"
    /\ \E authorized \in Verdicts(call[c].token) :
          IF authorized
          THEN /\ call' = [call EXCEPT ![c].pc = "ok", ![c].token = NoToken]
               /\ session' = [t \in Token |->
                                IF t = call[c].body THEN "revoked" ELSE session[t]]
          ELSE /\ Reply401(c)
               /\ UNCHANGED session
    /\ UNCHANGED <<shell, issued, owner, client, stranded>>

\* refresh_tokens reads is_revoked without a lock, and commits later.
ReadSession(c) ==
    /\ call[c].pc = "refresh"
    /\ IF session[call[c].refresh] = "live"
       THEN call' = [call EXCEPT ![c].pc = "rotating"]
       ELSE Reply(c, "refused", NoToken, NoUser)
    /\ UNCHANGED <<shell, server, client, stranded>>

Rotate(c) ==
    /\ call[c].pc = "rotating"
    /\ issued < MaxToken
    /\ issued' = issued + 1
    /\ session' = [session EXCEPT ![call[c].refresh] = "revoked",
                                  ![issued + 1] = "live"]
    /\ owner' = [owner EXCEPT ![issued + 1] = owner[call[c].refresh]]
    /\ call' = [call EXCEPT ![c].pc = "rotated", ![c].token = issued + 1]
    /\ UNCHANGED <<shell, client, stranded>>

\* A 5xx or a 403, with nothing committed: apiRequest throws, a refresh is refused.
ServerError(c) ==
    /\ call[c].pc \in AtServer
    /\ Reply(c, IF call[c].pc = "request" THEN "failed" ELSE "refused", NoToken, NoUser)
    /\ UNCHANGED <<shell, server, client, stranded>>

\* fetch rejects: the request was lost, or the answer was.
Lose(c) ==
    /\ call[c].pc \in AtServer \cup Answered
    /\ call[c].pc # "failed"
    /\ Reply(c, "failed", NoToken, NoUser)
    /\ stranded' = (stranded \/ stored.token \in Committed(c))
    /\ UNCHANGED <<shell, server, client>>

---------------------------------------------------------------------------
(* What the client does with an answer, up to its next request.            *)

Heard(c) == ~call[c].gone

\* What the caller of apiRequest leaves in the storage: refreshMe,
\* loginWithOtp and logout write it, a screen's own work does not.
SignsOut(c, ok) ==
    call[c].kind = "logout" \/ (call[c].kind = "me" /\ ~ok /\ shell = "context")

\* Mutant: signing in keeps the user stored before.
StoredWithoutUser(c, ok, store) ==
    CASE SignsOut(c, ok) -> Empty
      [] call[c].kind = "login" /\ ok -> [store EXCEPT !.token = call[c].token]
      [] OTHER -> store

StoredAfter(c, ok, store) ==
    CASE SignsOut(c, ok) -> Empty
      [] call[c].kind = "me" /\ ok /\ shell = "context" ->
            [store EXCEPT !.user = call[c].user]
      [] call[c].kind = "login" /\ ok ->
            [token |-> call[c].token, user |-> call[c].user]
      [] OTHER -> store

\* Mutant: setIsLoading(false) comes after the answer, not in finally.
LoadingAfterSuccess(c, ok) == loading /\ ~(call[c].kind = "me" /\ ok)

\* setIsLoading(false) comes in finally: also when the user is not to be had.
LoadingAfter(c, ok) == loading /\ call[c].kind # "me"

ShownAfter(c, ok) ==
    CASE call[c].kind = "login" /\ ok -> call[c].user
      [] call[c].kind = "me" /\ ok ->
            IF stored'.token = NoToken /\ shell = "context" THEN NoUser ELSE call[c].user
      [] call[c].kind = "logout" \/ (call[c].kind = "me" /\ ~ok) -> NoUser
      [] OTHER -> shown

Settle(c, ok, store) ==
    /\ stored' = StoredAfter(c, ok, store)
    /\ shown' = ShownAfter(c, ok)
    /\ loading' = LoadingAfter(c, ok)
    /\ outlived' = \/ outlived
                    \/ /\ OthersPending(c)
                       /\ stored'.token = NoToken \/ (call[c].kind = "login" /\ ok)
    /\ call' = [call EXCEPT ![c] = NoCall]
    /\ stranded' = (stranded /\ stored'.token = stored.token)

OnSuccess(c) ==
    /\ call[c].pc = "ok" /\ Heard(c)
    /\ Settle(c, TRUE, stored)
    /\ UNCHANGED <<shell, server>>

\* A failed fetch, or a status apiRequest turns into an exception.
OnFailure(c) ==
    /\ \/ call[c].pc = "failed"
       \/ call[c].pc = "unauthorized" /\ call[c].retried
    /\ Heard(c)
    /\ Settle(c, FALSE, stored)
    /\ UNCHANGED <<shell, server>>

\* Mutant: the request is sent again as it was, and again.
RepeatUnauthorized(c) ==
    /\ call[c].pc = "unauthorized" /\ ~call[c].retried /\ Heard(c)
    /\ call' = [call EXCEPT ![c].pc = "request", ![c].token = stored.token]
    /\ UNCHANGED <<shell, server, client, stranded>>

\* The first 401 of a call: refresh with the token stored now.
OnUnauthorized(c) ==
    /\ call[c].pc = "unauthorized" /\ ~call[c].retried /\ Heard(c)
    /\ IF stored.token = NoToken
       THEN Settle(c, FALSE, Empty)
       ELSE /\ call' = [call EXCEPT ![c].pc = "refresh", ![c].refresh = stored.token]
            /\ UNCHANGED <<client, stranded>>
    /\ UNCHANGED <<shell, server>>

\* refreshAccessToken clears the storage, whatever it holds by now.
OnRefused(c) ==
    /\ call[c].pc = "refused" /\ Heard(c)
    /\ Settle(c, FALSE, Empty)
    /\ UNCHANGED <<shell, server>>

\* Mutant: the rotated pair is used once, and the old one kept.
RetryUnsaved(c) ==
    /\ call[c].pc = "rotated" /\ Heard(c)
    /\ call' = [call EXCEPT ![c].pc = "request", ![c].retried = TRUE,
                            ![c].refresh = NoToken]
    /\ UNCHANGED <<shell, server, client, stranded>>

\* The new pair is saved and the request is sent again, body and all.
OnRotated(c) ==
    /\ call[c].pc = "rotated" /\ Heard(c)
    /\ stored' = [token |-> call[c].token, user |-> owner[call[c].token]]
    /\ call' = [call EXCEPT ![c].pc = "request", ![c].retried = TRUE,
                            ![c].refresh = NoToken]
    /\ stranded' = FALSE
    /\ UNCHANGED <<shell, server, shown, loading, outlived>>

\* An answer to a page that is gone.
Vanish(c) ==
    /\ call[c].pc \in Answered /\ call[c].gone
    /\ call' = [call EXCEPT ![c] = NoCall]
    /\ stranded' = (stranded \/ stored.token \in Committed(c))
    /\ UNCHANGED <<shell, server, client>>

---------------------------------------------------------------------------

UserStep(c) ==
    \/ StartWork(c) \/ StartLogout(c) \/ StartRefreshMe(c)
    \/ \E u \in Users : StartLogin(c, u)

ServerStep(c) ==
    \/ ServeLogin(c) \/ ServeRequest(c) \/ ServeLogout(c)
    \/ ReadSession(c) \/ Rotate(c) \/ ServerError(c)

ClientStep(c) ==
    \/ OnSuccess(c) \/ OnFailure(c) \/ OnUnauthorized(c)
    \/ OnRefused(c) \/ OnRotated(c) \/ Vanish(c)

Next == \E c \in Calls : UserStep(c) \/ ServerStep(c) \/ Lose(c) \/ ClientStep(c)

Spec == Init /\ [][Next]_vars

\* A request is answered or fails, and the script runs on; users owe nothing.
Fairness ==
    \A c \in Calls : WF_vars(ServerStep(c) \/ Lose(c) \/ ClientStep(c))

FairSpec == Spec /\ Fairness

---------------------------------------------------------------------------

TypeOK ==
    /\ shell \in {"context", "provider"}
    /\ issued \in 0 .. MaxToken
    /\ session \in [Token -> {"free", "live", "revoked"}]
    /\ owner \in [Token -> Users \cup {NoUser}]
    /\ stranded \in BOOLEAN
    /\ stored \in Store /\ shown \in Users \cup {NoUser}
    /\ loading \in BOOLEAN /\ outlived \in BOOLEAN
    /\ call \in [Calls -> Call]

\* The pair in the storage is one the server will still exchange, unless the
\* answer that replaced it is on its way to this page or was lost: overlapping
\* refreshes may sign a user out, but never leave him with a dead session.
StoredTokenIsUsable ==
    stored.token # NoToken /\ session[stored.token] = "revoked" =>
        \/ stranded
        \/ \E c \in Calls : stored.token \in Committed(c)

\* Who the screen says is signed in is whose tokens requests carry, as long as
\* no call was in flight across a sign-in or a sign-out.
ScreenMatchesTokens ==
    ~outlived /\ shown # NoUser /\ ~loading /\ stored.token # NoToken =>
        owner[stored.token] = shown /\ stored.user = shown

\* The start screen goes away, whatever becomes of the request it waits for.
StartCompletes == loading ~> ~loading

\* Every call ends: a request is repeated once at most, however its answers go.
CallsSettle == \A c \in Calls : (call[c].pc # "idle") ~> (call[c].pc = "idle")

\* A sign-out the server has confirmed leaves no session of that sign-in open.
LogoutEndsTheSession ==
    [][\A c \in Calls :
         call[c].kind = "logout" /\ call[c].pc = "ok" /\ ~stranded
           /\ call'[c].pc = "idle" =>
             \A t \in Token : t > call[c].body /\ owner[t] = shown => session[t] # "live"]_vars
=============================================================================
