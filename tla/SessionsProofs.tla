---------------------------- MODULE SessionsProofs ----------------------------
(***************************************************************************)
(* Theorems about Sessions, for any users, any number of overlapping calls *)
(* and any number of tokens.                                               *)
(***************************************************************************)
EXTENDS Sessions, TLAPS

\* The calls whose answer carries a token nobody has heard of yet.
Bears(c) ==
    \/ call[c].pc = "rotated"
    \/ call[c].pc = "ok" /\ call[c].kind = "login"

\* What the steps of a call find in it.
CallsTyped ==
    \A c \in Calls :
        /\ call[c].pc \in {"refresh", "rotating", "rotated"} => call[c].refresh \in Token
        /\ Bears(c) => call[c].token \in Token

TypeInv == TypeOK /\ CallsTyped

\* Storage and calls name tokens that were issued.
Issued ==
    /\ stored.token <= issued
    /\ \A c \in Calls : call[c].refresh <= issued /\ call[c].body <= issued

\* A token on its way to the client is live and is named nowhere else.
Unheard ==
    \A c \in Calls : Bears(c) =>
        /\ call[c].token <= issued
        /\ session[call[c].token] = "live"
        /\ stored.token # call[c].token
        /\ \A d \in Calls :
              /\ call[d].refresh # call[c].token /\ call[d].body # call[c].token
              /\ d # c /\ Bears(d) => call[d].token # call[c].token

SessionInv == TypeInv /\ Issued /\ Unheard /\ StoredTokenIsUsable

---------------------------------------------------------------------------
(* How a step changes a call *)

\* Only call c changes.
Changed(c) ==
    /\ call' \in [Calls -> Call]
    /\ \A d \in Calls \ {c} : call'[d] = call[d]

LEMMA NoCallTyped == NoCall \in Call /\ NoCall.pc = "idle" /\ NoCall.kind = "none"
                     /\ NoCall.refresh = NoToken /\ NoCall.body = NoToken
  BY DEF NoCall, Call, Token, NoToken

LEMMA Sent ==
    ASSUME TypeOK, NEW c \in Calls, NEW kind \in Kind, NEW u \in Users \cup {NoUser},
           Send(c, kind, u)
    PROVE  /\ Changed(c) /\ call[c].pc = "idle"
           /\ call'[c].pc = "request" /\ call'[c].refresh = NoToken
           /\ call'[c].body \in {NoToken, stored.token}
  BY NoCallTyped DEF Send, Changed, TypeOK, Store, Call, AtServer

LEMMA Replied ==
    ASSUME TypeOK, NEW c \in Calls, NEW pc \in Answered, NEW t \in Token \cup {NoToken},
           NEW u \in Users \cup {NoUser}, Reply(c, pc, t, u)
    PROVE  /\ Changed(c)
           /\ call'[c].refresh = NoToken /\ call'[c].body = NoToken
           /\ \/ call'[c].pc = "idle"
              \/ call'[c].pc = pc /\ call'[c].kind = call[c].kind /\ call'[c].token = t
  BY NoCallTyped DEF Reply, Changed, TypeOK, Call, Answered

LEMMA Dropped ==
    ASSUME TypeOK, NEW c \in Calls, call' = [call EXCEPT ![c] = NoCall]
    PROVE  /\ Changed(c) /\ call'[c].pc = "idle"
           /\ call'[c].refresh = NoToken /\ call'[c].body = NoToken
  BY NoCallTyped DEF Changed, TypeOK

---------------------------------------------------------------------------
(* Types *)

LEMMA InitTyped == Init => TypeInv
<1> SUFFICES ASSUME Init PROVE TypeInv
    OBVIOUS
<1>1. 0 \in 0 .. MaxToken /\ 1 \in 0 .. MaxToken /\ 1 \in Token
    BY SessionsAssumption DEF Token
<1>2. shell \in {"context", "provider"} /\ stranded \in BOOLEAN /\ outlived \in BOOLEAN
    BY DEF Init
<1>3. CASE FreshStart
  <2>1. stored \in Store
    BY <1>3 DEF FreshStart, Empty, Store
  <2> QED BY <1>1, <1>2, <1>3, <2>1, NoCallTyped DEF FreshStart, TypeInv, TypeOK, CallsTyped, Bears
<1>4. CASE Reload
  <2>1. stored \in Store
    BY <1>1, <1>4 DEF Reload, Store
  <2>2. PICK u \in Users, c \in Calls,
             old \in {NoCall,
                     [NoCall EXCEPT !.kind = "work", !.pc = "rotating",
                                    !.refresh = 1, !.gone = TRUE],
                     [NoCall EXCEPT !.kind = "logout", !.pc = "request",
                                    !.token = 1, !.body = 1, !.gone = TRUE]} :
               /\ owner = [t \in Token |-> IF t = 1 THEN u ELSE NoUser]
               /\ shown = IF shell = "context" THEN u ELSE NoUser
               /\ call = [d \in Calls |->
                           IF d = c THEN [NoCall EXCEPT !.kind = "me", !.pc = "request",
                                                        !.token = 1]
                           ELSE old]
    BY <1>4 DEF Reload
  <2>3. /\ old \in Call /\ ~(old.pc \in {"ok", "refresh", "rotated"})
        /\ old.pc = "rotating" => old.refresh = 1
    BY <1>1, <2>2, NoCallTyped DEF Call, Kind, AtServer
  <2>4. LET k == [NoCall EXCEPT !.kind = "me", !.pc = "request", !.token = 1]
        IN  k \in Call /\ k.pc = "request"
    BY <1>1, NoCallTyped DEF Call, Kind, AtServer
  <2>5. CallsTyped /\ call \in [Calls -> Call]
    BY <1>1, <2>2, <2>3, <2>4 DEF CallsTyped, Bears
  <2> QED BY <1>1, <1>2, <1>4, <2>1, <2>2, <2>5 DEF Reload, TypeInv, TypeOK
<1> QED BY <1>3, <1>4 DEF Init

\* A step that leaves one call well typed leaves all of them so.
LEMMA CallsStayTyped ==
    ASSUME TypeInv, NEW c \in Calls, Changed(c),
           call'[c].pc \in {"refresh", "rotating", "rotated"} => call'[c].refresh \in Token,
           Bears(c)' => call'[c].token \in Token
    PROVE  call' \in [Calls -> Call] /\ CallsTyped'
  BY DEF TypeInv, CallsTyped, Changed, Bears

LEMMA UserStepTyped == ASSUME TypeInv, NEW c \in Calls, UserStep(c) PROVE TypeInv'
<1> USE DEF TypeInv
<1>1. ASSUME NEW kind \in Kind, NEW u \in Users \cup {NoUser}, Send(c, kind, u),
             UNCHANGED <<shell, server, client, stranded>>
      PROVE  TypeInv'
  <2>1. call' \in [Calls -> Call] /\ CallsTyped'
    BY <1>1, Sent, CallsStayTyped DEF Bears
  <2> QED BY <1>1, <2>1 DEF TypeOK, server, client
<1>2. CASE StartRefreshMe(c) /\ stored.token = NoToken
    BY <1>2 DEF StartRefreshMe, server, TypeOK, Empty, Store, CallsTyped, Bears
<1> QED BY <1>1, <1>2 DEF UserStep, StartWork, StartLogout, StartLogin, StartRefreshMe, Kind

LEMMA ServerStepTyped == ASSUME TypeInv, NEW c \in Calls, ServerStep(c) PROVE TypeInv'
<1> USE DEF TypeInv
<1>1. CASE ServeLogin(c)
  <2>1. issued + 1 \in Token /\ call[c].user \in Users \cup {NoUser}
    BY <1>1, SessionsAssumption DEF ServeLogin, IssueFor, TypeOK, Token, Call
  <2>2. call' \in [Calls -> Call] /\ CallsTyped'
    BY <1>1, <2>1, Replied, CallsStayTyped DEF ServeLogin, Answered, Bears
  <2> QED BY <1>1, <2>1, <2>2 DEF ServeLogin, IssueFor, client, TypeOK, Token
<1>2. CASE ServeRequest(c)
  <2>1. PICK authorized \in Verdicts(call[c].token) :
            IF authorized
            THEN Reply(c, "ok", NoToken,
                       IF call[c].kind = "me" THEN owner[call[c].token] ELSE NoUser)
            ELSE Reply401(c)
    BY <1>2 DEF ServeRequest
  <2>2. CASE authorized
    <3>1. call[c].token \in Token
      BY <2>2 DEF Verdicts, TypeOK, Call
    <3>2. (IF call[c].kind = "me" THEN owner[call[c].token] ELSE NoUser) \in Users \cup {NoUser}
      BY <3>1 DEF TypeOK
    <3>3. call[c].kind # "login"
      BY <1>2 DEF ServeRequest
    <3> QED BY <2>1, <2>2, <3>2, <3>3, Replied, CallsStayTyped, <1>2
            DEF ServeRequest, Answered, Bears, TypeOK, server, client
  <2>3. CASE ~authorized
    <3>1. Changed(c) /\ call'[c].pc = "unauthorized"
      BY <2>1, <2>3 DEF Reply401, Changed, TypeOK, Call, Answered
    <3> QED BY <3>1, CallsStayTyped, <1>2 DEF ServeRequest, Bears, TypeOK, server, client
  <2> QED BY <2>2, <2>3
<1>3. CASE ServeLogout(c)
  <2>1. /\ Changed(c) /\ call'[c].pc \in {"ok", "unauthorized"}
        /\ call'[c].kind = "logout"
    BY <1>3 DEF ServeLogout, Reply401, Changed, TypeOK, Call, Answered
  <2>2. session' \in [Token -> {"free", "live", "revoked"}]
    BY <1>3 DEF ServeLogout, TypeOK
  <2> QED BY <2>1, <2>2, CallsStayTyped, <1>3 DEF ServeLogout, Bears, TypeOK, client
<1>4. CASE ReadSession(c)
  <2>1. CASE session[call[c].refresh] = "live"
    <3>1. Changed(c) /\ call'[c].pc = "rotating" /\ call'[c].refresh = call[c].refresh
      BY <1>4, <2>1 DEF ReadSession, Changed, TypeOK, Call, AtServer
    <3>2. call[c].refresh \in Token
      BY <1>4 DEF ReadSession, CallsTyped
    <3> QED BY <3>1, <3>2, CallsStayTyped, <1>4 DEF ReadSession, Bears, TypeOK, server, client
  <2>2. CASE session[call[c].refresh] # "live"
    BY <1>4, <2>2, Replied, CallsStayTyped DEF ReadSession, Answered, Bears, TypeOK, server, client
  <2> QED BY <2>1, <2>2
<1>5. CASE Rotate(c)
  <2>1. issued + 1 \in Token /\ call[c].refresh \in Token
    BY <1>5, SessionsAssumption DEF Rotate, TypeOK, Token, CallsTyped
  <2>2. /\ Changed(c) /\ call'[c].refresh = call[c].refresh
        /\ call'[c].token = issued + 1
    <3>1. /\ call[c] \in Call /\ call' = [call EXCEPT ![c] = call'[c]]
          /\ call'[c] = [[call[c] EXCEPT !.pc = "rotated"] EXCEPT !.token = issued + 1]
      BY <1>5 DEF Rotate, TypeOK
    <3>2. /\ call'[c] \in Call /\ call'[c].refresh = call[c].refresh
          /\ call'[c].token = issued + 1
      BY <2>1, <3>1 DEF Call, Answered
    <3> QED BY <3>1, <3>2 DEF Changed, TypeOK
  <2>3. call' \in [Calls -> Call] /\ CallsTyped'
    BY <2>1, <2>2, CallsStayTyped
  <2> QED BY <1>5, <2>1, <2>3 DEF Rotate, client, TypeOK, Token
<1>6. CASE ServerError(c)
    BY <1>6, Replied, CallsStayTyped DEF ServerError, Answered, Bears, TypeOK, server, client
<1> QED BY <1>1, <1>2, <1>3, <1>4, <1>5, <1>6 DEF ServerStep

LEMMA SettledTyped ==
    ASSUME TypeInv, NEW c \in Calls, NEW ok \in BOOLEAN, NEW store \in Store,
           Settle(c, ok, store), ok => call[c].pc = "ok", UNCHANGED <<shell, server>>
    PROVE  TypeInv'
<1>1. call' \in [Calls -> Call] /\ CallsTyped'
    BY Dropped, CallsStayTyped DEF Settle, TypeInv, Bears
<1>2. call[c].user \in Users \cup {NoUser}
    BY DEF TypeInv, TypeOK, Call
<1>3. stored' \in Store
  <2>1. call[c].kind = "login" /\ ok => call[c].token \in Token
    BY DEF TypeInv, CallsTyped, Bears
  <2> QED BY <1>2, <2>1 DEF Settle, StoredAfter, Store, Empty
<1>4. shown' \in Users \cup {NoUser}
    BY <1>2 DEF Settle, ShownAfter, TypeInv, TypeOK
<1>5. loading' \in BOOLEAN /\ outlived' \in BOOLEAN /\ stranded' \in BOOLEAN
    BY DEF Settle, LoadingAfter, TypeInv, TypeOK
<1> QED BY <1>1, <1>3, <1>4, <1>5 DEF TypeInv, TypeOK, server

LEMMA ClientStepTyped == ASSUME TypeInv, NEW c \in Calls, ClientStep(c) PROVE TypeInv'
<1>1. Empty \in Store /\ stored \in Store
    BY DEF TypeInv, TypeOK, Empty, Store
<1>2. CASE OnSuccess(c)
    BY <1>1, <1>2, SettledTyped DEF OnSuccess
<1>3. CASE OnFailure(c)
    BY <1>1, <1>3, SettledTyped DEF OnFailure
<1>4. CASE OnUnauthorized(c)
  <2>1. CASE stored.token = NoToken
    BY <1>1, <1>4, <2>1, SettledTyped DEF OnUnauthorized
  <2>2. CASE stored.token # NoToken
    <3>1. stored.token \in Token
      BY <1>1, <2>2 DEF Store
    <3>2. /\ Changed(c) /\ call'[c].pc = "refresh"
          /\ call'[c].refresh = stored.token
      BY <1>4, <2>2, <3>1 DEF OnUnauthorized, Changed, TypeInv, TypeOK, Call, AtServer
    <3>3. call' \in [Calls -> Call] /\ CallsTyped'
      BY <3>1, <3>2, CallsStayTyped DEF Bears
    <3> QED BY <1>4, <2>2, <3>3 DEF OnUnauthorized, TypeInv, TypeOK, server, client
  <2> QED BY <2>1, <2>2
<1>5. CASE OnRefused(c)
    BY <1>1, <1>5, SettledTyped DEF OnRefused
<1>6. CASE OnRotated(c)
  <2>1. call[c].token \in Token
    BY <1>6 DEF OnRotated, TypeInv, CallsTyped, Bears
  <2>2. Changed(c) /\ call'[c].pc = "request"
    <3>1. call' = [call EXCEPT ![c] = [call[c] EXCEPT !.pc = "request", !.retried = TRUE,
                                                      !.refresh = NoToken]]
      BY <1>6 DEF OnRotated, TypeInv, TypeOK
    <3>2. LET k == [call[c] EXCEPT !.pc = "request", !.retried = TRUE, !.refresh = NoToken]
          IN  k \in Call /\ k.pc = "request"
      BY DEF TypeInv, TypeOK, Call, AtServer
    <3> QED BY <3>1, <3>2 DEF Changed, TypeInv, TypeOK
  <2>3. call' \in [Calls -> Call] /\ CallsTyped'
    BY <2>2, CallsStayTyped DEF Bears
  <2>4. stored' \in Store
    BY <1>6, <2>1 DEF OnRotated, Store, TypeInv, TypeOK
  <2> QED BY <1>6, <2>3, <2>4 DEF OnRotated, TypeInv, TypeOK, server
<1>7. CASE Vanish(c)
  <2>1. call' \in [Calls -> Call] /\ CallsTyped'
    BY <1>7, Dropped, CallsStayTyped DEF Vanish, TypeInv, Bears
  <2> QED BY <1>7, <2>1 DEF Vanish, TypeInv, TypeOK, server, client
<1> QED BY <1>2, <1>3, <1>4, <1>5, <1>6, <1>7 DEF ClientStep

LEMMA LoseTyped == ASSUME TypeInv, NEW c \in Calls, Lose(c) PROVE TypeInv'
<1>1. call' \in [Calls -> Call] /\ CallsTyped'
    BY Replied, CallsStayTyped DEF Lose, Answered, TypeInv, Bears
<1> QED BY <1>1 DEF Lose, TypeInv, TypeOK, server, client

LEMMA StepTyped == TypeInv /\ [Next]_vars => TypeInv'
<1> SUFFICES ASSUME TypeInv, [Next]_vars PROVE TypeInv'
    OBVIOUS
<1>1. CASE UNCHANGED vars
    BY <1>1 DEF vars, TypeInv, TypeOK, CallsTyped, Bears
<1> QED BY <1>1, UserStepTyped, ServerStepTyped, LoseTyped, ClientStepTyped DEF Next

\* The rows, the storage and the calls keep their types in every interleaving:
\* what a step finds in a call, another step has left there.
THEOREM SessionsTyped == Spec => []TypeOK
<1>1. TypeInv => TypeOK
    BY DEF TypeInv
<1> QED BY InitTyped, StepTyped, <1>1, PTL DEF Spec

---------------------------------------------------------------------------
(* The stored token is usable.  A token becomes the stored one by an answer *)
(* that bears it, so no one else may have revoked it before: nothing names  *)
(* it yet (Unheard), since it was new when it was issued (Issued).          *)

LEMMA InitSession == Init => Issued /\ Unheard /\ StoredTokenIsUsable
<1> SUFFICES ASSUME Init PROVE Issued /\ Unheard /\ StoredTokenIsUsable
    OBVIOUS
<1>1. CASE FreshStart
    BY <1>1, NoCallTyped DEF FreshStart, Empty, NoToken, Issued, Unheard, Bears, StoredTokenIsUsable
<1>2. CASE Reload
  <2>1. PICK c \in Calls,
             old \in {NoCall,
                     [NoCall EXCEPT !.kind = "work", !.pc = "rotating",
                                    !.refresh = 1, !.gone = TRUE],
                     [NoCall EXCEPT !.kind = "logout", !.pc = "request",
                                    !.token = 1, !.body = 1, !.gone = TRUE]} :
               call = [d \in Calls |->
                           IF d = c THEN [NoCall EXCEPT !.kind = "me", !.pc = "request",
                                                        !.token = 1]
                           ELSE old]
    BY <1>2 DEF Reload
  <2>2. old.pc \in {"idle", "request", "rotating"} /\ old.refresh <= 1 /\ old.body <= 1
    <3>1. CASE old = NoCall
      BY <3>1, NoCallTyped DEF NoToken
    <3>2. CASE old = [NoCall EXCEPT !.kind = "work", !.pc = "rotating",
                                    !.refresh = 1, !.gone = TRUE]
      BY <3>2, NoCallTyped DEF Call, NoToken
    <3>3. CASE old = [NoCall EXCEPT !.kind = "logout", !.pc = "request",
                                    !.token = 1, !.body = 1, !.gone = TRUE]
      BY <3>3, NoCallTyped DEF Call, NoToken
    <3> QED BY <2>1, <3>1, <3>2, <3>3
  <2>3. LET k == [NoCall EXCEPT !.kind = "me", !.pc = "request", !.token = 1]
        IN  k.pc = "request" /\ k.refresh = 0 /\ k.body = 0
    BY DEF NoCall, NoToken
  <2>4. \A d \in Calls : /\ call[d].pc \in {"idle", "request", "rotating"}
                          /\ call[d].refresh <= 1 /\ call[d].body <= 1
    BY <2>1, <2>2, <2>3
  <2>5. issued = 1 /\ stored.token = 1 /\ session[1] = "live"
    BY <1>2, SessionsAssumption DEF Reload, Token
  <2> QED BY <2>4, <2>5 DEF Issued, Unheard, Bears, StoredTokenIsUsable
<1> QED BY <1>1, <1>2 DEF Init

\* Nothing is heard of a token, nor is one issued or revoked.
LEMMA QuietStep ==
    ASSUME SessionInv, NEW c \in Calls, Changed(c),
           UNCHANGED <<issued, session, stored>>,
           stranded => stranded', stored.token \in Committed(c) => stranded',
           ~Bears(c)',
           call'[c].refresh \in {NoToken, stored.token, call[c].refresh},
           call'[c].body \in {NoToken, stored.token, call[c].body}
    PROVE  Issued' /\ Unheard' /\ StoredTokenIsUsable'
<1>1. Issued'
    BY DEF SessionInv, TypeInv, TypeOK, Issued, Changed, NoToken
<1>2. Unheard'
    BY DEF SessionInv, TypeInv, CallsTyped, Unheard, Changed, Bears, Token, NoToken
<1>3. \A d \in Calls \ {c} : Committed(d)' = Committed(d)
    BY DEF Changed, Committed
<1> QED BY <1>1, <1>2, <1>3 DEF SessionInv, StoredTokenIsUsable

LEMMA UserStepUsable ==
    ASSUME SessionInv, NEW c \in Calls, UserStep(c)
    PROVE  Issued' /\ Unheard' /\ StoredTokenIsUsable'
<1>1. ASSUME NEW kind \in Kind, NEW u \in Users \cup {NoUser}, Send(c, kind, u),
             UNCHANGED <<shell, server, client, stranded>>
      PROVE  Issued' /\ Unheard' /\ StoredTokenIsUsable'
    BY <1>1, Sent, QuietStep DEF SessionInv, TypeInv, Bears, Committed, server, client
<1>2. CASE StartRefreshMe(c) /\ stored.token = NoToken
    BY <1>2 DEF StartRefreshMe, SessionInv, TypeInv, TypeOK, CallsTyped, server,
                Empty, Issued, Unheard, Bears, StoredTokenIsUsable
<1> QED BY <1>1, <1>2 DEF UserStep, StartWork, StartLogout, StartLogin, StartRefreshMe, Kind

\* A new token: call c bears it, and has revoked what it had been sent for.
LEMMA IssuingStep ==
    ASSUME SessionInv, NEW c \in Calls, Changed(c),
           issued + 1 \in Token, issued' = issued + 1, UNCHANGED <<stored, stranded>>,
           session'[issued + 1] = "live",
           call'[c].token = issued + 1,
           call'[c].refresh \in {NoToken, call[c].refresh},
           call'[c].body \in {NoToken, call[c].body},
           ~Bears(c), Committed(c) = {},
           \A t \in Token : t <= issued =>
               session'[t] = session[t] \/ (t = call[c].refresh /\ t \in Committed(c)')
    PROVE  Issued' /\ Unheard' /\ StoredTokenIsUsable'
<1>1. Issued'
    BY DEF SessionInv, TypeInv, TypeOK, Issued, Changed, Call, Store, Token, NoToken
<1>2. Unheard'
    BY DEF SessionInv, TypeInv, TypeOK, CallsTyped, Issued, Unheard, Changed, Bears,
           Call, Store, Token, NoToken
<1>3. \A d \in Calls \ {c} : Committed(d)' = Committed(d)
    BY DEF Changed, Committed
<1>4. StoredTokenIsUsable'
    BY <1>3 DEF SessionInv, TypeInv, TypeOK, Issued, StoredTokenIsUsable, Store, Token, NoToken
<1> QED BY <1>1, <1>2, <1>4

LEMMA ServerStepUsable ==
    ASSUME SessionInv, NEW c \in Calls, ServerStep(c)
    PROVE  Issued' /\ Unheard' /\ StoredTokenIsUsable'
<1> USE DEF SessionInv, TypeInv
<1>1. CASE ServeLogin(c)
  <2>1. issued + 1 \in Token /\ call[c].user \in Users \cup {NoUser}
    BY <1>1, SessionsAssumption DEF ServeLogin, IssueFor, TypeOK, Token, Call
  <2>2. /\ Changed(c) /\ call'[c].token = issued + 1
        /\ call'[c].refresh = NoToken /\ call'[c].body = NoToken
    BY <1>1, <2>1, NoCallTyped DEF ServeLogin, Reply, Changed, TypeOK, Call, Answered
  <2> QED BY <1>1, <2>1, <2>2, IssuingStep
          DEF ServeLogin, IssueFor, client, TypeOK, Bears, Committed, Token
<1>2. CASE ServeRequest(c)
  <2>1. PICK authorized \in Verdicts(call[c].token) :
            IF authorized
            THEN Reply(c, "ok", NoToken,
                       IF call[c].kind = "me" THEN owner[call[c].token] ELSE NoUser)
            ELSE Reply401(c)
    BY <1>2 DEF ServeRequest
  <2>2. CASE authorized
    <3>1. call[c].token \in Token
      BY <2>2 DEF Verdicts, TypeOK, Call
    <3>2. (IF call[c].kind = "me" THEN owner[call[c].token] ELSE NoUser) \in Users \cup {NoUser}
      BY <3>1 DEF TypeOK
    <3>3. /\ Changed(c) /\ ~Bears(c)' /\ call'[c].refresh = NoToken /\ call'[c].body = NoToken
      BY <1>2, <2>1, <2>2, <3>2, Replied DEF ServeRequest, Answered, Bears
    <3> QED BY <1>2, <3>3, QuietStep DEF ServeRequest, Committed, server, client
  <2>3. CASE ~authorized
    <3>1. /\ Changed(c) /\ call'[c].pc = "unauthorized"
          /\ call'[c].refresh = call[c].refresh /\ call'[c].body = call[c].body
      BY <2>1, <2>3 DEF Reply401, Changed, TypeOK, Call, Answered
    <3> QED BY <1>2, <3>1, QuietStep DEF ServeRequest, Bears, Committed, server, client
  <2> QED BY <2>2, <2>3
<1>3. CASE ServeLogout(c)
  <2>1. /\ Changed(c) /\ call'[c].kind = "logout" /\ ~Bears(c)'
        /\ call'[c].refresh = call[c].refresh /\ call'[c].body = call[c].body
    BY <1>3 DEF ServeLogout, Reply401, Changed, TypeOK, Call, Answered, Bears
  <2>2. CASE UNCHANGED session
    BY <1>3, <2>1, <2>2, QuietStep DEF ServeLogout, Committed, client
  <2>3. CASE /\ call'[c].pc = "ok"
             /\ session' = [t \in Token |-> IF t = call[c].body THEN "revoked" ELSE session[t]]
    <3>1. Issued'
      BY <1>3, <2>1 DEF ServeLogout, Issued, Changed, client
    <3>2. Unheard'
      BY <1>3, <2>1, <2>3 DEF ServeLogout, CallsTyped, Unheard, Bears, Changed, client
    <3>3. \A d \in Calls \ {c} : Committed(d)' = Committed(d)
      BY <2>1 DEF Changed, Committed
    <3>4. Committed(c) = {} /\ Committed(c)' = {call[c].body} \ {NoToken}
      BY <1>3, <2>1, <2>3 DEF ServeLogout, Committed
    <3>5. StoredTokenIsUsable'
      BY <1>3, <2>3, <3>3, <3>4 DEF ServeLogout, StoredTokenIsUsable, TypeOK, Store, client
    <3> QED BY <3>1, <3>2, <3>5
  <2>4. call'[c].pc = "ok" \/ UNCHANGED session
    BY <1>3 DEF ServeLogout, TypeOK, Call, Answered
  <2> QED BY <1>3, <2>2, <2>3, <2>4 DEF ServeLogout
<1>4. CASE ReadSession(c)
  <2>1. CASE session[call[c].refresh] = "live"
    <3>1. /\ Changed(c) /\ call'[c].pc = "rotating"
          /\ call'[c].refresh = call[c].refresh /\ call'[c].body = call[c].body
      BY <1>4, <2>1 DEF ReadSession, Changed, TypeOK, Call, AtServer
    <3> QED BY <1>4, <3>1, QuietStep DEF ReadSession, Bears, Committed, server, client
  <2>2. CASE session[call[c].refresh] # "live"
    BY <1>4, <2>2, Replied, QuietStep DEF ReadSession, Answered, Bears, Committed, server, client
  <2> QED BY <2>1, <2>2
<1>5. CASE Rotate(c)
  <2>1. issued + 1 \in Token /\ call[c].refresh \in Token
    BY <1>5, SessionsAssumption DEF Rotate, TypeOK, Token, CallsTyped
  <2>2. /\ Changed(c) /\ call'[c].pc = "rotated" /\ call'[c].token = issued + 1
        /\ call'[c].refresh = call[c].refresh /\ call'[c].body = call[c].body
    <3>1. /\ call[c] \in Call /\ call' = [call EXCEPT ![c] = call'[c]]
          /\ call'[c] = [[call[c] EXCEPT !.pc = "rotated"] EXCEPT !.token = issued + 1]
      BY <1>5 DEF Rotate, TypeOK
    <3>2. /\ call'[c] \in Call /\ call'[c].refresh = call[c].refresh
          /\ call'[c].token = issued + 1
      BY <2>1, <3>1 DEF Call, Answered
    <3> QED BY <3>1, <3>2 DEF Changed, TypeOK
  <2>3. call[c].refresh <= issued
    BY DEF Issued
  <2>4. ~Bears(c) /\ Committed(c) = {} /\ Committed(c)' = {call[c].refresh}
    BY <1>5, <2>2 DEF Rotate, Bears, Committed
  <2>5. /\ session'[issued + 1] = "live"
        /\ \A t \in Token : t <= issued => session'[t] = session[t] \/ t = call[c].refresh
    BY <1>5, <2>1 DEF Rotate, TypeOK, Token
  <2> QED BY <1>5, <2>1, <2>2, <2>3, <2>4, <2>5, IssuingStep DEF Rotate, client
<1>6. CASE ServerError(c)
    BY <1>6, Replied, QuietStep
       DEF ServerError, AtServer, Answered, Bears, Committed, server, client
<1> QED BY <1>1, <1>2, <1>3, <1>4, <1>5, <1>6 DEF ServerStep

LEMMA LoseUsable ==
    ASSUME SessionInv, NEW c \in Calls, Lose(c)
    PROVE  Issued' /\ Unheard' /\ StoredTokenIsUsable'
  BY Replied, QuietStep DEF Lose, Answered, SessionInv, TypeInv, Bears, server, client

\* Who takes an answer to its end leaves the stored token, drops it, or
\* replaces it by the one the answer bears.
LEMMA SettledUsable ==
    ASSUME SessionInv, NEW c \in Calls, NEW ok \in BOOLEAN, NEW store \in {stored, Empty},
           Settle(c, ok, store), UNCHANGED <<shell, server>>,
           ok => call[c].pc = "ok" /\ store = stored,
           ~ok => Committed(c) = {}
    PROVE  Issued' /\ Unheard' /\ StoredTokenIsUsable'
<1> USE DEF SessionInv, TypeInv
<1>1. /\ Changed(c) /\ ~Bears(c)'
      /\ call'[c].refresh = NoToken /\ call'[c].body = NoToken
    BY Dropped DEF Settle, Bears
<1>2. UNCHANGED session /\ UNCHANGED issued
    BY DEF server
<1>3. CASE stored'.token = NoToken
    BY <1>1, <1>2, <1>3
       DEF Issued, Unheard, StoredTokenIsUsable, TypeOK, CallsTyped, Changed, Bears, Token, NoToken
<1>4. CASE Bears(c) /\ stored'.token = call[c].token
  <2>1. Issued'
    BY <1>1, <1>2, <1>4 DEF Issued, Unheard, TypeOK, Changed, NoToken
  <2>2. Unheard'
    BY <1>1, <1>2, <1>4 DEF Unheard, CallsTyped, Changed, Bears, Token, NoToken
  <2>3. StoredTokenIsUsable'
    BY <1>2, <1>4 DEF Unheard, StoredTokenIsUsable
  <2> QED BY <2>1, <2>2, <2>3
<1>5. CASE stored'.token = stored.token /\ Committed(c) = {}
  <2>1. Issued'
    BY <1>1, <1>2, <1>5 DEF Issued, TypeOK, Changed, NoToken
  <2>2. Unheard'
    BY <1>1, <1>2, <1>5 DEF Unheard, CallsTyped, Changed, Bears, Token, NoToken
  <2>3. \A d \in Calls \ {c} : Committed(d)' = Committed(d)
    BY <1>1 DEF Changed, Committed
  <2>4. StoredTokenIsUsable'
    BY <1>2, <1>5, <2>3 DEF StoredTokenIsUsable, Settle, TypeOK
  <2> QED BY <2>1, <2>2, <2>4
<1>6. \/ stored'.token = NoToken
      \/ Bears(c) /\ stored'.token = call[c].token
      \/ stored'.token = stored.token /\ Committed(c) = {}
  <2>1. CASE SignsOut(c, ok)
    BY <2>1 DEF Settle, StoredAfter, SignsOut, Empty
  <2>2. CASE ~SignsOut(c, ok) /\ call[c].kind = "login" /\ ok
    BY <2>2 DEF Settle, StoredAfter, Bears
  <2>3. CASE ~SignsOut(c, ok) /\ ~(call[c].kind = "login" /\ ok)
    <3>1. call[c].kind # "logout"
      BY <2>3 DEF SignsOut
    <3>2. Committed(c) = {}
      BY <3>1 DEF Committed
    <3>3. stored'.token = store.token
      BY <2>3 DEF Settle, StoredAfter, TypeOK, Store, Empty
    <3> QED BY <3>2, <3>3 DEF Empty
  <2> QED BY <2>1, <2>2, <2>3
<1> QED BY <1>3, <1>4, <1>5, <1>6

LEMMA ClientStepUsable ==
    ASSUME SessionInv, NEW c \in Calls, ClientStep(c)
    PROVE  Issued' /\ Unheard' /\ StoredTokenIsUsable'
<1> USE DEF SessionInv, TypeInv
<1>1. CASE OnSuccess(c)
    BY <1>1, SettledUsable DEF OnSuccess
<1>2. CASE OnFailure(c)
    BY <1>2, SettledUsable DEF OnFailure, Committed
<1>3. CASE OnUnauthorized(c)
  <2>1. CASE stored.token = NoToken
    BY <1>3, <2>1, SettledUsable DEF OnUnauthorized, Committed
  <2>2. CASE stored.token # NoToken
    <3>1. stored.token \in Token
      BY <2>2 DEF TypeOK, Store
    <3>2. /\ Changed(c) /\ call'[c].pc = "refresh"
          /\ call'[c].refresh = stored.token /\ call'[c].body = call[c].body
      <4> DEFINE next == [call[c] EXCEPT !.pc = "refresh", !.refresh = stored.token]
      <4>1. call' = [call EXCEPT ![c] = next]
        BY <1>3, <2>2 DEF OnUnauthorized, TypeOK
      <4>2. call[c] \in Call
        BY DEF TypeOK
      <4>3. /\ next \in Call /\ next.pc = "refresh"
            /\ next.refresh = stored.token /\ next.body = call[c].body
        BY ONLY <3>1, <4>2 DEF Call, AtServer, next
      <4> HIDE DEF next
      <4> QED BY <4>1, <4>3 DEF Changed, TypeOK
    <3>3. call[c].pc = "unauthorized" /\ UNCHANGED <<server, client, stranded>>
      BY <1>3, <2>2 DEF OnUnauthorized
    <3> QED BY <3>2, <3>3, QuietStep DEF Committed, Bears, server, client
  <2> QED BY <2>1, <2>2
<1>4. CASE OnRefused(c)
    BY <1>4, SettledUsable DEF OnRefused, Committed
<1>5. CASE OnRotated(c)
  <2>1. call' = [call EXCEPT ![c] = [call[c] EXCEPT !.pc = "request", !.retried = TRUE,
                                                    !.refresh = NoToken]]
    BY <1>5 DEF OnRotated, TypeOK
  <2>2. LET k == [call[c] EXCEPT !.pc = "request", !.retried = TRUE, !.refresh = NoToken]
        IN  k \in Call /\ k.pc = "request" /\ k.refresh = NoToken /\ k.body = call[c].body
    BY DEF TypeOK, Call, AtServer
  <2>3. /\ Changed(c) /\ ~Bears(c)'
        /\ call'[c].refresh = NoToken /\ call'[c].body = call[c].body
    BY <2>1, <2>2 DEF Changed, TypeOK, Bears
  <2>4. Bears(c) /\ stored'.token = call[c].token /\ UNCHANGED <<issued, session>>
    BY <1>5 DEF OnRotated, Bears, server
  <2>5. Issued'
    BY <2>3, <2>4 DEF Issued, Unheard, TypeOK, Changed, NoToken
  <2>6. Unheard'
    BY <2>3, <2>4 DEF Unheard, CallsTyped, Changed, Bears, Token, NoToken
  <2>7. StoredTokenIsUsable'
    BY <2>4 DEF Unheard, StoredTokenIsUsable
  <2> QED BY <2>5, <2>6, <2>7
<1>6. CASE Vanish(c)
    BY <1>6, Dropped, QuietStep DEF Vanish, Bears, server, client
<1> QED BY <1>1, <1>2, <1>3, <1>4, <1>5, <1>6 DEF ClientStep

LEMMA SessionHolds == Spec => []SessionInv
<1>1. Init => SessionInv
    BY InitTyped, InitSession DEF SessionInv
<1>2. SessionInv /\ [Next]_vars => SessionInv'
  <2> SUFFICES ASSUME SessionInv, [Next]_vars PROVE Issued' /\ Unheard' /\ StoredTokenIsUsable'
    BY StepTyped DEF SessionInv
  <2>1. CASE UNCHANGED vars
    BY <2>1 DEF vars, SessionInv, Issued, Unheard, StoredTokenIsUsable, Bears, Committed
  <2> QED BY <2>1, UserStepUsable, ServerStepUsable, LoseUsable, ClientStepUsable DEF Next
<1> QED BY <1>1, <1>2, PTL DEF Spec

\* Overlapping refreshes, sign-outs, reloads and lost answers never leave a dead
\* token in the storage, but for an answer that is lost or still on its way:
\* for any number of calls at once (refreshAccessToken, refresh_tokens).
THEOREM StoredTokenStaysUsable == Spec => []StoredTokenIsUsable
<1>1. SessionInv => StoredTokenIsUsable
    BY DEF SessionInv
<1> QED BY <1>1, SessionHolds, PTL

---------------------------------------------------------------------------
(* The screen and the tokens.  As long as no call is in flight across a    *)
(* sign-in or a sign-out, the calls of this page carry tokens of the user  *)
(* whose token is stored, and bring news of no one else; a sign-in is in   *)
(* flight alone, with nobody on the screen.                                *)

\* The calls of this page, not of the page before a reload.
Here(c) == call[c].pc # "idle" /\ ~call[c].gone

\* Every token issued belongs to a user, and calls carry no other tokens.
TokensOwned ==
    /\ \A t \in Token : t <= issued => owner[t] \in Users
    /\ \A c \in Calls : call[c].token <= issued

SignInsOwned ==
    \A c \in Calls : call[c].kind = "login" =>
        /\ call[c].pc \in {"request", "ok", "failed"} /\ ~call[c].gone
        /\ call[c].pc # "failed" => call[c].user \in Users
        /\ call[c].pc = "ok" => owner[call[c].token] = call[c].user

\* Tokens of the one user: of call k, with its answer, and of the storage.
OfStored(t) == stored.token # NoToken /\ owner[t] = owner[stored.token]

CarriesStored(k) ==
    /\ k.kind # "login" /\ k.token # NoToken => OfStored(k.token)
    /\ k.refresh # NoToken => OfStored(k.refresh)
    /\ k.kind = "me" /\ k.pc = "ok" => stored.token # NoToken /\ k.user = owner[stored.token]

StoredIsShown ==
    stored.token # NoToken => /\ stored.user = owner[stored.token]
                             /\ shown \in {NoUser, owner[stored.token]}

\* Who may be in flight, by what the screen shows.
InFlightFits ==
    /\ \A c \in Calls : Here(c) =>
          /\ loading => call[c].kind = "me"
          /\ ~loading => (call[c].kind = "login" <=> shown = NoUser)
          /\ shell = "provider" /\ call[c].kind = "me" => loading
    /\ loading \/ shown = NoUser => \A c, d \in Calls : Here(c) /\ Here(d) => c = d

OneUserInv ==
    /\ TokensOwned /\ SignInsOwned
    /\ ~outlived => /\ StoredIsShown /\ InFlightFits
                    /\ \A c \in Calls : Here(c) => CarriesStored(call[c])

LEMMA NoCallHere ==
    /\ NoCall.token = NoToken /\ NoCall.kind # "login" /\ NoCall.pc = "idle" /\ ~NoCall.gone
    /\ NoCall.kind = "none" /\ NoCall.refresh = NoToken /\ NoCall.retried = FALSE
    /\ NoCall.user = NoUser
  BY DEF NoCall

LEMMA ReplyLeaves ==
    ASSUME TypeOK, NEW c \in Calls, NEW pc \in Answered, NEW t \in Token \cup {NoToken},
           NEW u \in Users \cup {NoUser}, Reply(c, pc, t, u)
    PROVE  /\ Changed(c) /\ call'[c].refresh = NoToken
           /\ \/ /\ call'[c].pc = "idle" /\ call'[c].kind = "none" /\ call'[c].token = NoToken
              \/ /\ call'[c].pc = pc /\ call'[c].kind = call[c].kind /\ call'[c].token = t
                 /\ call'[c].user = u /\ call'[c].gone = call[c].gone
<1> DEFINE left == [NoCall EXCEPT !.kind = call[c].kind, !.pc = pc, !.token = t, !.user = u,
                                  !.gone = call[c].gone]
<1>1. /\ left.pc = pc /\ left.kind = call[c].kind /\ left.token = t
      /\ left.user = u /\ left.gone = call[c].gone /\ left.refresh = NoToken
    BY DEF NoCall
<1>2. call[c].kind \in Kind \cup {"none"} /\ call[c].gone \in BOOLEAN
    BY DEF TypeOK, Call
<1>3. left \in Call
    BY <1>2, NoCallTyped DEF Call
<1>4. call' = [call EXCEPT ![c] = IF call[c].kind = "work" /\ pc # "refused" THEN NoCall ELSE left]
    BY DEF Reply
<1> HIDE DEF left
<1> QED BY <1>1, <1>3, <1>4, NoCallTyped, NoCallHere DEF Changed, TypeOK

LEMMA Reply401Leaves ==
    ASSUME TypeOK, NEW c \in Calls, Reply401(c)
    PROVE  /\ Changed(c) /\ call'[c].pc = "unauthorized" /\ call'[c].token = NoToken
           /\ call'[c].refresh = call[c].refresh /\ call'[c].kind = call[c].kind
           /\ call'[c].user = call[c].user /\ call'[c].gone = call[c].gone
<1>1. call[c] \in Call
    BY DEF TypeOK
<1>2. call' = [call EXCEPT ![c] = [[call[c] EXCEPT !.pc = "unauthorized"] EXCEPT !.token = NoToken]]
    BY DEF Reply401, TypeOK
<1>3. \A k : k = [[call[c] EXCEPT !.pc = "unauthorized"] EXCEPT !.token = NoToken] =>
          /\ k \in Call /\ k.pc = "unauthorized" /\ k.token = NoToken
          /\ k.refresh = call[c].refresh /\ k.kind = call[c].kind
          /\ k.user = call[c].user /\ k.gone = call[c].gone
    BY ONLY <1>1 DEF Call, Answered
<1> QED BY <1>2, <1>3 DEF Changed, TypeOK

LEMMA SentCarries ==
    ASSUME TypeOK, NEW c \in Calls, NEW kind \in Kind, NEW u \in Users \cup {NoUser},
           Send(c, kind, u)
    PROVE  /\ Changed(c) /\ call[c].pc = "idle"
           /\ call'[c].kind = kind /\ call'[c].pc = "request" /\ call'[c].user = u
           /\ call'[c].token = IF kind = "login" THEN NoToken ELSE stored.token
           /\ call'[c].refresh = NoToken /\ ~call'[c].gone
  BY NoCallTyped, NoCallHere DEF Send, Changed, TypeOK, Store, Call, AtServer

\* What a sign-in call keeps.
SignInOwned(k) ==
    k.kind = "login" =>
        /\ k.pc \in {"request", "ok", "failed"} /\ ~k.gone
        /\ k.pc # "failed" => k.user \in Users
        /\ k.pc = "ok" => owner[k.token] = k.user

\* A step that leaves storage and screen alone, and call c with no more than it carried.
LEMMA QuietOwned ==
    ASSUME SessionInv, OneUserInv, NEW c \in Calls, Changed(c),
           UNCHANGED <<shell, issued, owner, stored, shown, loading, outlived>>,
           call'[c].token <= issued, SignInOwned(call'[c]),
           Here(c)' => Here(c) /\ call'[c].kind = call[c].kind,
           Here(c)' /\ CarriesStored(call[c]) => CarriesStored(call'[c])
    PROVE  OneUserInv'
<1>1. TokensOwned' /\ SignInsOwned'
    BY DEF OneUserInv, TokensOwned, SignInsOwned, SignInOwned, Changed
<1>2. ASSUME NEW d \in Calls, Here(d)' PROVE Here(d) /\ call'[d].kind = call[d].kind
    BY <1>2 DEF Changed, Here
<1>3. ASSUME ~outlived PROVE StoredIsShown' /\ InFlightFits'
    BY <1>2, <1>3 DEF OneUserInv, StoredIsShown, InFlightFits
<1>4. ASSUME ~outlived, NEW d \in Calls, Here(d)' PROVE CarriesStored(call[d])'
  <2>1. CarriesStored(call'[d])
    BY <1>2, <1>4 DEF OneUserInv, Changed
  <2> QED BY <2>1 DEF CarriesStored, OfStored
<1> QED BY <1>1, <1>3, <1>4 DEF OneUserInv

\* A call is started by whom the screen shows.
LEMMA SendOwned ==
    ASSUME SessionInv, OneUserInv, NEW c \in Calls, NEW kind \in Kind,
           NEW u \in Users \cup {NoUser},
           Send(c, kind, u), UNCHANGED <<shell, server, client>>, ~loading,
           \/ kind # "login" /\ shown # NoUser /\ (kind = "me" => shell = "context")
           \/ kind = "login" /\ shown = NoUser /\ u \in Users
              /\ \A d \in Calls : call[d].kind # "login"
    PROVE  OneUserInv'
<1> USE DEF server, client
<1>1. /\ Changed(c) /\ call[c].pc = "idle"
      /\ call'[c].kind = kind /\ call'[c].pc = "request" /\ call'[c].user = u
      /\ call'[c].token = IF kind = "login" THEN NoToken ELSE stored.token
      /\ call'[c].refresh = NoToken /\ ~call'[c].gone
    BY SentCarries DEF SessionInv, TypeInv
<1>2. TokensOwned' /\ SignInsOwned'
    BY <1>1 DEF SessionInv, TypeInv, TypeOK, Issued, OneUserInv, TokensOwned, SignInsOwned, Changed,
            NoToken
<1>3. ASSUME NEW d \in Calls, d # c, Here(d)' PROVE Here(d) /\ call'[d] = call[d]
    BY <1>1, <1>3 DEF Changed, Here
<1>4. ASSUME ~outlived PROVE StoredIsShown' /\ InFlightFits'
    BY <1>1, <1>3, <1>4 DEF OneUserInv, StoredIsShown, InFlightFits
<1>5. ASSUME ~outlived, NEW d \in Calls, Here(d)' PROVE CarriesStored(call[d])'
  <2>1. CASE d = c
    BY <1>1, <2>1 DEF CarriesStored, OfStored
  <2>2. CASE d # c
    BY <1>3, <1>5, <2>2 DEF OneUserInv, CarriesStored, OfStored
  <2> QED BY <2>1, <2>2
<1> QED BY <1>2, <1>4, <1>5 DEF OneUserInv

\* A new token belongs to the user of the call it is issued to.
LEMMA IssueOwned ==
    ASSUME SessionInv, OneUserInv, NEW c \in Calls, NEW u \in Users, Changed(c),
           UNCHANGED <<shell, client>>, issued + 1 \in Token, issued' = issued + 1,
           owner' = [owner EXCEPT ![issued + 1] = u],
           call'[c].token \in {NoToken, issued + 1},
           call'[c].kind = "login" => /\ call'[c].pc = "ok" /\ ~call'[c].gone
                                      /\ call'[c].user = u /\ call'[c].token = issued + 1
                                      /\ call'[c].refresh = NoToken,
           Here(c)' => Here(c) /\ call'[c].kind = call[c].kind,
           call'[c].refresh \in {NoToken, call[c].refresh},
           call'[c].kind = "me" => call'[c].pc # "ok",
           call'[c].kind # "login" /\ Here(c)' /\ ~outlived => OfStored(call[c].refresh),
           call'[c].kind # "login" => call[c].refresh \in Token /\ owner[call[c].refresh] = u
    PROVE  OneUserInv'
<1> USE DEF client
<1>1. \A t \in Token : t <= issued => owner'[t] = owner[t]
    BY DEF SessionInv, TypeInv, TypeOK, Token
<1>2. owner'[issued + 1] = u
    BY DEF SessionInv, TypeInv, TypeOK
<1>3. /\ stored.token \in Token \cup {NoToken} /\ stored.token <= issued
      /\ issued \in Nat
      /\ \A d \in Calls : /\ call[d].token \in Token \cup {NoToken} /\ call[d].token <= issued
                          /\ call[d].refresh \in Token \cup {NoToken} /\ call[d].refresh <= issued
    BY DEF SessionInv, TypeInv, TypeOK, Issued, OneUserInv, TokensOwned, Store, Call
<1>4. TokensOwned'
    BY <1>1, <1>2, <1>3 DEF OneUserInv, TokensOwned, Changed, Token, NoToken
<1>5. SignInsOwned'
  <2> SUFFICES ASSUME NEW d \in Calls, call'[d].kind = "login" PROVE SignInOwned(call[d])'
    BY DEF SignInsOwned, SignInOwned
  <2>1. CASE d = c
    BY <1>2, <2>1 DEF SignInOwned
  <2>2. CASE d # c
    BY <1>1, <1>3, <2>2 DEF OneUserInv, SignInsOwned, SignInOwned, Changed, SessionInv, TypeInv,
            CallsTyped, Bears
  <2> QED BY <2>1, <2>2
<1>6. ASSUME NEW d \in Calls, Here(d)' PROVE Here(d) /\ call'[d].kind = call[d].kind
    BY <1>6 DEF Changed, Here
<1>7. ASSUME ~outlived PROVE StoredIsShown' /\ InFlightFits'
    BY <1>1, <1>3, <1>6, <1>7 DEF OneUserInv, StoredIsShown, InFlightFits
<1>8. \A t \in Token : t <= issued /\ OfStored(t) => OfStored(t)'
    BY <1>1, <1>3 DEF OfStored
<1>9. ASSUME ~outlived, NEW d \in Calls, Here(d)' PROVE CarriesStored(call[d])'
  <2>1. CASE d = c
    BY <1>1, <1>2, <1>3, <1>8, <1>9, <2>1 DEF CarriesStored, OfStored
  <2>2. CASE d # c
    <3>1. call'[d] = call[d] /\ CarriesStored(call[d])
      BY <1>6, <1>9, <2>2 DEF OneUserInv, Changed
    <3> QED BY <1>1, <1>3, <1>8, <3>1 DEF CarriesStored
  <2> QED BY <2>1, <2>2
<1> QED BY <1>4, <1>5, <1>7, <1>9 DEF OneUserInv

\* Who takes an answer to its end.  If others of this page are in flight, the
\* stored token stays, and so does who is shown.
LEMMA SettleOwned ==
    ASSUME SessionInv, OneUserInv, NEW c \in Calls, Here(c), NEW ok \in BOOLEAN,
           NEW store \in {stored, Empty}, Settle(c, ok, store), UNCHANGED <<shell, server>>,
           ok => call[c].pc = "ok" /\ store = stored
    PROVE  OneUserInv'
<1> USE DEF server
<1>0. /\ stored' = StoredAfter(c, ok, store) /\ shown' = ShownAfter(c, ok)
      /\ outlived' = \/ outlived
                      \/ /\ OthersPending(c)
                         /\ stored'.token = NoToken \/ (call[c].kind = "login" /\ ok)
    BY DEF Settle
<1>1. /\ Changed(c) /\ call'[c].pc = "idle" /\ call'[c].token = NoToken
      /\ call'[c].kind # "login"
    BY Dropped, NoCallHere DEF Settle, Changed, SessionInv, TypeInv, TypeOK
<1>2. TokensOwned' /\ SignInsOwned'
    BY <1>1 DEF SessionInv, TypeInv, TypeOK, OneUserInv, TokensOwned, SignInsOwned, Changed, NoToken
<1>3. ASSUME NEW d \in Calls, Here(d)' PROVE d # c /\ Here(d) /\ call'[d] = call[d]
    BY <1>1, <1>3 DEF Changed, Here
<1>4. ~outlived' => /\ ~outlived
                    /\ OthersPending(c) =>
                          stored'.token # NoToken /\ ~(call[c].kind = "login" /\ ok)
    BY <1>0
<1>5. ~OthersPending(c) => \A d \in Calls : ~Here(d)'
    BY <1>3 DEF OthersPending, Here
<1>6. ASSUME ~outlived PROVE StoredIsShown'
  <2>1. StoredIsShown /\ CarriesStored(call[c])
    BY <1>6 DEF OneUserInv
  <2>2. CASE SignsOut(c, ok)
    BY <1>0, <2>2 DEF StoredAfter, SignsOut, StoredIsShown, Empty
  <2>3. CASE call[c].kind = "login" /\ ok
    <3>1. stored' = [token |-> call[c].token, user |-> call[c].user] /\ shown' = call[c].user
      BY <2>3 DEF Settle, StoredAfter, ShownAfter, SignsOut
    <3>2. owner[call[c].token] = call[c].user
      BY <2>3 DEF OneUserInv, SignInsOwned
    <3> QED BY <3>1, <3>2 DEF StoredIsShown
  <2>4. CASE call[c].kind = "me" /\ ok
    <3>1. call[c].user = owner[stored.token] /\ shown' \in {NoUser, call[c].user}
      BY <2>1, <2>4 DEF CarriesStored, Settle, ShownAfter
    <3>2. stored'.token = stored.token /\ stored'.user \in {stored.user, call[c].user}
      BY <2>4 DEF Settle, StoredAfter, SignsOut, SessionInv, TypeInv, TypeOK, Store
    <3> QED BY <2>1, <3>1, <3>2 DEF StoredIsShown
  <2>5. CASE ~SignsOut(c, ok) /\ ~(call[c].kind \in {"login", "me"} /\ ok)
    <3>1. stored' = store /\ shown' \in {NoUser, shown}
      BY <1>0, <2>5 DEF StoredAfter, ShownAfter, SignsOut
    <3> QED BY <2>1, <3>1 DEF StoredIsShown, Empty
  <2> QED BY <2>2, <2>3, <2>4, <2>5
<1>7. ASSUME ~outlived', OthersPending(c)
      PROVE  /\ stored'.token = stored.token /\ loading' = FALSE /\ ~loading
             /\ shown # NoUser /\ shown' # NoUser
  <2>1. PICK d \in Calls \ {c} : Here(d)
    BY <1>7 DEF OthersPending, Here
  <2>2. ~outlived /\ stored'.token # NoToken /\ ~(call[c].kind = "login" /\ ok)
    BY <1>4, <1>7
  <2>3. InFlightFits /\ CarriesStored(call[c])
    BY <2>2 DEF OneUserInv
  <2>4. ~loading /\ shown # NoUser /\ call[c].kind # "login"
    BY <2>1, <2>3 DEF InFlightFits
  <2>5. ~SignsOut(c, ok)
    BY <1>0, <2>2 DEF StoredAfter, SignsOut, Empty
  <2>6. stored'.token = store.token /\ store = stored
    BY <2>2, <2>4, <2>5 DEF Settle, StoredAfter, SignsOut, SessionInv, TypeInv, TypeOK, Store, Empty
  <2>7. call[c].kind = "me" => ok
    BY <2>3, <2>4, <2>5 DEF SignsOut, InFlightFits, SessionInv, TypeInv, TypeOK
  <2>8. shown' # NoUser
    <3>1. CASE call[c].kind = "me"
      <4>1. stored.token \in Token /\ stored.token <= issued
        BY <2>2, <2>6 DEF SessionInv, TypeInv, TypeOK, Issued, Store
      <4>2. call[c].user = owner[stored.token] /\ owner[stored.token] \in Users
        BY <2>3, <2>7, <3>1, <4>1 DEF CarriesStored, OneUserInv, TokensOwned
      <4>3. shown' = call[c].user
        BY <2>2, <2>7, <3>1 DEF Settle, ShownAfter
      <4> QED BY <4>2, <4>3, SessionsAssumption
    <3>2. CASE call[c].kind # "me"
      BY <2>4, <2>5, <3>2 DEF Settle, ShownAfter, SignsOut
    <3> QED BY <3>1, <3>2
  <2>9. loading' = FALSE
    BY <2>4 DEF Settle, LoadingAfter
  <2> QED BY <2>4, <2>6, <2>8, <2>9
<1>8. ASSUME ~outlived' PROVE InFlightFits' /\ \A d \in Calls : Here(d)' => CarriesStored(call[d])'
  <2>1. CASE ~OthersPending(c)
    BY <1>5, <2>1 DEF InFlightFits
  <2>2. CASE OthersPending(c)
    <3>1. /\ stored'.token = stored.token /\ loading' = FALSE /\ ~loading
          /\ shown # NoUser /\ shown' # NoUser
      BY <1>7, <1>8, <2>2
    <3>2. InFlightFits /\ \A d \in Calls : Here(d) => CarriesStored(call[d])
      BY <1>4, <1>8 DEF OneUserInv
    <3>3. InFlightFits'
      BY <1>3, <3>1, <3>2 DEF InFlightFits
    <3>4. ASSUME NEW d \in Calls, Here(d)' PROVE CarriesStored(call[d])'
      BY <1>3, <3>1, <3>2, <3>4 DEF CarriesStored, OfStored
    <3> QED BY <3>3, <3>4
  <2> QED BY <2>1, <2>2
<1> QED BY <1>2, <1>4, <1>6, <1>8 DEF OneUserInv

\* The new pair is of the user of the old one.
LEMMA RotatedOwned == ASSUME SessionInv, OneUserInv, NEW c \in Calls, OnRotated(c) PROVE OneUserInv'
<1>1. /\ call[c].pc = "rotated" /\ Here(c) /\ call[c].token \in Token
      /\ stored' = [token |-> call[c].token, user |-> owner[call[c].token]]
      /\ UNCHANGED <<shell, issued, owner, shown, loading, outlived>>
    BY DEF OnRotated, Heard, Here, server, SessionInv, TypeInv, CallsTyped, Bears
<1>2. call[c].kind # "login"
    BY <1>1 DEF OneUserInv, SignInsOwned
<1>3. /\ Changed(c) /\ call'[c].pc = "request" /\ call'[c].refresh = NoToken
      /\ call'[c].token = call[c].token /\ call'[c].kind = call[c].kind
      /\ call'[c].gone = call[c].gone
  <2>1. call' = [call EXCEPT ![c] = [call[c] EXCEPT !.pc = "request", !.retried = TRUE,
                                                    !.refresh = NoToken]]
    BY DEF OnRotated, SessionInv, TypeInv, TypeOK
  <2>2. call[c] \in Call
    BY DEF SessionInv, TypeInv, TypeOK
  <2>3. \A k : k = [call[c] EXCEPT !.pc = "request", !.retried = TRUE, !.refresh = NoToken] =>
            /\ k \in Call /\ k.pc = "request" /\ k.refresh = NoToken
            /\ k.token = call[c].token /\ k.kind = call[c].kind /\ k.gone = call[c].gone
    BY ONLY <2>2 DEF Call, AtServer, Token, NoToken
  <2> QED BY <2>1, <2>3 DEF Changed, SessionInv, TypeInv, TypeOK
<1>4. TokensOwned' /\ SignInsOwned'
    BY <1>1, <1>2, <1>3 DEF OneUserInv, TokensOwned, SignInsOwned, Changed
<1>5. ASSUME NEW d \in Calls, Here(d)' PROVE Here(d) /\ call'[d].kind = call[d].kind
    BY <1>1, <1>3, <1>5 DEF Changed, Here
<1>6. ASSUME ~outlived
      PROVE  /\ stored.token # NoToken /\ stored'.token # NoToken
             /\ owner[stored'.token] = owner[stored.token]
  <2>1. CarriesStored(call[c]) /\ call[c].token # NoToken
    BY <1>1, <1>6 DEF OneUserInv, Token, NoToken
  <2> QED BY <1>1, <1>2, <2>1 DEF CarriesStored, OfStored
<1>7. ASSUME ~outlived PROVE StoredIsShown' /\ InFlightFits'
    BY <1>1, <1>5, <1>6, <1>7 DEF OneUserInv, StoredIsShown, InFlightFits
<1>8. ASSUME ~outlived, NEW d \in Calls, Here(d)' PROVE CarriesStored(call[d])'
  <2>1. CarriesStored(call[d])
    BY <1>5, <1>8 DEF OneUserInv
  <2>2. call'[d].kind = call[d].kind /\ call'[d].token = call[d].token
        /\ call'[d].refresh \in {NoToken, call[d].refresh}
        /\ (call'[d].pc = "ok" => call'[d] = call[d])
    BY <1>3 DEF Changed
  <2> QED BY <1>1, <1>6, <1>8, <2>1, <2>2 DEF CarriesStored, OfStored
<1> QED BY <1>1, <1>4, <1>7, <1>8 DEF OneUserInv

LEMMA UserStepOwned == ASSUME SessionInv, OneUserInv, NEW c \in Calls, UserStep(c) PROVE OneUserInv'
<1> USE DEF server
<1>1. NoUser \in Users \cup {NoUser}
    OBVIOUS
<1>2. CASE StartWork(c) \/ StartLogout(c)
    BY <1>1, <1>2, SendOwned DEF StartWork, StartLogout, Kind
<1>3. ASSUME NEW u \in Users, StartLogin(c, u) PROVE OneUserInv'
    BY <1>3, SendOwned DEF StartLogin, Kind
<1>4. CASE StartRefreshMe(c) /\ stored.token # NoToken
    BY <1>1, <1>4, SendOwned DEF StartRefreshMe, Kind
<1>5. CASE StartRefreshMe(c) /\ stored.token = NoToken
  <2>1. /\ UNCHANGED <<call, shell, issued, owner, loading>> /\ call[c].pc = "idle"
        /\ stored' = Empty /\ shown' = NoUser /\ outlived' = (outlived \/ OthersPending(c))
    BY <1>5 DEF StartRefreshMe
  <2>2. TokensOwned' /\ SignInsOwned'
    BY <2>1 DEF OneUserInv, TokensOwned, SignInsOwned
  <2>3. ~outlived' => \A d \in Calls : ~Here(d)'
    BY <2>1 DEF OthersPending, Here
  <2>4. StoredIsShown'
    BY <2>1 DEF StoredIsShown, Empty
  <2> QED BY <2>2, <2>3, <2>4 DEF OneUserInv, InFlightFits
<1> QED BY <1>2, <1>3, <1>4, <1>5 DEF UserStep

LEMMA ServerStepOwned ==
    ASSUME SessionInv, OneUserInv, NEW c \in Calls, ServerStep(c)
    PROVE  OneUserInv'
<1> USE DEF server, client
<1>1. TypeOK /\ call[c] \in Call /\ call[c].token <= issued /\ 0 <= issued
    BY DEF SessionInv, TypeInv, TypeOK, OneUserInv, TokensOwned
\* An answer without news: an error, a refusal, a 401.
<1>2. ASSUME NEW pc \in Answered \ {"ok"}, Reply(c, pc, NoToken, NoUser),
             call[c].kind = "login" => pc = "failed", call[c].pc # "idle",
             UNCHANGED <<shell, issued, owner, client>>
      PROVE  OneUserInv'
  <2>1. /\ Changed(c) /\ call'[c].refresh = NoToken
        /\ \/ /\ call'[c].pc = "idle" /\ call'[c].kind = "none" /\ call'[c].token = NoToken
           \/ /\ call'[c].pc = pc /\ call'[c].kind = call[c].kind /\ call'[c].token = NoToken
              /\ call'[c].gone = call[c].gone
    BY <1>1, <1>2, ReplyLeaves
  <2>2. SignInOwned(call'[c])
    BY <1>2, <2>1 DEF SignInOwned, OneUserInv, SignInsOwned
  <2>3. Here(c)' => Here(c) /\ call'[c].kind = call[c].kind
    BY <1>2, <2>1 DEF Here
  <2>4. CarriesStored(call'[c])
    BY <1>2, <2>1 DEF CarriesStored
  <2> QED BY <1>1, <1>2, <2>1, <2>2, <2>3, <2>4, QuietOwned DEF NoToken
<1>3. ASSUME Reply401(c), call[c].kind # "login", call[c].pc # "idle",
             UNCHANGED <<shell, issued, owner, client>>
      PROVE  OneUserInv'
  <2>1. /\ Changed(c) /\ call'[c].pc = "unauthorized" /\ call'[c].token = NoToken
        /\ call'[c].refresh = call[c].refresh /\ call'[c].kind = call[c].kind
        /\ call'[c].gone = call[c].gone
    BY <1>1, <1>3, Reply401Leaves
  <2>2. SignInOwned(call'[c]) /\ (CarriesStored(call[c]) => CarriesStored(call'[c]))
    BY <1>3, <2>1 DEF SignInOwned, CarriesStored
  <2>3. Here(c)' => Here(c)
    BY <1>3, <2>1 DEF Here
  <2> QED BY <1>1, <1>3, <2>1, <2>2, <2>3, QuietOwned DEF NoToken
<1>4. CASE ServeLogin(c)
  <2>1. /\ issued + 1 \in Token /\ call[c].user \in Users
        /\ call[c].kind = "login" /\ ~call[c].gone /\ call[c].pc = "request"
    BY <1>1, <1>4, SessionsAssumption
       DEF ServeLogin, IssueFor, Token, OneUserInv, SignInsOwned, TypeOK
  <2>2. /\ Changed(c) /\ call'[c].refresh = NoToken
        /\ call'[c].pc = "ok" /\ call'[c].kind = "login" /\ call'[c].token = issued + 1
        /\ call'[c].user = call[c].user /\ call'[c].gone = call[c].gone
    <3>1. Reply(c, "ok", issued + 1, call[c].user) /\ call[c].user \in Users \cup {NoUser}
      BY <1>4, <2>1 DEF ServeLogin
    <3>2. call'[c].kind # "none"
      BY <2>1, <3>1 DEF Reply, NoCall, TypeOK, SessionInv, TypeInv
    <3> QED BY <1>1, <2>1, <3>1, <3>2, ReplyLeaves DEF Answered
  <2>3. Here(c)' => Here(c)
    BY <2>1 DEF Here
  <2> QED BY <1>1, <1>4, <2>1, <2>2, <2>3, IssueOwned DEF ServeLogin, IssueFor
<1>5. CASE ServeRequest(c)
  <2>1. PICK authorized \in Verdicts(call[c].token) :
            IF authorized
            THEN Reply(c, "ok", NoToken,
                       IF call[c].kind = "me" THEN owner[call[c].token] ELSE NoUser)
            ELSE Reply401(c)
    BY <1>5 DEF ServeRequest
  <2>2. CASE authorized
    <3>1. call[c].token \in Token
      BY <1>1, <2>2 DEF Verdicts, Call
    <3> DEFINE u == IF call[c].kind = "me" THEN owner[call[c].token] ELSE NoUser
    <3>2. u \in Users \cup {NoUser} /\ (call[c].kind = "me" => u = owner[call[c].token])
      BY <1>1, <3>1 DEF TypeOK
    <3>3. Reply(c, "ok", NoToken, u)
      BY <2>1, <2>2
    <3> HIDE DEF u
    <3>4. /\ Changed(c) /\ call'[c].refresh = NoToken
          /\ \/ /\ call'[c].pc = "idle" /\ call'[c].kind = "none" /\ call'[c].token = NoToken
             \/ /\ call'[c].pc = "ok" /\ call'[c].kind = call[c].kind /\ call'[c].token = NoToken
                /\ call'[c].user = u /\ call'[c].gone = call[c].gone
      BY <1>1, <3>2, <3>3, ReplyLeaves DEF Answered
    <3>5. call[c].kind \in {"work", "me"} /\ call[c].pc = "request"
      BY <1>5 DEF ServeRequest
    <3>6. SignInOwned(call'[c]) /\ (Here(c)' => Here(c) /\ call'[c].kind = call[c].kind)
      BY <3>4, <3>5 DEF SignInOwned, Here
    <3>7. CarriesStored(call[c]) => CarriesStored(call'[c])
      BY <3>1, <3>2, <3>4, <3>5 DEF CarriesStored, OfStored, Token, NoToken
    <3> QED BY <1>1, <1>5, <3>4, <3>6, <3>7, QuietOwned DEF ServeRequest, NoToken
  <2>3. CASE ~authorized
    BY <1>3, <1>5, <2>1, <2>3 DEF ServeRequest
  <2> QED BY <2>2, <2>3
<1>6. CASE ServeLogout(c)
  <2>1. CASE Reply401(c)
    BY <1>3, <1>6, <2>1 DEF ServeLogout
  <2>2. CASE call' = [call EXCEPT ![c].pc = "ok", ![c].token = NoToken]
    <3>1. call' = [call EXCEPT ![c] = [[call[c] EXCEPT !.pc = "ok"] EXCEPT !.token = NoToken]]
      BY <1>1, <2>2 DEF TypeOK
    <3>2. \A k : k = [[call[c] EXCEPT !.pc = "ok"] EXCEPT !.token = NoToken] =>
              /\ k \in Call /\ k.pc = "ok" /\ k.token = NoToken /\ k.refresh = call[c].refresh
              /\ k.kind = call[c].kind /\ k.gone = call[c].gone
      BY ONLY <1>1 DEF Call, Answered
    <3>3. /\ Changed(c) /\ call'[c].pc = "ok" /\ call'[c].token = NoToken
          /\ call'[c].refresh = call[c].refresh
          /\ call'[c].kind = call[c].kind /\ call'[c].gone = call[c].gone
      BY <1>1, <3>1, <3>2 DEF Changed, TypeOK
    <3>4. call[c].kind = "logout" /\ call[c].pc = "request"
      BY <1>6 DEF ServeLogout
    <3>5. /\ SignInOwned(call'[c]) /\ (Here(c)' => Here(c))
          /\ CarriesStored(call[c]) => CarriesStored(call'[c])
      BY <3>3, <3>4 DEF SignInOwned, Here, CarriesStored
    <3> QED BY <1>1, <1>6, <3>3, <3>5, QuietOwned DEF ServeLogout, NoToken
  <2> QED BY <1>6, <2>1, <2>2 DEF ServeLogout
<1>7. call[c].pc \in {"refresh", "rotating"} => call[c].kind # "login"
    BY DEF OneUserInv, SignInsOwned
<1>8. CASE ReadSession(c)
  <2>1. CASE call' = [call EXCEPT ![c].pc = "rotating"]
    <3>1. /\ Changed(c) /\ call'[c].pc = "rotating" /\ call'[c].token = call[c].token
          /\ call'[c].refresh = call[c].refresh
          /\ call'[c].kind = call[c].kind /\ call'[c].gone = call[c].gone
      BY <1>1, <2>1 DEF Changed, TypeOK, Call, AtServer
    <3>2. /\ SignInOwned(call'[c]) /\ (Here(c)' => Here(c))
          /\ CarriesStored(call[c]) => CarriesStored(call'[c])
      BY <1>7, <1>8, <3>1 DEF ReadSession, SignInOwned, Here, CarriesStored
    <3> QED BY <1>1, <1>8, <3>1, <3>2, QuietOwned DEF ReadSession
  <2>2. CASE Reply(c, "refused", NoToken, NoUser)
    BY <1>2, <1>7, <1>8, <2>2 DEF ReadSession, Answered
  <2> QED BY <1>8, <2>1, <2>2 DEF ReadSession
<1>9. CASE Rotate(c)
  <2>1. issued + 1 \in Token /\ call[c].refresh \in Token /\ call[c].refresh <= issued
    BY <1>1, <1>9, SessionsAssumption
       DEF Rotate, TypeOK, Token, SessionInv, TypeInv, CallsTyped, Issued
  <2>2. /\ Changed(c) /\ call'[c].pc = "rotated" /\ call'[c].token = issued + 1
        /\ call'[c].refresh = call[c].refresh
        /\ call'[c].kind = call[c].kind /\ call'[c].gone = call[c].gone
    <3>1. call' = [call EXCEPT ![c] =
                      [[call[c] EXCEPT !.pc = "rotated"] EXCEPT !.token = issued + 1]]
      BY <1>1, <1>9 DEF Rotate, TypeOK
    <3>2. \A k : k = [[call[c] EXCEPT !.pc = "rotated"] EXCEPT !.token = issued + 1] =>
              /\ k \in Call /\ k.pc = "rotated" /\ k.token = issued + 1
              /\ k.refresh = call[c].refresh
              /\ k.kind = call[c].kind /\ k.gone = call[c].gone
      BY ONLY <1>1, <2>1 DEF Call, Answered
    <3> QED BY <1>1, <3>1, <3>2 DEF Changed, TypeOK
  <2>3. owner[call[c].refresh] \in Users
    BY <2>1 DEF OneUserInv, TokensOwned
  <2>4. call'[c].kind # "login" /\ (Here(c)' => Here(c))
    BY <1>7, <1>9, <2>2 DEF Rotate, Here
  <2>5. Here(c) /\ ~outlived => OfStored(call[c].refresh)
    BY <2>1 DEF OneUserInv, CarriesStored, Token, NoToken
  <2> QED BY <1>9, <2>1, <2>2, <2>3, <2>4, <2>5, IssueOwned DEF Rotate
<1>10. CASE ServerError(c)
    BY <1>2, <1>7, <1>10 DEF ServerError, AtServer, Answered
<1> QED BY <1>4, <1>5, <1>6, <1>8, <1>9, <1>10 DEF ServerStep

LEMMA LoseOwned == ASSUME SessionInv, OneUserInv, NEW c \in Calls, Lose(c) PROVE OneUserInv'
<1>1. TypeOK /\ 0 <= issued
    BY DEF SessionInv, TypeInv, TypeOK
<1>2. /\ Reply(c, "failed", NoToken, NoUser) /\ call[c].pc # "idle"
      /\ UNCHANGED <<shell, issued, owner, stored, shown, loading, outlived>>
    BY DEF Lose, AtServer, Answered, server, client
<1>3. /\ Changed(c) /\ call'[c].refresh = NoToken
      /\ \/ /\ call'[c].pc = "idle" /\ call'[c].kind = "none" /\ call'[c].token = NoToken
         \/ /\ call'[c].pc = "failed" /\ call'[c].kind = call[c].kind /\ call'[c].token = NoToken
            /\ call'[c].gone = call[c].gone
    BY <1>1, <1>2, ReplyLeaves DEF Answered
<1>4. SignInOwned(call'[c]) /\ CarriesStored(call'[c])
    BY <1>3 DEF SignInOwned, CarriesStored, OneUserInv, SignInsOwned
<1>5. Here(c)' => Here(c) /\ call'[c].kind = call[c].kind
    BY <1>2, <1>3 DEF Here
<1> QED BY <1>1, <1>2, <1>3, <1>4, <1>5, QuietOwned DEF NoToken

LEMMA ClientStepOwned ==
    ASSUME SessionInv, OneUserInv, NEW c \in Calls, ClientStep(c)
    PROVE  OneUserInv'
<1>1. TypeOK /\ call[c] \in Call /\ call[c].token <= issued /\ 0 <= issued
    BY DEF SessionInv, TypeInv, TypeOK, OneUserInv, TokensOwned
<1>2. CASE OnSuccess(c)
    BY <1>2, SettleOwned DEF OnSuccess, Heard, Here
<1>3. CASE OnFailure(c)
    BY <1>3, SettleOwned DEF OnFailure, Heard, Here
<1>4. CASE OnUnauthorized(c)
  <2>1. Here(c) /\ call[c].kind # "login"
    BY <1>4 DEF OnUnauthorized, Heard, Here, OneUserInv, SignInsOwned
  <2>2. CASE stored.token = NoToken
    BY <1>4, <2>1, <2>2, SettleOwned DEF OnUnauthorized
  <2>3. CASE stored.token # NoToken
    <3>1. /\ call' = [call EXCEPT ![c].pc = "refresh", ![c].refresh = stored.token]
          /\ UNCHANGED <<shell, issued, owner, stored, shown, loading, outlived>>
      BY <1>4, <2>3 DEF OnUnauthorized, server, client
    <3>2. stored.token \in Token
      BY <2>3 DEF SessionInv, TypeInv, TypeOK, Store
    <3>3. call' = [call EXCEPT ![c] =
                      [[call[c] EXCEPT !.pc = "refresh"] EXCEPT !.refresh = stored.token]]
      BY <1>1, <3>1 DEF TypeOK
    <3>4. \A k : k = [[call[c] EXCEPT !.pc = "refresh"] EXCEPT !.refresh = stored.token] =>
              /\ k \in Call /\ k.pc = "refresh" /\ k.token = call[c].token
              /\ k.refresh = stored.token /\ k.kind = call[c].kind /\ k.gone = call[c].gone
      BY ONLY <1>1, <3>2 DEF Call, AtServer
    <3>5. /\ Changed(c) /\ call'[c].pc = "refresh" /\ call'[c].token = call[c].token
          /\ call'[c].refresh = stored.token
          /\ call'[c].kind = call[c].kind /\ call'[c].gone = call[c].gone
      BY <1>1, <3>3, <3>4 DEF Changed, TypeOK
    <3>6. /\ SignInOwned(call'[c])
          /\ CarriesStored(call[c]) => CarriesStored(call'[c])
      BY <2>1, <2>3, <3>5 DEF SignInOwned, CarriesStored, OfStored
    <3> QED BY <1>1, <2>1, <3>1, <3>5, <3>6, QuietOwned
  <2> QED BY <2>2, <2>3
<1>5. CASE OnRefused(c)
    BY <1>5, SettleOwned DEF OnRefused, Heard, Here
<1>6. CASE OnRotated(c)
    BY <1>6, RotatedOwned
<1>7. CASE Vanish(c)
  <2>1. /\ Changed(c) /\ call'[c].pc = "idle" /\ call'[c].kind # "login"
        /\ call'[c].token = NoToken /\ call'[c].refresh = NoToken
    BY <1>1, <1>7, Dropped, NoCallHere DEF Vanish, TypeOK
  <2>2. SignInOwned(call'[c]) /\ ~Here(c)'
    BY <2>1 DEF SignInOwned, Here
  <2> QED BY <1>1, <1>7, <2>1, <2>2, QuietOwned DEF Vanish, server, client, NoToken
<1> QED BY <1>2, <1>3, <1>4, <1>5, <1>6, <1>7 DEF ClientStep

LEMMA InitOwned == Init => OneUserInv
<1> SUFFICES ASSUME Init PROVE OneUserInv
    OBVIOUS
<1>1. CASE FreshStart
  <2>1. \A c \in Calls : call[c] = NoCall /\ ~Here(c)
    BY <1>1, NoCallHere DEF FreshStart, Here
  <2>2. issued = 0 /\ stored.token = NoToken
    BY <1>1 DEF FreshStart, Empty
  <2> QED BY <2>1, <2>2, NoCallHere DEF OneUserInv, TokensOwned, SignInsOwned, StoredIsShown,
          InFlightFits, Token, NoToken
<1>2. CASE Reload
  <2>1. PICK u \in Users, c \in Calls,
             old \in {NoCall,
                     [NoCall EXCEPT !.kind = "work", !.pc = "rotating",
                                    !.refresh = 1, !.gone = TRUE],
                     [NoCall EXCEPT !.kind = "logout", !.pc = "request",
                                    !.token = 1, !.body = 1, !.gone = TRUE]} :
               /\ owner = [t \in Token |-> IF t = 1 THEN u ELSE NoUser]
               /\ stored = [token |-> 1, user |-> u]
               /\ shown = IF shell = "context" THEN u ELSE NoUser
               /\ call = [d \in Calls |->
                           IF d = c THEN [NoCall EXCEPT !.kind = "me", !.pc = "request",
                                                        !.token = 1]
                           ELSE old]
    BY <1>2 DEF Reload
  <2>2. issued = 1 /\ loading = TRUE /\ 1 \in Token
    BY <1>2, SessionsAssumption DEF Reload, Token
  <2>3. old.token <= 1 /\ old.kind # "login" /\ (old.pc = "idle" \/ old.gone)
    <3>1. CASE old = NoCall
      BY <3>1, NoCallHere DEF NoToken
    <3>2. CASE old = [NoCall EXCEPT !.kind = "work", !.pc = "rotating",
                                    !.refresh = 1, !.gone = TRUE]
      BY <3>2 DEF NoCall, NoToken
    <3>3. CASE old = [NoCall EXCEPT !.kind = "logout", !.pc = "request",
                                    !.token = 1, !.body = 1, !.gone = TRUE]
      BY <3>3 DEF NoCall, NoToken
    <3> QED BY <2>1, <3>1, <3>2, <3>3
  <2>4. \A k : k = [NoCall EXCEPT !.kind = "me", !.pc = "request", !.token = 1] =>
            k.kind = "me" /\ k.pc = "request" /\ k.token = 1 /\ k.refresh = NoToken
    BY DEF NoCall
  <2>5. /\ call[c].kind = "me" /\ call[c].pc = "request" /\ call[c].token = 1
        /\ call[c].refresh = NoToken
        /\ \A d \in Calls \ {c} : call[d] = old
    BY <2>1, <2>4
  <2>6. \A d \in Calls : /\ call[d].token <= 1 /\ call[d].kind # "login"
                         /\ Here(d) => d = c
    BY <2>3, <2>5 DEF Here
  <2>7. owner[1] = u /\ stored.token = 1 /\ stored.user = u /\ shown \in {u, NoUser}
    BY <2>1, <2>2
  <2>8. StoredIsShown /\ InFlightFits /\ \A d \in Calls : Here(d) => CarriesStored(call[d])
    BY <2>2, <2>5, <2>6, <2>7 DEF StoredIsShown, InFlightFits, CarriesStored, OfStored, NoToken
  <2>9. TokensOwned /\ SignInsOwned
    BY <2>2, <2>6, <2>7 DEF TokensOwned, SignInsOwned, Token
  <2> QED BY <2>8, <2>9 DEF OneUserInv
<1> QED BY <1>1, <1>2 DEF Init

\* Who the screen says is signed in is whose tokens requests carry, in both
\* shells, for any users and any number of overlapping calls, as long as no call
\* was in flight across a sign-in or a sign-out (loginWithOtp, refreshMe, logout,
\* refreshAccessToken).
THEOREM ScreenFollowsTokens == Spec => []ScreenMatchesTokens
<1>1. SessionInv /\ OneUserInv /\ [Next]_vars => OneUserInv'
  <2> SUFFICES ASSUME SessionInv, OneUserInv, [Next]_vars PROVE OneUserInv'
    OBVIOUS
  <2>1. CASE UNCHANGED vars
    BY <2>1 DEF vars, OneUserInv, TokensOwned, SignInsOwned, StoredIsShown, InFlightFits, Here,
            CarriesStored, OfStored
  <2> QED BY <2>1, UserStepOwned, ServerStepOwned, LoseOwned, ClientStepOwned DEF Next
<1>2. OneUserInv => ScreenMatchesTokens
    BY DEF OneUserInv, StoredIsShown, ScreenMatchesTokens
<1> QED BY InitOwned, SessionHolds, <1>1, <1>2, PTL DEF Spec

=============================================================================
