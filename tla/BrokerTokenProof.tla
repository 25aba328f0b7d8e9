-------------------------- MODULE BrokerTokenProof --------------------------
(***************************************************************************)
(* Why the token endpoint of BrokerProxy never makes a good code bad, for  *)
(* any number of logins and of calls, whatever the upstream answers and    *)
(* however calls end.                                                      *)
(***************************************************************************)
EXTENDS BrokerProxyProof

LEMMA CallInvInit == Init => CallInv
BY DEF Init, CallInv, OneCallAtATime, HandlerOfItsForm, RedeemedByACall, RejectedForAReason,
       RejectionIsExplained, Calls

\* A call without a form is unanswered, and an unanswered call has not been relayed.
LEMMA UnansweredFacts ==
  ASSUME TypeOK, Inv, NEW c \in Calls, answer[c] = NoAnswer
  PROVE  handler[c] # "relayed"
BY DEF Inv, AnswerToAForm

LEMMA IdleFacts ==
  ASSUME TypeOK, Inv, NEW c \in Calls, handler[c] = "idle"
  PROVE  form[c] = NoForm /\ answer[c] = NoAnswer
BY DEF Inv, AnswerToAForm

\* A call that sent a code upstream sent the one its login's client holds, and that code
\* came from the upstream for the fixed callback and its own login's challenge.
LEMMA SentCodeFacts ==
  ASSUME TypeOK, Inv, NEW c \in Calls, form[c] # NoForm,
         form[c].grant = "authorization_code"
  PROVE  /\ c[1] \in Flows /\ form[c].code = code[c[1]] /\ form[c].verifier = c[1]
         /\ form[c].code \in {cb.code : cb \in callbacks} \ {NoCode}
         /\ form[c].code.redirectUri = form[c].redirectUri
         /\ form[c].code.challenge = form[c].code.flow
<1>1. /\ c[1] \in Flows /\ form[c].code = code[c[1]] /\ form[c].code # NoCode
      /\ form[c].verifier = c[1]
  BY DEF Calls, Inv, FormOfItsLogin
<1>2. PICK r \in redirects : r.code = code[c[1]]
  BY <1>1 DEF Inv, CodeFromItsRedirect
<1>3. r.code \in Code /\ r.code.challenge = r.code.flow
  BY RedirectFacts
<1>4. \E cb \in callbacks : r.code = cb.code
  BY DEF Inv, RedirectOfACallback
<1>5. form[c].redirectUri = FixedCallback /\ r.code.redirectUri = FixedCallback
  BY <1>3 DEF TypeOK, Form, Code
<1> QED
  BY <1>1, <1>2, <1>3, <1>4, <1>5

\* Only a call of the login a code was issued for exchanges it.
LEMMA ExchangedByItsLogin ==
  ASSUME TypeOK, Inv, NEW d \in Calls, Exchanged(d)
  PROVE  d[1] \in Flows /\ form[d].code.flow = d[1]
<1>1. /\ d[1] \in Flows /\ form[d].code = code[d[1]] /\ form[d].verifier = d[1]
      /\ form[d].code # NoCode
  BY SentCodeFacts DEF Exchanged
<1>2. form[d].code.challenge \in {form[d].verifier, NoChallenge}
  BY DEF Exchanged, Inv, AnswerToAForm
<1> QED
  BY <1>1, <1>2, HeldCodeFacts

\* A handler that ends without relaying explains more rejections and forgets none.
LEMMA CallEnds ==
  ASSUME TypeOK, Inv, CallInv, UNCHANGED <<form, answer, redeemed>>,
         \A c \in Calls :
           \/ handler'[c] = handler[c]
           \/ handler[c] = "waiting" /\ handler'[c] \in {"badgateway", "gone"}
           \/ handler[c] = "idle" /\ handler'[c] = "refused"
  PROVE  CallInv'
<1>1. OneCallAtATime'
  BY DEF CallInv, OneCallAtATime
<1>2. \A f \in Flows : HasTokens(f)' = HasTokens(f)
  BY DEF HasTokens, Calls
<1>3. HandlerOfItsForm'
  <2> SUFFICES ASSUME NEW c \in Calls
               PROVE  /\ handler'[c] = "refused" => form[c] = NoForm
                      /\ handler'[c] = "waiting" => form[c] # NoForm
                      /\ (handler'[c] = "waiting" /\ form[c].grant = "authorization_code")
                           => ~HasTokens(c[1])
                      /\ handler'[c] = "relayed" => answer[c].body # "secret"
    BY <1>2 DEF HandlerOfItsForm, Calls
  <2>1. handler[c] = "idle" => form[c] = NoForm
    BY IdleFacts
  <2> QED
    BY <2>1 DEF CallInv, HandlerOfItsForm
<1>4. RedeemedByACall' /\ RejectedForAReason'
  BY DEF CallInv, RedeemedByACall, RejectedForAReason, Exchanged
<1>5. RejectionIsExplained'
  <2> SUFFICES ASSUME NEW c \in Calls,
                      handler'[c] = "relayed", ~answer[c].ok,
                      form[c].grant = "authorization_code",
                      "fail" \notin Faults, form[c].code.flow = c[1]
               PROVE  \E t \in Tries : LET d == <<c[1], t>> IN
                        /\ form[d] # NoForm /\ form[d].code = form[c].code
                        /\ answer[d] # NoAnswer /\ answer[d].ok
                        /\ \/ handler'[d] \in {"badgateway", "gone"}
                           \/ handler'[d] = "relayed" /\ answer[d].body = "long"
    BY DEF RejectionIsExplained
  <2>1. handler[c] = "relayed"
    OBVIOUS
  <2>2. PICK t \in Tries : LET d == <<c[1], t>> IN
          /\ form[d] # NoForm /\ form[d].code = form[c].code
          /\ answer[d] # NoAnswer /\ answer[d].ok
          /\ \/ handler[d] \in {"badgateway", "gone"}
             \/ handler[d] = "relayed" /\ answer[d].body = "long"
    BY <2>1 DEF CallInv, RejectionIsExplained
  <2>3. <<c[1], t>> \in Calls
    BY DEF Calls
  <2> QED
    BY <2>2, <2>3
<1> QED
  BY <1>1, <1>3, <1>4, <1>5 DEF CallInv

\* Sending starts the one call of its login that is in flight.
LEMMA SendStep ==
  ASSUME TypeOK, Inv, CallInv, NEW c \in Calls, HandleTokenSend(c)
  PROVE  CallInv'
<1>1. PICK g \in TokenGrants :
        /\ Posts(c[1], g)
        /\ form' = [form EXCEPT ![c] = UpstreamForm(TokenRequest(c[1], g))]
  BY DEF HandleTokenSend
<1> DEFINE fm == UpstreamForm(TokenRequest(c[1], g))
<1>2. c[1] \in Flows
  BY DEF Calls
<1>3. fm \in Form /\ fm # NoForm /\ fm.grant = g
  BY <1>2, FormType, NullsAreNoValues DEF UpstreamForm, TokenRequest
<1> HIDE DEF fm
<1>4. /\ handler[c] = "idle" /\ handler'[c] = "waiting" /\ form'[c] = fm
      /\ form[c] = NoForm /\ answer[c] = NoAnswer
      /\ answer' = answer /\ redeemed' = redeemed
      /\ \A d \in Calls \ {c} : handler'[d] = handler[d] /\ form'[d] = form[d]
  BY <1>1, IdleFacts DEF fm, HandleTokenSend, TypeOK
<1>5. OneCallAtATime'
  <2> SUFFICES ASSUME NEW d \in Calls, d[1] = c[1], handler[d] = "waiting" PROVE FALSE
    BY <1>4 DEF OneCallAtATime, CallInv
  <2>1. d[2] \in Tries /\ d = <<c[1], d[2]>>
    BY DEF Calls
  <2> QED
    BY <2>1 DEF HandleTokenSend, Waiting
<1>6. \A f \in Flows : HasTokens(f)' = HasTokens(f)
  BY <1>4 DEF HasTokens, Calls
<1>7. HandlerOfItsForm'
  <2>1. fm.grant = "authorization_code" => ~HasTokens(c[1])
    BY <1>1, <1>3 DEF Posts
  <2>2. HandlerOfItsForm!(c)'
    BY <1>2, <1>3, <1>4, <1>6, <2>1
  <2>3. ASSUME NEW d \in Calls \ {c} PROVE HandlerOfItsForm!(d)'
    BY <1>4, <1>6 DEF CallInv, HandlerOfItsForm, Calls
  <2> QED
    BY <2>2, <2>3 DEF HandlerOfItsForm
<1>8. RedeemedByACall' /\ RejectedForAReason'
  BY <1>4 DEF CallInv, RedeemedByACall, RejectedForAReason, Exchanged
<1>9. RejectionIsExplained'
  BY <1>4 DEF CallInv, RejectionIsExplained, Calls
<1> QED
  BY <1>5, <1>7, <1>8, <1>9 DEF CallInv

\* The upstream answers a call that has not been relayed, and rejects a code of the
\* call's own login only when it is redeemed already or the upstream itself fails.
LEMMA AnswerStep ==
  ASSUME TypeOK, Inv, CallInv, NEW c \in Calls, UpstreamGrant(c) \/ UpstreamReject(c)
  PROVE  CallInv'
<1>1. PICK ans :
        /\ answer' = [answer EXCEPT ![c] = ans] /\ ans # NoAnswer
        /\ (UpstreamGrant(c) /\ ans.ok) \/ (UpstreamReject(c) /\ ~ans.ok)
  <2>1. CASE UpstreamGrant(c)
    <3>1. PICK b \in Bodies : answer' = [answer EXCEPT ![c] = [ok |-> TRUE, body |-> b]]
      BY <2>1 DEF UpstreamGrant
    <3> DEFINE ans == [ok |-> TRUE, body |-> b]
    <3>2. ans \in Answer /\ ans.ok
      BY AnswerType
    <3> HIDE DEF ans
    <3>3. answer' = [answer EXCEPT ![c] = ans] /\ ans # NoAnswer
      BY <3>1, <3>2, NullsAreNoValues DEF ans
    <3> QED
      BY <2>1, <3>2, <3>3
  <2>2. CASE UpstreamReject(c)
    <3>1. PICK b \in Bodies : answer' = [answer EXCEPT ![c] = [ok |-> FALSE, body |-> b]]
      BY <2>2 DEF UpstreamReject
    <3> DEFINE ans == [ok |-> FALSE, body |-> b]
    <3>2. ans \in Answer /\ ~ans.ok
      BY AnswerType
    <3> HIDE DEF ans
    <3>3. answer' = [answer EXCEPT ![c] = ans] /\ ans # NoAnswer
      BY <3>1, <3>2, NullsAreNoValues DEF ans
    <3> QED
      BY <2>2, <3>2, <3>3
  <2> QED
    BY <2>1, <2>2
<1>2. /\ form[c] # NoForm /\ answer[c] = NoAnswer /\ handler[c] # "relayed"
      /\ answer'[c] = ans /\ \A d \in Calls \ {c} : answer'[d] = answer[d]
      /\ handler' = handler /\ form' = form /\ redeemed \subseteq redeemed'
  BY <1>1, UnansweredFacts DEF UpstreamGrant, UpstreamReject, TypeOK
<1>3. OneCallAtATime'
  BY <1>2 DEF CallInv, OneCallAtATime
<1>4. \A f \in Flows : HasTokens(f)' = HasTokens(f)
  BY <1>2 DEF HasTokens, Calls
<1>5. HandlerOfItsForm'
  BY <1>2, <1>4 DEF CallInv, HandlerOfItsForm, Calls
<1>6. RedeemedByACall'
  <2> SUFFICES ASSUME NEW k \in redeemed' PROVE \E d \in Calls : Exchanged(d)' /\ form[d].code = k
    BY <1>2 DEF RedeemedByACall
  <2>1. CASE k \in redeemed
    <3>1. PICK d \in Calls : Exchanged(d) /\ form[d].code = k
      BY <2>1 DEF CallInv, RedeemedByACall
    <3> QED
      BY <1>2, <3>1 DEF Exchanged
  <2>2. CASE k \notin redeemed
    <3>1. /\ UpstreamGrant(c) /\ form[c].grant = "authorization_code"
          /\ k = form[c].code
      BY <1>1, <2>2 DEF UpstreamGrant, UpstreamReject
    <3>2. ans.ok
      BY <1>1, <1>2, <2>2, <3>1 DEF UpstreamReject
    <3> QED
      BY <1>1, <1>2, <3>1, <3>2 DEF Exchanged
  <2> QED
    BY <2>1, <2>2
<1>7. RejectedForAReason'
  <2>1. ASSUME ~ans.ok, form[c].grant = "authorization_code",
               "fail" \notin Faults, form[c].code.flow = c[1]
        PROVE  form[c].code \in redeemed
    <3>1. ~ExchangeValid(form[c])
      BY <1>1, <2>1 DEF UpstreamReject
    <3> QED
      BY <1>2, <2>1, <3>1, SentCodeFacts DEF ExchangeValid
  <2>2. RejectedForAReason!(c)'
    BY <1>2, <2>1
  <2>3. ASSUME NEW d \in Calls \ {c} PROVE RejectedForAReason!(d)'
    BY <1>2 DEF CallInv, RejectedForAReason
  <2> QED
    BY <2>2, <2>3 DEF RejectedForAReason
<1>8. RejectionIsExplained'
  BY <1>2 DEF CallInv, RejectionIsExplained, Calls
<1> QED
  BY <1>3, <1>5, <1>6, <1>7, <1>8 DEF CallInv

\* The answer that spoilt a code was lost: its call ended before c began, and had it
\* brought plain tokens the client would not have posted the code again.
LEMMA RelayedRejection ==
  ASSUME TypeOK, Inv, CallInv, NEW c \in Calls, HandleTokenRelay(c),
         ~answer[c].ok, form[c].grant = "authorization_code",
         "fail" \notin Faults, form[c].code.flow = c[1]
  PROVE  \E d \in Calls :
           /\ d # c /\ d[1] = c[1] /\ Exchanged(d) /\ form[d].code = form[c].code
           /\ \/ handler[d] \in {"badgateway", "gone"}
              \/ handler[d] = "relayed" /\ answer[d].body = "long"
<1>1. form[c].code \in redeemed
  BY DEF HandleTokenRelay, CallInv, RejectedForAReason
<1>2. PICK d \in Calls : Exchanged(d) /\ form[d].code = form[c].code
  BY <1>1 DEF CallInv, RedeemedByACall
<1>3. d[1] = c[1] /\ d # c
  BY <1>2, ExchangedByItsLogin DEF Exchanged
<1>4. handler[d] \notin {"idle", "refused", "waiting"}
  <2>1. handler[d] # "waiting"
    BY <1>3 DEF HandleTokenRelay, CallInv, OneCallAtATime
  <2>2. handler[d] # "refused"
    BY <1>2 DEF Exchanged, CallInv, HandlerOfItsForm
  <2>3. handler[d] # "idle"
    BY <1>2, IdleFacts DEF Exchanged
  <2> QED
    BY <2>1, <2>2, <2>3
<1>5. ASSUME handler[d] = "relayed" PROVE answer[d].body = "long"
  <2>1. ~HasTokens(c[1])
    BY DEF HandleTokenRelay, CallInv, HandlerOfItsForm
  <2>2. d[2] \in Tries /\ d = <<c[1], d[2]>>
    BY <1>3 DEF Calls
  <2>3. answer[d].body # "plain"
    BY <1>2, <1>5, <2>1, <2>2 DEF HasTokens, Exchanged
  <2>4. answer[d].body # "secret"
    BY <1>5 DEF CallInv, HandlerOfItsForm
  <2>5. answer[d] \in Answer
    BY <1>2 DEF Exchanged, TypeOK
  <2> QED
    BY <2>3, <2>4, <2>5 DEF Answer
<1>6. handler[d] \in {"idle", "waiting", "relayed", "badgateway", "refused", "gone"}
  BY DEF TypeOK
<1> QED
  BY <1>2, <1>3, <1>4, <1>5, <1>6

LEMMA RelayStep ==
  ASSUME TypeOK, Inv, CallInv, NEW c \in Calls, HandleTokenRelay(c)
  PROVE  CallInv'
<1>1. /\ handler[c] = "waiting" /\ handler'[c] = "relayed"
      /\ answer[c] # NoAnswer /\ answer[c].body # "secret"
      /\ \A d \in Calls \ {c} : handler'[d] = handler[d]
      /\ UNCHANGED <<form, answer, redeemed>>
  BY DEF HandleTokenRelay, TypeOK
<1>2. OneCallAtATime'
  BY <1>1 DEF CallInv, OneCallAtATime
<1>3. ASSUME NEW f \in Flows \ {c[1]} PROVE HasTokens(f)' = HasTokens(f)
  <2>1. \A t \in Tries : <<f, t>> \in Calls \ {c}
    BY DEF Calls
  <2> QED
    BY <1>1, <2>1 DEF HasTokens
<1>4. HandlerOfItsForm'
  <2>1. HandlerOfItsForm!(c)'
    BY <1>1
  <2>2. ASSUME NEW d \in Calls \ {c} PROVE HandlerOfItsForm!(d)'
    <3>1. handler[d] = "waiting" => d[1] \in Flows \ {c[1]}
      BY <1>1 DEF CallInv, OneCallAtATime, Calls
    <3> QED
      BY <1>1, <1>3, <3>1 DEF CallInv, HandlerOfItsForm
  <2> QED
    BY <2>1, <2>2 DEF HandlerOfItsForm
<1>5. RedeemedByACall' /\ RejectedForAReason'
  BY <1>1 DEF CallInv, RedeemedByACall, RejectedForAReason, Exchanged
<1>6. RejectionIsExplained'
  <2> SUFFICES ASSUME NEW e \in Calls,
                      handler'[e] = "relayed", ~answer[e].ok,
                      form[e].grant = "authorization_code",
                      "fail" \notin Faults, form[e].code.flow = e[1]
               PROVE  \E t \in Tries : LET d == <<e[1], t>> IN
                        /\ form[d] # NoForm /\ form[d].code = form[e].code
                        /\ answer[d] # NoAnswer /\ answer[d].ok
                        /\ \/ handler'[d] \in {"badgateway", "gone"}
                           \/ handler'[d] = "relayed" /\ answer[d].body = "long"
    BY <1>1 DEF RejectionIsExplained
  <2>1. CASE e = c
    <3>1. PICK d \in Calls :
            /\ d # c /\ d[1] = c[1] /\ Exchanged(d) /\ form[d].code = form[c].code
            /\ \/ handler[d] \in {"badgateway", "gone"}
               \/ handler[d] = "relayed" /\ answer[d].body = "long"
      BY <2>1, RelayedRejection
    <3>2. d[2] \in Tries /\ d = <<e[1], d[2]>>
      BY <2>1, <3>1 DEF Calls
    <3>3. handler'[d] = handler[d]
      BY <1>1, <3>1
    <3> QED
      BY <2>1, <3>1, <3>2, <3>3 DEF Exchanged
  <2>2. CASE e # c
    <3>1. PICK t \in Tries : LET d == <<e[1], t>> IN
            /\ form[d] # NoForm /\ form[d].code = form[e].code
            /\ answer[d] # NoAnswer /\ answer[d].ok
            /\ \/ handler[d] \in {"badgateway", "gone"}
               \/ handler[d] = "relayed" /\ answer[d].body = "long"
      BY <1>1, <2>2 DEF CallInv, RejectionIsExplained
    <3>2. <<e[1], t>> \in Calls \ {c}
      BY <1>1, <3>1 DEF Calls
    <3> QED
      BY <1>1, <3>1, <3>2
  <2> QED
    BY <2>1, <2>2
<1> QED
  BY <1>2, <1>4, <1>5, <1>6 DEF CallInv

LEMMA CallInvStep == TypeOK /\ Inv /\ CallInv /\ [Next]_vars => CallInv'
<1> SUFFICES ASSUME TypeOK, Inv, CallInv, [Next]_vars PROVE CallInv'
  OBVIOUS
<1>1. ASSUME UNCHANGED tokenVars PROVE CallInv'
  BY <1>1, CallEnds DEF tokenVars
<1>2. ASSUME NEW f \in Flows,
             \/ StartLogin(f) \/ HandleAuthorizeAccept(f)
             \/ HandleAuthorizeRefuse(f) \/ ClientReceives(f)
      PROVE  CallInv'
  BY <1>1, <1>2 DEF StartLogin, HandleAuthorizeAccept, HandleAuthorizeRefuse, ClientReceives
<1>3. ASSUME NEW a \in upAuths, Consent(a) \/ Deny(a) PROVE CallInv'
  BY <1>1, <1>3 DEF Consent, Deny
<1>4. ASSUME NEW c \in callbacks, HandleCallbackAccept(c) \/ HandleCallbackRefuse(c) PROVE CallInv'
  BY <1>1, <1>4 DEF HandleCallbackAccept, HandleCallbackRefuse
<1>5. ASSUME NEW c \in Calls,
             \/ HandleTokenRefuse(c) \/ HandleTokenWithhold(c)
             \/ HandleTokenTimeout(c) \/ ClientHangsUp(c)
      PROVE  CallInv'
  <2>1. UNCHANGED <<form, answer, redeemed>>
    BY <1>5 DEF HandleTokenRefuse, HandleTokenWithhold, HandleTokenTimeout, ClientHangsUp
  <2>2. \A d \in Calls :
          \/ handler'[d] = handler[d]
          \/ handler[d] = "waiting" /\ handler'[d] \in {"badgateway", "gone"}
          \/ handler[d] = "idle" /\ handler'[d] = "refused"
    BY <1>5 DEF HandleTokenRefuse, HandleTokenWithhold, HandleTokenTimeout, ClientHangsUp, TypeOK
  <2> QED
    BY <2>1, <2>2, CallEnds
<1>6. CASE Restart
  <2>1. UNCHANGED <<form, answer, redeemed>>
    BY <1>6 DEF Restart
  <2>2. \A d \in Calls :
          \/ handler'[d] = handler[d]
          \/ handler[d] = "waiting" /\ handler'[d] \in {"badgateway", "gone"}
          \/ handler[d] = "idle" /\ handler'[d] = "refused"
    BY <1>6 DEF Restart
  <2> QED
    BY <2>1, <2>2, CallEnds
<1>7. CASE Tick \/ StepClock \/ UNCHANGED vars
  BY <1>1, <1>7 DEF Tick, StepClock, vars
<1> QED
  BY <1>2, <1>3, <1>4, <1>5, <1>6, <1>7, SendStep, AnswerStep, RelayStep DEF Next

\* The calls of one login follow each other, and a code is redeemed, or rejected, by a
\* call of its own login (HandleToken).
THEOREM CallInvHolds == Spec => []CallInv
BY InvInit, InvStep, TypeInit, TypeStep, CallInvInit, CallInvStep, PTL DEF Spec

\* A client whose code is turned down either posted another login's code or lost the
\* answer to the call that redeemed it (HandleToken).
THEOREM RejectionsAreExplained == Spec => []RejectionIsExplained
<1>1. CallInv => RejectionIsExplained
  BY DEF CallInv
<1> QED
  BY <1>1, CallInvHolds, PTL
=============================================================================
