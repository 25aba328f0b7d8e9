-------------------------- MODULE BrokerProxyProof --------------------------
(***************************************************************************)
(* What BrokerProxy guarantees for any number of logins, calls, restarts   *)
(* and clock steps.                                                        *)
(***************************************************************************)
EXTENDS BrokerProxy, TLAPS

(***************************************************************************)
(* Types.                                                                  *)
(***************************************************************************)

\* A blob the broker signs for a request has the type of a blob (signState).
LEMMA SignStateType ==
  ASSUME NEW f \in Flows, NEW n \in Nonces,
         TypeOK, req[f] # NoRequest
  PROVE  /\ UpstreamRedirect(f, n) \in UpAuth
         /\ UpstreamRedirect(f, n).blob.data.redirect = req[f].redirect
         /\ UpstreamRedirect(f, n).blob.data.state = req[f].state
<1>1. req[f] \in Request
  BY RequestAssumption DEF TypeOK, Request
<1>2. now \in Int
  BY ClockAssumption DEF TypeOK, now
<1>3. StateData(req[f], n) \in Data
  BY <1>1, <1>2 DEF StateData, Data, Request
<1>4. SignState(req[f], n) \in Blob
  BY <1>3 DEF SignState, StateMAC, Blob, TypeOK
<1>5. uptime \in Nat /\ key \in Nat /\ offset \in Int
  BY ClockAssumption DEF TypeOK
<1>6. UpstreamRedirect(f, n) \in UpAuth
  BY <1>4, <1>5 DEF UpstreamRedirect, UpAuth
<1> QED
  BY <1>6 DEF UpstreamRedirect, SignState, StateData

LEMMA CodeForType ==
  ASSUME NEW a \in UpAuth
  PROVE  CodeFor(a) \in Code /\ CodeFor(a) # NoCode
BY NullsAreNoValues DEF CodeFor, Code, UpAuth, Blob, Data

LEMMA ClientRedirectType ==
  ASSUME NEW c \in Callback, c.code # NoCode, uptime \in Nat, key \in Nat, offset \in Int
  PROVE  ClientRedirect(c) \in ToClient
BY DEF ClientRedirect, ToClient, Callback, Blob, Data

LEMMA FormType ==
  ASSUME TypeOK, NEW f \in Flows, NEW g \in TokenGrants
  PROVE  UpstreamForm(TokenRequest(f, g)) \in Form
<1>1. code[f] \in Code \union {NoCode}
  BY DEF TypeOK
<1> QED
  BY <1>1 DEF UpstreamForm, TokenRequest, Form

LEMMA AnswerType ==
  ASSUME NEW b \in Bodies, NEW o \in BOOLEAN
  PROVE  [ok |-> o, body |-> b] \in Answer
BY DEF Bodies, Answer

\* A code the upstream redeems was posted in a form, and is a code.
LEMMA RedeemedType ==
  ASSUME TypeOK, NEW c \in Calls, UpstreamGrant(c),
         form[c].grant = "authorization_code"
  PROVE  form[c].code \in Code
BY DEF UpstreamGrant, ExchangeValid, TypeOK, Callback

\* Initially every variable has its type.
LEMMA TypeInit == Init => TypeOK
<1> SUFFICES ASSUME Init PROVE TypeOK
  OBVIOUS
<1>1. uptime \in Nat /\ offset \in Offsets /\ key \in Nat
  BY ClockAssumption DEF Init
<1>2. /\ req \in [Flows -> Requests \union {NoRequest}]
      /\ code \in [Flows -> Code \union {NoCode}]
  BY DEF Init
<1>3. /\ handler \in [Calls -> {"idle", "waiting", "relayed", "badgateway", "refused", "gone"}]
      /\ form \in [Calls -> Form \union {NoForm}]
      /\ answer \in [Calls -> Answer \union {NoAnswer}]
  BY DEF Init
<1> QED
  BY <1>1, <1>2, <1>3 DEF Init, TypeOK

\* Every step keeps every variable in its type.
LEMMA TypeStep == TypeOK /\ [Next]_vars => TypeOK'
<1> SUFFICES ASSUME TypeOK, [Next]_vars PROVE TypeOK'
  OBVIOUS
<1> USE DEF clockVars, browserVars, tokenVars
<1>1. ASSUME NEW f \in Flows, StartLogin(f) PROVE TypeOK'
  BY <1>1 DEF StartLogin, TypeOK
<1>2. ASSUME NEW f \in Flows, HandleAuthorizeAccept(f) PROVE TypeOK'
  <2>1. PICK n \in Nonces : upAuths' = upAuths \union {UpstreamRedirect(f, n)}
    BY <1>2 DEF HandleAuthorizeAccept
  <2>2. UpstreamRedirect(f, n) \in UpAuth
    BY <1>2, SignStateType DEF HandleAuthorizeAccept
  <2>3. upAuths' \subseteq UpAuth
    BY <2>1, <2>2 DEF TypeOK
  <2> QED
    BY <1>2, <2>3 DEF HandleAuthorizeAccept, TypeOK
<1>3. ASSUME NEW f \in Flows, HandleAuthorizeRefuse(f) PROVE TypeOK'
  BY <1>3 DEF HandleAuthorizeRefuse, TypeOK
<1>4. ASSUME NEW f \in Flows, ClientReceives(f) PROVE TypeOK'
  <2>1. PICK r \in redirects : code' = [code EXCEPT ![f] = r.code]
    BY <1>4 DEF ClientReceives
  <2>2. r.code \in Code
    BY DEF TypeOK, ToClient
  <2> QED
    BY <1>4, <2>1, <2>2 DEF ClientReceives, TypeOK
<1>5. ASSUME NEW a \in upAuths, Consent(a) PROVE TypeOK'
  <2>1. a \in UpAuth /\ CodeFor(a) \in Code
    BY CodeForType DEF TypeOK
  <2>2. [code |-> CodeFor(a), blob |-> a.blob] \in Callback
    BY <2>1 DEF Callback, UpAuth
  <2> QED
    BY <1>5, <2>2 DEF Consent, TypeOK
<1>6. ASSUME NEW a \in upAuths, Deny(a) PROVE TypeOK'
  <2>1. [code |-> NoCode, blob |-> a.blob] \in Callback
    BY DEF TypeOK, Callback, UpAuth
  <2> QED
    BY <1>6, <2>1 DEF Deny, TypeOK
<1>7. ASSUME NEW c \in callbacks, HandleCallbackAccept(c) PROVE TypeOK'
  <2>1. ClientRedirect(c) \in ToClient
    BY <1>7, ClientRedirectType, ClockAssumption DEF HandleCallbackAccept, CallbackAccepts, TypeOK
  <2> QED
    BY <1>7, <2>1 DEF HandleCallbackAccept, TypeOK
<1>8. ASSUME NEW c \in callbacks, HandleCallbackRefuse(c) PROVE TypeOK'
  BY <1>8 DEF HandleCallbackRefuse, TypeOK
<1>9. ASSUME NEW c \in Calls, HandleTokenSend(c) PROVE TypeOK'
  <2>1. PICK g \in TokenGrants :
          form' = [form EXCEPT ![c] = UpstreamForm(TokenRequest(c[1], g))]
    BY <1>9 DEF HandleTokenSend
  <2>2. UpstreamForm(TokenRequest(c[1], g)) \in Form
    BY FormType DEF Calls
  <2> QED
    BY <1>9, <2>1, <2>2 DEF HandleTokenSend, TypeOK
<1>10. ASSUME NEW c \in Calls, HandleTokenRefuse(c) PROVE TypeOK'
  BY <1>10 DEF HandleTokenRefuse, TypeOK
<1>11. ASSUME NEW c \in Calls, UpstreamGrant(c) PROVE TypeOK'
  <2>1. PICK b \in Bodies : answer' = [answer EXCEPT ![c] = [ok |-> TRUE, body |-> b]]
    BY <1>11 DEF UpstreamGrant
  <2>2. [ok |-> TRUE, body |-> b] \in Answer
    BY AnswerType
  <2>3. redeemed' \subseteq Code
    BY <1>11, RedeemedType DEF UpstreamGrant, TypeOK
  <2> QED
    BY <1>11, <2>1, <2>2, <2>3 DEF UpstreamGrant, TypeOK
<1>12. ASSUME NEW c \in Calls, UpstreamReject(c) PROVE TypeOK'
  <2>1. PICK b \in Bodies : answer' = [answer EXCEPT ![c] = [ok |-> FALSE, body |-> b]]
    BY <1>12 DEF UpstreamReject
  <2>2. [ok |-> FALSE, body |-> b] \in Answer
    BY AnswerType
  <2> QED
    BY <1>12, <2>1, <2>2 DEF UpstreamReject, TypeOK
<1>13. ASSUME NEW c \in Calls,
              \/ HandleTokenRelay(c) \/ HandleTokenWithhold(c)
              \/ HandleTokenTimeout(c) \/ ClientHangsUp(c)
       PROVE  TypeOK'
  BY <1>13 DEF HandleTokenRelay, HandleTokenWithhold, HandleTokenTimeout, ClientHangsUp, TypeOK
<1>14. CASE Restart
  BY <1>14 DEF Restart, TypeOK
<1>15. CASE Tick
  BY <1>15 DEF Tick, TypeOK
<1>16. CASE StepClock
  BY <1>16 DEF StepClock, TypeOK
<1>17. CASE UNCHANGED vars
  BY <1>17 DEF vars, TypeOK
<1> QED
  BY <1>1, <1>2, <1>3, <1>4, <1>5, <1>6, <1>7, <1>8, <1>9, <1>10, <1>11, <1>12,
     <1>13, <1>14, <1>15, <1>16, <1>17 DEF Next

\* In every behaviour every variable holds what its comment in BrokerProxy says.
THEOREM TypeCorrect == Spec => []TypeOK
BY TypeInit, TypeStep, PTL DEF Spec

(***************************************************************************)
(* The inductive invariant.                                                *)
(***************************************************************************)

LEMMA InvInit == Init => Inv
BY DEF Init, Inv, SignedForItsLogin, CallbackOfARedirect, RedirectOfACallback,
       CodeFromItsRedirect, FormOfItsLogin, AnswerToAForm, RedeemedByItsLogin, Calls

\* A code that reaches a client carries the login and the challenge of the
\* request whose place it was sent to.
LEMMA RedirectFacts ==
  ASSUME TypeOK, Inv, NEW r \in redirects
  PROVE  /\ r.code \in Code /\ r.code # NoCode
         /\ r.code.challenge = r.code.flow
         /\ req[r.code.flow] # NoRequest
         /\ r.dest = req[r.code.flow].redirect
         /\ r.state = req[r.code.flow].state
<1>1. PICK c \in callbacks : /\ c.code # NoCode /\ r.code = c.code
                            /\ r.dest = c.blob.data.redirect
                            /\ r.state = c.blob.data.state
  BY DEF Inv, RedirectOfACallback
<1>2. PICK a \in upAuths : c.blob = a.blob /\ c.code = CodeFor(a)
  BY <1>1 DEF Inv, CallbackOfARedirect
<1>3. r.code.flow = a.flow /\ r.code.challenge = a.challenge
  BY <1>1, <1>2 DEF CodeFor
<1>4. r.code \in Code
  BY DEF TypeOK, ToClient
<1> QED
  BY <1>1, <1>2, <1>3, <1>4 DEF Inv, SignedForItsLogin

\* The code a client holds is its own when its challenge is.
LEMMA HeldCodeFacts ==
  ASSUME TypeOK, Inv, NEW f \in Flows, code[f] # NoCode,
         code[f].challenge \in {f, NoChallenge}
  PROVE  code[f].flow = f
<1>1. PICK r \in redirects : r.code = code[f]
  BY DEF Inv, CodeFromItsRedirect
<1>2. r.code.challenge = r.code.flow /\ r.code.flow \in Flows
  BY RedirectFacts DEF Code
<1> QED
  BY <1>1, <1>2, NullAssumption

\* Steps that touch the browser's messages only.
LEMMA BrowserStep ==
  ASSUME TypeOK, Inv, UNCHANGED tokenVars, UNCHANGED code,
         SignedForItsLogin', CallbackOfARedirect', RedirectOfACallback',
         redirects \subseteq redirects',
         \A f \in Flows : req[f] # NoRequest => req'[f] = req[f]
  PROVE  Inv'
<1>1. CodeFromItsRedirect'
  BY DEF Inv, CodeFromItsRedirect
<1>2. FormOfItsLogin' /\ AnswerToAForm' /\ RedeemedByItsLogin'
  BY DEF Inv, FormOfItsLogin, AnswerToAForm, RedeemedByItsLogin, tokenVars
<1> QED
  BY <1>1, <1>2 DEF Inv

\* Steps that touch the token calls only.
LEMMA TokenStep ==
  ASSUME TypeOK, Inv, UNCHANGED browserVars,
         FormOfItsLogin', AnswerToAForm', RedeemedByItsLogin'
  PROVE  Inv'
<1>1. SignedForItsLogin' /\ CallbackOfARedirect' /\ RedirectOfACallback'
  BY DEF Inv, SignedForItsLogin, CallbackOfARedirect, RedirectOfACallback, browserVars, CodeFor
<1>2. CodeFromItsRedirect'
  BY DEF Inv, CodeFromItsRedirect, browserVars
<1> QED
  BY <1>1, <1>2 DEF Inv

\* Steps that only move handlers: none becomes idle, and one is relayed only
\* when it has an answer.
LEMMA HandlerStep ==
  ASSUME TypeOK, Inv, UNCHANGED <<browserVars, form, answer, redeemed>>,
         \A c \in Calls :
           \/ handler'[c] = handler[c]
           \/ /\ handler'[c] # "idle"
              /\ handler'[c] = "relayed" => answer[c] # NoAnswer
  PROVE  Inv'
<1>1. FormOfItsLogin' /\ RedeemedByItsLogin'
  BY DEF Inv, FormOfItsLogin, RedeemedByItsLogin, browserVars
<1>2. AnswerToAForm'
  BY DEF Inv, AnswerToAForm
<1> QED
  BY <1>1, <1>2, TokenStep

LEMMA InvStep == TypeOK /\ Inv /\ [Next]_vars => Inv'
<1> SUFFICES ASSUME TypeOK, Inv, [Next]_vars PROVE Inv'
  OBVIOUS
<1>1. ASSUME NEW f \in Flows, StartLogin(f) PROVE Inv'
  <2>1. \A g \in Flows : req[g] # NoRequest => req'[g] = req[g]
    BY <1>1 DEF StartLogin, TypeOK
  <2>2. SignedForItsLogin'
    BY <1>1, <2>1 DEF StartLogin, Inv, SignedForItsLogin, TypeOK, UpAuth
  <2>3. CallbackOfARedirect' /\ RedirectOfACallback'
    BY <1>1 DEF StartLogin, Inv, CallbackOfARedirect, RedirectOfACallback, CodeFor
  <2> QED
    BY <1>1, <2>1, <2>2, <2>3, BrowserStep DEF StartLogin
<1>2. ASSUME NEW f \in Flows, HandleAuthorizeAccept(f) PROVE Inv'
  <2>1. PICK n \in Nonces : upAuths' = upAuths \union {UpstreamRedirect(f, n)}
    BY <1>2 DEF HandleAuthorizeAccept
  <2>2. /\ UpstreamRedirect(f, n).flow = f
        /\ UpstreamRedirect(f, n).challenge = f
        /\ UpstreamRedirect(f, n).blob.data.redirect = req[f].redirect
        /\ UpstreamRedirect(f, n).blob.data.state = req[f].state
    BY <1>2, SignStateType DEF HandleAuthorizeAccept, UpstreamRedirect
  <2>3. SignedForItsLogin'
    BY <1>2, <2>1, <2>2 DEF HandleAuthorizeAccept, Inv, SignedForItsLogin
  <2>4. CallbackOfARedirect' /\ RedirectOfACallback'
    BY <1>2, <2>1 DEF HandleAuthorizeAccept, Inv, CallbackOfARedirect, RedirectOfACallback, CodeFor
  <2> QED
    BY <1>2, <2>3, <2>4, BrowserStep DEF HandleAuthorizeAccept
<1>3. ASSUME NEW f \in Flows, HandleAuthorizeRefuse(f) PROVE Inv'
  <2>1. SignedForItsLogin' /\ CallbackOfARedirect' /\ RedirectOfACallback'
    BY <1>3 DEF HandleAuthorizeRefuse, Inv, SignedForItsLogin, CallbackOfARedirect,
                RedirectOfACallback, CodeFor
  <2> QED
    BY <1>3, <2>1, BrowserStep DEF HandleAuthorizeRefuse
<1>4. ASSUME NEW f \in Flows, ClientReceives(f) PROVE Inv'
  <2>1. PICK r \in redirects :
          /\ req[f] # NoRequest /\ r.dest = req[f].redirect
          /\ code' = [code EXCEPT ![f] = r.code]
    BY <1>4 DEF ClientReceives
  <2>2. \A g \in Flows : code[g] # NoCode => code'[g] = code[g]
    BY <1>4, <2>1 DEF ClientReceives, TypeOK
  <2>3. SignedForItsLogin' /\ CallbackOfARedirect' /\ RedirectOfACallback'
    BY <1>4 DEF ClientReceives, Inv, SignedForItsLogin, CallbackOfARedirect,
                RedirectOfACallback, CodeFor
  <2>4. CodeFromItsRedirect'
    BY <1>4, <2>1 DEF ClientReceives, Inv, CodeFromItsRedirect, TypeOK
  <2>5. FormOfItsLogin' /\ AnswerToAForm'
    BY <1>4, <2>2 DEF ClientReceives, Inv, FormOfItsLogin, AnswerToAForm, tokenVars, Calls
  <2>6. RedeemedByItsLogin'
    BY <1>4, <2>2, NullsAreNoValues DEF ClientReceives, Inv, RedeemedByItsLogin, tokenVars, TypeOK, Code
  <2> QED
    BY <2>3, <2>4, <2>5, <2>6 DEF Inv
<1>5. ASSUME NEW a \in upAuths, Consent(a) \/ Deny(a) PROVE Inv'
  <2>1. PICK k \in {NoCode, CodeFor(a)} :
          callbacks' = callbacks \union {[code |-> k, blob |-> a.blob]}
    BY <1>5 DEF Consent, Deny
  <2>2. CallbackOfARedirect'
    BY <1>5, <2>1 DEF Consent, Deny, Inv, CallbackOfARedirect, CodeFor
  <2>3. SignedForItsLogin' /\ RedirectOfACallback'
    BY <1>5, <2>1 DEF Consent, Deny, Inv, SignedForItsLogin, RedirectOfACallback
  <2> QED
    BY <1>5, <2>2, <2>3, BrowserStep DEF Consent, Deny
<1>6. ASSUME NEW c \in callbacks, HandleCallbackAccept(c) PROVE Inv'
  <2>1. RedirectOfACallback'
    BY <1>6 DEF HandleCallbackAccept, CallbackAccepts, ClientRedirect, Inv, RedirectOfACallback
  <2>2. SignedForItsLogin' /\ CallbackOfARedirect'
    BY <1>6 DEF HandleCallbackAccept, Inv, SignedForItsLogin, CallbackOfARedirect, CodeFor
  <2> QED
    BY <1>6, <2>1, <2>2, BrowserStep DEF HandleCallbackAccept
<1>7. ASSUME NEW c \in callbacks, HandleCallbackRefuse(c) PROVE Inv'
  <2>1. SignedForItsLogin' /\ CallbackOfARedirect' /\ RedirectOfACallback'
    BY <1>7 DEF HandleCallbackRefuse, Inv, SignedForItsLogin, CallbackOfARedirect,
                RedirectOfACallback, CodeFor
  <2> QED
    BY <1>7, <2>1, BrowserStep DEF HandleCallbackRefuse
<1>8. ASSUME NEW c \in Calls, HandleTokenSend(c) PROVE Inv'
  <2>1. PICK g \in TokenGrants :
          /\ Posts(c[1], g)
          /\ form' = [form EXCEPT ![c] = UpstreamForm(TokenRequest(c[1], g))]
    BY <1>8 DEF HandleTokenSend
  <2>2. UpstreamForm(TokenRequest(c[1], g)) \in Form /\ c[1] \in Flows
    BY FormType DEF Calls
  <2>3. form'[c] # NoForm /\ \A d \in Calls \ {c} : form'[d] = form[d]
    BY <2>1, <2>2, NullsAreNoValues DEF TypeOK
  <2>4. form'[c].grant = "authorization_code" =>
          /\ form'[c].code = code[c[1]] /\ form'[c].code # NoCode
          /\ form'[c].verifier = c[1]
    BY <2>1 DEF TypeOK, UpstreamForm, TokenRequest, Posts
  <2>5. FormOfItsLogin'
    BY <1>8, <2>3, <2>4 DEF HandleTokenSend, Inv, FormOfItsLogin, browserVars
  <2>6. answer[c] = NoAnswer
    BY <1>8 DEF HandleTokenSend, Inv, AnswerToAForm
  <2>7. handler'[c] = "waiting" /\ \A d \in Calls \ {c} : handler'[d] = handler[d]
    BY <1>8 DEF HandleTokenSend, TypeOK
  <2>8. AnswerToAForm'
    BY <1>8, <2>3, <2>6, <2>7 DEF HandleTokenSend, Inv, AnswerToAForm
  <2>9. RedeemedByItsLogin'
    BY <1>8 DEF HandleTokenSend, Inv, RedeemedByItsLogin, browserVars
  <2> QED
    BY <1>8, <2>5, <2>8, <2>9, TokenStep DEF HandleTokenSend
<1>9. ASSUME NEW c \in Calls, UpstreamGrant(c) PROVE Inv'
  <2>1. PICK b \in Bodies : answer' = [answer EXCEPT ![c] = [ok |-> TRUE, body |-> b]]
    BY <1>9 DEF UpstreamGrant
  <2>2. /\ answer'[c] # NoAnswer
        /\ \A d \in Calls \ {c} : answer'[d] = answer[d]
    BY <2>1, AnswerType, NullsAreNoValues DEF TypeOK
  <2>3. redeemed \subseteq redeemed'
    BY <1>9 DEF UpstreamGrant
  <2>4. form[c].grant = "authorization_code" =>
          /\ redeemed' = redeemed \union {form[c].code}
          /\ form[c].code.challenge \in {form[c].verifier, NoChallenge}
    BY <1>9 DEF UpstreamGrant, ExchangeValid
  <2>5. form[c] # NoForm /\ UNCHANGED <<form, handler, browserVars>>
    BY <1>9 DEF UpstreamGrant
  <2>6. AnswerToAForm'
    BY <2>2, <2>3, <2>4, <2>5 DEF Inv, AnswerToAForm
  <2>7. FormOfItsLogin'
    BY <2>5 DEF Inv, FormOfItsLogin, browserVars
  <2>8. RedeemedByItsLogin'
    <3>1. CASE form[c].grant = "authorization_code"
      <4>1. /\ form[c].code = code[c[1]] /\ form[c].code # NoCode
            /\ form[c].verifier = c[1] /\ c[1] \in Flows
        BY <2>5, <3>1 DEF Inv, FormOfItsLogin, Calls
      <4>2. form[c].code.flow = c[1]
        BY <2>4, <3>1, <4>1, HeldCodeFacts
      <4> QED
        BY <2>4, <2>5, <3>1, <4>1, <4>2 DEF Inv, RedeemedByItsLogin, browserVars
    <3>2. CASE form[c].grant # "authorization_code"
      BY <1>9, <3>2 DEF UpstreamGrant, Inv, RedeemedByItsLogin, browserVars
    <3> QED
      BY <3>1, <3>2
  <2> QED
    BY <2>5, <2>6, <2>7, <2>8, TokenStep
<1>10. ASSUME NEW c \in Calls, UpstreamReject(c) PROVE Inv'
  <2>1. PICK b \in Bodies : answer' = [answer EXCEPT ![c] = [ok |-> FALSE, body |-> b]]
    BY <1>10 DEF UpstreamReject
  <2>2. /\ answer'[c] # NoAnswer /\ ~answer'[c].ok
        /\ \A d \in Calls \ {c} : answer'[d] = answer[d]
    BY <2>1, AnswerType, NullsAreNoValues DEF TypeOK
  <2>3. form[c] # NoForm /\ UNCHANGED <<form, handler, browserVars, redeemed>>
    BY <1>10 DEF UpstreamReject
  <2>4. AnswerToAForm'
    BY <2>2, <2>3 DEF Inv, AnswerToAForm
  <2>5. FormOfItsLogin' /\ RedeemedByItsLogin'
    BY <2>3 DEF Inv, FormOfItsLogin, RedeemedByItsLogin, browserVars
  <2> QED
    BY <2>3, <2>4, <2>5, TokenStep
<1>11. ASSUME NEW c \in Calls,
              \/ HandleTokenRelay(c) \/ HandleTokenWithhold(c)
              \/ HandleTokenTimeout(c) \/ ClientHangsUp(c) \/ HandleTokenRefuse(c)
       PROVE  Inv'
  <2>1. \A d \in Calls :
           \/ handler'[d] = handler[d]
           \/ /\ handler'[d] # "idle"
              /\ handler'[d] = "relayed" => answer[d] # NoAnswer
    BY <1>11 DEF HandleTokenRelay, HandleTokenWithhold, HandleTokenTimeout,
                 ClientHangsUp, HandleTokenRefuse, TypeOK
  <2>2. UNCHANGED <<browserVars, form, answer, redeemed>>
    BY <1>11 DEF HandleTokenRelay, HandleTokenWithhold, HandleTokenTimeout,
                 ClientHangsUp, HandleTokenRefuse
  <2> QED
    BY <2>1, <2>2, HandlerStep
<1>12. CASE Restart
  BY <1>12, HandlerStep DEF Restart, TypeOK
<1>13. CASE Tick \/ StepClock \/ UNCHANGED vars
  BY <1>13, HandlerStep DEF Tick, StepClock, vars, tokenVars
<1> QED
  BY <1>1, <1>2, <1>3, <1>4, <1>5, <1>6, <1>7, <1>8, <1>9, <1>10, <1>11, <1>12, <1>13 DEF Next

\* Every message, form and answer belongs to the login it says it belongs to.
THEOREM InvHolds == Spec => []Inv
<1>1. Init => TypeOK /\ Inv
  BY TypeInit, InvInit
<1>2. TypeOK /\ Inv /\ [Next]_vars => (TypeOK /\ Inv)'
  BY TypeStep, InvStep
<1> QED
  BY <1>1, <1>2, PTL DEF Spec

\* A code is carried only to the redirect URI and with the state of the client
\* whose login the user approved.
THEOREM CodeStaysHome == Spec => []CodeGoesToAskingClient
<1>1. TypeOK /\ Inv => CodeGoesToAskingClient
  BY RedirectFacts DEF CodeGoesToAskingClient
<1> QED
  BY <1>1, TypeCorrect, InvHolds, PTL

\* Tokens are relayed only for the login whose client asks, also when clients
\* take each other's codes.
THEOREM TokensStayHome == Spec => []TokensOnlyForOwnLogin
<1>1. TypeOK /\ Inv => TokensOnlyForOwnLogin
  <2> SUFFICES ASSUME TypeOK, Inv, NEW c \in Calls,
                      handler[c] = "relayed", answer[c].ok,
                      form[c].grant = "authorization_code"
               PROVE  /\ form[c].code.flow = c[1]
                      /\ \E r \in redirects : r.code = form[c].code /\ r.dest = req[c[1]].redirect
    BY DEF TokensOnlyForOwnLogin
  <2>1. /\ form[c] # NoForm
        /\ form[c].code.challenge \in {form[c].verifier, NoChallenge}
    BY DEF Inv, AnswerToAForm
  <2>2. /\ form[c].code = code[c[1]] /\ form[c].code # NoCode
        /\ form[c].verifier = c[1] /\ c[1] \in Flows
    BY <2>1 DEF Inv, FormOfItsLogin, Calls
  <2>3. form[c].code.flow = c[1]
    BY <2>1, <2>2, HeldCodeFacts
  <2> QED
    BY <2>2, <2>3 DEF Inv, CodeFromItsRedirect
<1> QED
  BY <1>1, TypeCorrect, InvHolds, PTL

(***************************************************************************)
(* The broker keeps the promise of AuthCodeFlow.                           *)
(***************************************************************************)

\* The code in an authorization_code form that the upstream redeems is the one
\* issued for the calling client's login.
LEMMA GrantFacts ==
  ASSUME TypeOK, Inv, NEW c \in Calls, UpstreamGrant(c),
         form[c].grant = "authorization_code"
  PROVE  /\ c[1] \in Flows
         /\ form[c].code = code[c[1]] /\ code[c[1]] # NoCode
         /\ form[c].code.flow = c[1]
<1>1. /\ form[c].code = code[c[1]] /\ form[c].code # NoCode
      /\ form[c].verifier = c[1] /\ c[1] \in Flows
  BY DEF UpstreamGrant, Inv, FormOfItsLogin, Calls
<1>2. form[c].code.challenge \in {c[1], NoChallenge}
  BY <1>1 DEF UpstreamGrant, ExchangeValid
<1> QED
  BY <1>1, <1>2, HeldCodeFacts

LEMMA TokenInvInit == Init => TokenInv
BY DEF Init, TokenInv, RefreshOfItsLogin, TokensOfARedeemedCode

LEMMA TokenInvStep == TypeOK /\ Inv /\ TokenInv /\ [Next]_vars => TokenInv'
<1> SUFFICES ASSUME TypeOK, Inv, TokenInv, [Next]_vars PROVE TokenInv'
  OBVIOUS
<1>1. ASSUME UNCHANGED <<form, answer, redeemed>> PROVE TokenInv'
  BY <1>1 DEF TokenInv, RefreshOfItsLogin, TokensOfARedeemedCode
<1>2. ASSUME NEW c \in Calls, HandleTokenSend(c) PROVE TokenInv'
  <2>1. PICK g \in TokenGrants :
          form' = [form EXCEPT ![c] = UpstreamForm(TokenRequest(c[1], g))]
    BY <1>2 DEF HandleTokenSend
  <2>2. RefreshOfItsLogin'
    BY <2>1 DEF TokenInv, RefreshOfItsLogin, TypeOK, UpstreamForm, TokenRequest
  <2>3. TokensOfARedeemedCode'
    BY <1>2 DEF HandleTokenSend, TokenInv, TokensOfARedeemedCode
  <2> QED
    BY <2>2, <2>3 DEF TokenInv
<1>3. ASSUME NEW c \in Calls, UpstreamGrant(c) PROVE TokenInv'
  <2>1. PICK b \in Bodies : answer' = [answer EXCEPT ![c] = [ok |-> TRUE, body |-> b]]
    BY <1>3 DEF UpstreamGrant
  <2>2. redeemed \subseteq redeemed'
    BY <1>3 DEF UpstreamGrant
  <2>3. \E k \in redeemed' : k.flow = c[1]
    <3>1. CASE form[c].grant = "authorization_code"
      BY <1>3, <3>1, GrantFacts DEF UpstreamGrant
    <3>2. CASE form[c].grant = "refresh_token"
      <4>1. form[c].refresh = c[1]
        BY <1>3, <3>2 DEF UpstreamGrant, TokenInv, RefreshOfItsLogin
      <4>2. \E k \in redeemed : k.flow = form[c].refresh
        BY <1>3, <3>2 DEF UpstreamGrant, ExchangeValid
      <4> QED
        BY <2>2, <4>1, <4>2
    <3> QED
      BY <1>3, <3>1, <3>2 DEF UpstreamGrant, ExchangeValid
  <2>4. TokensOfARedeemedCode'
    BY <2>1, <2>2, <2>3 DEF TokenInv, TokensOfARedeemedCode, TypeOK
  <2>5. RefreshOfItsLogin'
    BY <1>3 DEF UpstreamGrant, TokenInv, RefreshOfItsLogin
  <2> QED
    BY <2>4, <2>5 DEF TokenInv
<1>4. ASSUME NEW c \in Calls, UpstreamReject(c) PROVE TokenInv'
  <2>1. PICK b \in Bodies : answer' = [answer EXCEPT ![c] = [ok |-> FALSE, body |-> b]]
    BY <1>4 DEF UpstreamReject
  <2>2. TokensOfARedeemedCode'
    BY <1>4, <2>1 DEF UpstreamReject, TokenInv, TokensOfARedeemedCode, TypeOK
  <2>3. RefreshOfItsLogin'
    BY <1>4 DEF UpstreamReject, TokenInv, RefreshOfItsLogin
  <2> QED
    BY <2>2, <2>3 DEF TokenInv
<1> QED
  BY <1>1, <1>2, <1>3, <1>4 DEF Next, vars, tokenVars, StartLogin, HandleAuthorizeAccept,
     HandleAuthorizeRefuse, ClientReceives, Consent, Deny, HandleCallbackAccept,
     HandleCallbackRefuse, HandleTokenRefuse, HandleTokenRelay, HandleTokenWithhold,
     HandleTokenTimeout, ClientHangsUp, Restart, Tick, StepClock

\* A step that hands out no answer grants nothing.
LEMMA GrantedSame ==
  ASSUME TypeOK, Inv,
         \A c \in Calls :
           \/ handler'[c] = handler[c] /\ answer'[c] = answer[c]
           \/ handler[c] # "relayed" /\ handler'[c] # "relayed"
  PROVE  Granted' = Granted
BY DEF Granted, HasTokens, Calls

\* Every step is a step of the promise or leaves what it speaks of alone.
LEMMA FlowStep == TypeOK /\ Inv /\ TokenInv /\ [Next]_vars => [Flow!Next]_(Flow!vars)
<1> SUFFICES ASSUME TypeOK, Inv, TokenInv, [Next]_vars
             PROVE  Flow!Next \/ UNCHANGED Flow!vars
  OBVIOUS
<1>1. ASSUME UNCHANGED <<upAuths, callbacks, code, redeemed>>,
             Granted' = Granted
      PROVE  UNCHANGED Flow!vars
  BY <1>1 DEF Flow!vars, Asked, Approved, Delivered, Redeemed
<1>2. ASSUME NEW f \in Flows, HandleAuthorizeAccept(f) PROVE Flow!Next
  <2>1. PICK n \in Nonces : upAuths' = upAuths \union {UpstreamRedirect(f, n)}
    BY <1>2 DEF HandleAuthorizeAccept
  <2>2. UpstreamRedirect(f, n).flow = f
    BY DEF UpstreamRedirect
  <2>3. Asked' = Asked \union {f}
    BY <2>1, <2>2 DEF Asked
  <2>4. Granted' = Granted
    BY <1>2, GrantedSame DEF HandleAuthorizeAccept, tokenVars
  <2>5. UNCHANGED <<Approved, Delivered, Redeemed>>
    BY <1>2 DEF HandleAuthorizeAccept, Approved, Delivered, Redeemed, tokenVars
  <2> QED
    BY <2>3, <2>4, <2>5 DEF Flow!Next, Flow!Ask
<1>3. ASSUME NEW a \in upAuths, Consent(a) PROVE Flow!Next
  <2>1. a.flow \in Asked /\ a.flow \in Flows
    BY DEF Asked, TypeOK, UpAuth
  <2>2. CodeFor(a).flow = a.flow /\ CodeFor(a) # NoCode
    BY CodeForType DEF CodeFor, TypeOK
  <2>3. Approved' = Approved \union {a.flow}
    <3> DEFINE cb == [code |-> CodeFor(a), blob |-> a.blob]
    <3>1. cb.code = CodeFor(a) /\ callbacks' = callbacks \union {cb}
      BY <1>3 DEF Consent
    <3>2. {d \in callbacks' : d.code # NoCode} = {d \in callbacks : d.code # NoCode} \union {cb}
      BY <2>2, <3>1
    <3> HIDE DEF cb
    <3> QED
      BY <2>2, <3>1, <3>2 DEF Approved
  <2>4. Granted' = Granted
    BY <1>3, GrantedSame DEF Consent, tokenVars
  <2>5. UNCHANGED <<Asked, Delivered, Redeemed>>
    BY <1>3 DEF Consent, Asked, Delivered, Redeemed, tokenVars
  <2> QED
    BY <2>1, <2>3, <2>4, <2>5 DEF Flow!Next, Flow!Approve
<1>4. ASSUME NEW a \in upAuths, Deny(a) PROVE UNCHANGED Flow!vars
  <2>1. Approved' = Approved
    BY <1>4 DEF Deny, Approved
  <2>2. Granted' = Granted
    BY <1>4, GrantedSame DEF Deny, tokenVars
  <2> QED
    BY <1>4, <2>1, <2>2 DEF Deny, Flow!vars, Asked, Delivered, Redeemed, tokenVars
<1>5. ASSUME NEW f \in Flows, ClientReceives(f) PROVE Flow!Next \/ UNCHANGED Flow!vars
  <2>1. PICK r \in redirects : code' = [code EXCEPT ![f] = r.code]
    BY <1>5 DEF ClientReceives
  <2>2. PICK c \in callbacks : c.code # NoCode /\ r.code = c.code
    BY DEF Inv, RedirectOfACallback
  <2>3. r.code.flow \in Approved
    BY <2>2 DEF Approved
  <2>4. Delivered' = IF r.code.flow = f THEN Delivered \union {f} ELSE Delivered
    BY <1>5, <2>1, <2>2 DEF ClientReceives, Delivered, TypeOK
  <2>5. Granted' = Granted
    BY <1>5, GrantedSame DEF ClientReceives, tokenVars
  <2>6. UNCHANGED <<Asked, Approved, Redeemed>>
    BY <1>5 DEF ClientReceives, Asked, Approved, Redeemed, tokenVars
  <2>7. CASE r.code.flow = f
    BY <2>3, <2>4, <2>5, <2>6, <2>7 DEF Flow!Next, Flow!Deliver
  <2>8. CASE r.code.flow # f
    BY <2>4, <2>5, <2>6, <2>8 DEF Flow!vars
  <2> QED
    BY <2>7, <2>8
<1>6. ASSUME NEW c \in Calls, UpstreamGrant(c) PROVE Flow!Next \/ UNCHANGED Flow!vars
  <2>1. handler[c] # "relayed"
    BY <1>6 DEF UpstreamGrant, Inv, AnswerToAForm
  <2>2. \A d \in Calls \ {c} : answer'[d] = answer[d]
    BY <1>6 DEF UpstreamGrant, TypeOK
  <2>3. Granted' = Granted
    BY <1>6, <2>1, <2>2, GrantedSame DEF UpstreamGrant
  <2>4. UNCHANGED <<Asked, Approved, Delivered>>
    BY <1>6 DEF UpstreamGrant, browserVars, Asked, Approved, Delivered
  <2>5. CASE form[c].grant = "authorization_code"
    <3>1. c[1] \in Flows /\ form[c].code.flow = c[1] /\ c[1] \in Delivered
      BY <1>6, <2>5, GrantFacts DEF Delivered
    <3>2. Redeemed' = Redeemed \union {c[1]}
      BY <1>6, <2>5, <3>1 DEF UpstreamGrant, Redeemed
    <3> QED
      BY <2>3, <2>4, <3>1, <3>2 DEF Flow!Next, Flow!Redeem
  <2>6. CASE form[c].grant # "authorization_code"
    BY <1>6, <2>3, <2>4, <2>6 DEF UpstreamGrant, Redeemed, Flow!vars
  <2> QED
    BY <2>5, <2>6
<1>7. ASSUME NEW c \in Calls, UpstreamReject(c) PROVE UNCHANGED Flow!vars
  <2>1. handler[c] # "relayed"
    BY <1>7 DEF UpstreamReject, Inv, AnswerToAForm
  <2>2. \A d \in Calls \ {c} : answer'[d] = answer[d]
    BY <1>7 DEF UpstreamReject, TypeOK
  <2>3. Granted' = Granted
    BY <1>7, <2>1, <2>2, GrantedSame DEF UpstreamReject
  <2> QED
    BY <1>1, <1>7, <2>3 DEF UpstreamReject, browserVars
<1>8. ASSUME NEW c \in Calls, HandleTokenRelay(c) PROVE Flow!Next \/ UNCHANGED Flow!vars
  <2>1. /\ c[1] \in Flows /\ c[2] \in Tries /\ c = <<c[1], c[2]>>
        /\ \A d \in Calls \ {c} : handler'[d] = handler[d]
        /\ handler[c] = "waiting" /\ handler'[c] = "relayed"
    BY <1>8 DEF HandleTokenRelay, TypeOK, Calls
  <2>2. UNCHANGED <<Asked, Approved, Delivered, Redeemed>>
    BY <1>8 DEF HandleTokenRelay, browserVars, Asked, Approved, Delivered, Redeemed
  <2>3. CASE answer[c].ok /\ answer[c].body = "plain"
    <3>1. c[1] \in Redeemed
      BY <1>8, <2>3 DEF HandleTokenRelay, TokenInv, TokensOfARedeemedCode, Redeemed
    <3>2. HasTokens(c[1])'
      BY <1>8, <2>1, <2>3 DEF HandleTokenRelay, HasTokens
    <3>3. ASSUME NEW f \in Flows \ {c[1]} PROVE HasTokens(f)' <=> HasTokens(f)
      <4>1. \A t \in Tries : <<f, t>> \in Calls \ {c}
        BY <2>1 DEF Calls
      <4>2. \A t \in Tries : handler'[<<f, t>>] = handler[<<f, t>>]
        BY <2>1, <4>1
      <4>3. answer' = answer
        BY <1>8 DEF HandleTokenRelay
      <4> QED
        BY <4>2, <4>3 DEF HasTokens
    <3>4. Granted' = Granted \union {c[1]}
      BY <2>1, <3>2, <3>3 DEF Granted
    <3> QED
      BY <2>1, <2>2, <3>1, <3>4 DEF Flow!Next, Flow!Grant
  <2>4. CASE ~(answer[c].ok /\ answer[c].body = "plain")
    <3>1. \A f \in Flows : HasTokens(f)' <=> HasTokens(f)
      BY <1>8, <2>1, <2>4 DEF HandleTokenRelay, HasTokens, Calls
    <3>2. Granted' = Granted
      BY <3>1 DEF Granted
    <3> QED
      BY <2>2, <3>2 DEF Flow!vars
  <2> QED
    BY <2>3, <2>4
<1>9. ASSUME UNCHANGED <<upAuths, callbacks, code, redeemed, handler, answer>>
      PROVE  UNCHANGED Flow!vars
  BY <1>1, <1>9, GrantedSame
<1>10. ASSUME UNCHANGED <<upAuths, callbacks, code, redeemed, answer>>,
              \A c \in Calls :
                    handler'[c] = handler[c] \/ (handler[c] # "relayed" /\ handler'[c] # "relayed")
       PROVE  UNCHANGED Flow!vars
  BY <1>1, <1>10, GrantedSame
<1>11. ASSUME NEW c \in Calls,
              \/ HandleTokenSend(c) \/ HandleTokenRefuse(c) \/ HandleTokenWithhold(c)
              \/ HandleTokenTimeout(c) \/ ClientHangsUp(c)
       PROVE  UNCHANGED Flow!vars
  <2>1. UNCHANGED <<upAuths, callbacks, code, redeemed, answer>>
    BY <1>11 DEF HandleTokenSend, HandleTokenRefuse, HandleTokenWithhold,
       HandleTokenTimeout, ClientHangsUp, browserVars
  <2>2. handler[c] # "relayed" /\ handler'[c] # "relayed"
    BY <1>11 DEF HandleTokenSend, HandleTokenRefuse, HandleTokenWithhold,
       HandleTokenTimeout, ClientHangsUp, TypeOK
  <2>3. \A d \in Calls \ {c} : handler'[d] = handler[d]
    BY <1>11 DEF HandleTokenSend, HandleTokenRefuse, HandleTokenWithhold,
       HandleTokenTimeout, ClientHangsUp, TypeOK
  <2>4. \A d \in Calls :
        handler'[d] = handler[d] \/ (handler[d] # "relayed" /\ handler'[d] # "relayed")
    BY <2>2, <2>3
  <2> QED
    BY <1>10, <2>1, <2>4
<1>12. ASSUME Restart PROVE UNCHANGED Flow!vars
  <2>1. \A c \in Calls :
        handler'[c] = handler[c] \/ (handler[c] # "relayed" /\ handler'[c] # "relayed")
    <3> SUFFICES ASSUME NEW c \in Calls, handler'[c] # handler[c]
                 PROVE  handler[c] = "waiting" /\ handler'[c] = "gone"
      OBVIOUS
    <3> QED
      BY <1>12 DEF Restart
  <2>2. UNCHANGED <<upAuths, callbacks, code, redeemed, answer>>
    BY <1>12 DEF Restart, browserVars
  <2> QED
    BY <1>10, <2>1, <2>2
<1>13. ASSUME NEW f \in Flows, StartLogin(f) \/ HandleAuthorizeRefuse(f)
       PROVE  UNCHANGED Flow!vars
  BY <1>9, <1>13 DEF StartLogin, HandleAuthorizeRefuse, tokenVars
<1>14. ASSUME NEW c \in callbacks, HandleCallbackAccept(c) \/ HandleCallbackRefuse(c)
       PROVE  UNCHANGED Flow!vars
  BY <1>9, <1>14 DEF HandleCallbackAccept, HandleCallbackRefuse, tokenVars
<1>15. CASE Tick \/ StepClock
  BY <1>9, <1>15 DEF Tick, StepClock, browserVars, tokenVars
<1>16. CASE UNCHANGED vars
  BY <1>9, <1>16 DEF vars, browserVars, tokenVars
<1> QED
  BY <1>2, <1>3, <1>4, <1>5, <1>6, <1>7, <1>8, <1>11, <1>12, <1>13, <1>14, <1>15,
     <1>16 DEF Next

\* The broker implements the promise: approval, delivery, exchange and grant
\* follow one another, each for the login that asked.
THEOREM KeepsItsPromise == Spec => ImplementsAuthCodeFlow
<1>1. Init => Flow!Init
  BY DEF Init, Flow!Init, Asked, Approved, Delivered, Redeemed, Granted, HasTokens, Calls
<1>2. Init => TypeOK /\ Inv /\ TokenInv
  BY TypeInit, InvInit, TokenInvInit
<1>3. TypeOK /\ Inv /\ TokenInv /\ [Next]_vars => (TypeOK /\ Inv /\ TokenInv)'
  BY TypeStep, InvStep, TokenInvStep
<1> QED
  BY <1>1, <1>2, <1>3, FlowStep, PTL DEF Spec, ImplementsAuthCodeFlow, Flow!Spec
=============================================================================
