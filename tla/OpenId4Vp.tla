------------------------------ MODULE OpenId4Vp ------------------------------
(***************************************************************************)
(* packages/openid4vc/src/index.ts, OpenID4VP with direct_post: what a     *)
(* wallet makes of a request, and what a verifier makes of the response.   *)
(* The verifier is apps/verifier-demo/src/index.ts.                        *)
(*                                                                         *)
(* A nonce is named after the state it was drawn with.  Responses travel   *)
(* over the network: one may arrive twice, late, or from someone else.     *)
(***************************************************************************)
EXTENDS CallSlots

CONSTANTS
    VpOrigins,           \* https origins of verifiers
    VpVerifier,          \* VERIFIER_CLIENT_ID
    VpStates,            \* random, so never drawn twice
    VpSessionIds,
    VpResolvable         \* client ids that the resolveVerifier hook confirms

VARIABLES
    vpRequests,          \* VerifierDemo.requests: states that wait for a response
    vpSessions,          \* VerifierDemo.sessions
    vpCalls,             \* slot -> callback that awaits verifyVpToken
    vpTokens,            \* tokens that wallets have sent, wherever to
    vpDrawn,             \* history: states drawn
    vpGranted,           \* history: session -> [state, token]
    vpReads              \* history: session -> how often it was read

vpVars == <<vpRequests, vpSessions, vpCalls, vpTokens, vpDrawn, vpGranted, vpReads>>
-----------------------------------------------------------------------------
(* The wallet's side.                                                      *)

RequestTrustHooks ==
    {"verifySignedRequest", "fetchRequestUri", "resolveVerifier", "validateTransactionData"}

\* A request as it comes: `unique` when no parameter is repeated, `sound` when the
\* hooks that look at it (signature, transaction data) are satisfied.
RequestInput ==
    [via : {"object", "parameters", "request", "request_uri"}, unique : BOOLEAN,
     sound : BOOLEAN, transaction : BOOLEAN,
     clientId : VpOrigins, responseUri : VpOrigins, state : VpStates]

OpenId4VpRequest == [clientId : VpOrigins, responseUri : VpOrigins, state : VpStates]

\* The claims are taken as they are, or from a request object whose signature a
\* hook has to check.
ReadsClaims(input, hooks) ==
    CASE input.via = "object" -> TRUE
      [] input.via = "parameters" -> input.unique
      [] input.via = "request" -> input.unique /\ "verifySignedRequest" \in hooks /\ input.sound
      [] input.via = "request_uri" ->
            input.unique /\ {"fetchRequestUri", "verifySignedRequest"} \subseteq hooks /\ input.sound

AcceptsClaims(input, hooks) ==
    /\ "resolveVerifier" \in hooks => input.clientId \in VpResolvable
    /\ input.transaction => "validateTransactionData" \in hooks /\ input.sound

ParseOpenId4VpRequest(input, hooks) ==
    IF ReadsClaims(input, hooks) /\ AcceptsClaims(input, hooks)
    THEN [clientId |-> input.clientId, responseUri |-> input.responseUri,
          state |-> input.state]
    ELSE None

\* The token that a wallet makes for a request: bound to its client id and nonce.
VpToken == [audience : VpOrigins, nonce : VpStates]

CreateVpToken(request) == [audience |-> request.clientId, nonce |-> request.state]
-----------------------------------------------------------------------------
(* The verifier.                                                           *)

VpInit ==
    /\ vpRequests = {} /\ vpSessions = {} /\ vpCalls = EmptyMap
    /\ vpTokens = {} /\ vpDrawn = {} /\ vpGranted = EmptyMap /\ vpReads = EmptyMap

\* createRequest, buildOpenId4VpRequest
CreateRequest(state) ==
    /\ state \notin vpDrawn
    /\ vpRequests' = vpRequests \cup {state} /\ vpDrawn' = vpDrawn \cup {state}
    /\ UNCHANGED <<vpSessions, vpCalls, vpTokens, vpGranted, vpReads>>

\* consumeState: the state is gone whatever comes of the token.
ConsumeState(state) == vpRequests \ {state}

\* callback and verifyOpenId4VpDirectPost up to verifyVpToken.
DirectPost(s, state, token) ==
    /\ s \notin DOMAIN vpCalls
    /\ state \in vpRequests
    /\ vpRequests' = ConsumeState(state)
    /\ vpCalls' = Put(vpCalls, s, [state |-> state, token |-> token])
    /\ UNCHANGED <<vpSessions, vpTokens, vpDrawn, vpGranted, vpReads>>

\* parseSyntheticVpToken: `sound` is signature, expiry, status, and that exactly
\* the claim that was asked for is disclosed and true.
VerifiesVpToken(token, state, sound) == sound /\ token.audience = VpVerifier /\ token.nonce = state

\* The rest of callback.
VpTokenVerified(s, session, sound) ==
    /\ s \in DOMAIN vpCalls
    /\ vpCalls' = Drop(vpCalls, s)
    /\ LET c == vpCalls[s] IN
       IF VerifiesVpToken(c.token, c.state, sound)
       THEN /\ session \notin DOMAIN vpGranted
            /\ vpSessions' = vpSessions \cup {session}
            /\ vpGranted' = Put(vpGranted, session, [state |-> c.state, token |-> c.token])
            /\ vpReads' = Put(vpReads, session, 0)
       ELSE UNCHANGED <<vpSessions, vpGranted, vpReads>>
    /\ UNCHANGED <<vpRequests, vpTokens, vpDrawn>>

\* GET /session/<id>
ReadSession(session) ==
    /\ session \in vpSessions
    /\ vpSessions' = vpSessions \ {session}
    /\ vpReads' = [vpReads EXCEPT ![session] = @ + 1]
    /\ UNCHANGED <<vpRequests, vpCalls, vpTokens, vpDrawn, vpGranted>>

VerifierNext ==
    \/ \E state \in VpStates : CreateRequest(state)
    \/ \E s \in Slots :
          \/ \E state \in VpStates, token \in vpTokens : DirectPost(s, state, token)
          \/ \E session \in VpSessionIds, sound \in BOOLEAN : VpTokenVerified(s, session, sound)
    \/ \E session \in VpSessionIds : ReadSession(session)
-----------------------------------------------------------------------------
\* A state gives access once, to a token made for this verifier and for the nonce
\* of that very state, and the session it gives is read at most once, however
\* responses are repeated, overlap, or reach the verifier by way of another.
AccessIsOneTime ==
    /\ \A x, y \in DOMAIN vpGranted : vpGranted[x].state = vpGranted[y].state => x = y
    /\ \A x \in DOMAIN vpGranted :
          LET g == vpGranted[x] IN g.token.audience = VpVerifier /\ g.token.nonce = g.state
    /\ \A x \in DOMAIN vpReads : vpReads[x] <= 1
=============================================================================
