------------------------------ MODULE WebWallet ------------------------------
(***************************************************************************)
(* apps/wallet-web/src/index.ts: the WalletController, which takes         *)
(* credentials with OpenId4Vci and presents them with OpenId4Vp, the user  *)
(* locking, unlocking, reviewing and cancelling while calls are under way. *)
(*                                                                         *)
(* The unlock factor is kept as an array of bytes that lock overwrites in  *)
(* place: calls hold on to it.  Calls on the vault are one step each; the  *)
(* vault is injected, and holds what others stored in it too.              *)
(***************************************************************************)
EXTENDS OpenId4Vci, OpenId4Vp, Sequences

CONSTANTS
    WebFactors,          \* unlock factors, of at least 8 characters
    WebLongFactors,      \* those of at least 12, which a passphrase has to have
    WebIds,              \* ids of credentials
    WebNewIds,           \* those that acceptOffer is called with
    WebVaults,           \* what the vault may hold at first
    MaxUnlocks, MaxReviews   \* bounds: unlocks, and presentations reviewed

VARIABLES
    webSecrets,          \* every array made from a factor: [factor, zeroed]
    webSecret,           \* this.secret: the position of the current one, or None
    webScreen,
    webOffer,            \* pendingOffer
    webReview,           \* pendingPresentation
    webVault,            \* id -> WebEntry
    webCalls,            \* slot -> reviewPresentation or submitPresentation under way
    webReviewed,         \* how many presentations were reviewed
    webDisclosed         \* history: [review, credential] of every token sent

controllerVars == <<webSecrets, webSecret, webScreen, webOffer, webReview>>
webVars == <<controllerVars, webVault, webCalls, webReviewed, webDisclosed>>
-----------------------------------------------------------------------------
WalletScreen == {"locked", "credentials", "offer-review", "presentation-review"}

Secret == [factor : WebFactors, zeroed : BOOLEAN]

\* What a vault entry was encrypted with, and whether its claims answer the query.
WebEntry == [strategy : {"prf", "passphrase"}, key : Secret, adult : BOOLEAN]

\* CredentialVaultStore.get with bytes: a passphrase would have to be a string.
Opens(entry, secret) == entry.strategy = "prf" /\ entry.key = webSecrets[secret]

WebInit ==
    /\ webSecrets = <<>> /\ webSecret = None /\ webScreen = "locked"
    /\ webOffer = None /\ webReview = None /\ webVault \in WebVaults /\ webCalls = EmptyMap
    /\ webReviewed = 0 /\ webDisclosed = {}

\* setup and unlock: an array still in use by a call is left as it is.
UnlockWeb(factor) ==
    /\ Len(webSecrets) < MaxUnlocks
    /\ webSecrets' = Append(webSecrets, [factor |-> factor, zeroed |-> FALSE])
    /\ webSecret' = Len(webSecrets) + 1
    /\ webScreen' = "credentials"
    /\ UNCHANGED <<webOffer, webReview>>

LockWeb ==
    /\ webSecrets' = IF webSecret = None THEN webSecrets
                     ELSE [webSecrets EXCEPT ![webSecret].zeroed = TRUE]
    /\ webSecret' = None /\ webOffer' = None /\ webReview' = None
    /\ webScreen' = "locked"

\* requireUnlocked
Unlocked == webSecret # None

DeleteFromVault(id) ==
    /\ Unlocked /\ webVault' = Drop(webVault, id)
    /\ UNCHANGED <<controllerVars, webCalls, webReviewed, webDisclosed>>
-----------------------------------------------------------------------------
(* Offers.                                                                 *)

ReviewOffer(offer) ==
    /\ Unlocked /\ ParseCredentialOffer(offer)
    /\ webOffer' = offer /\ webScreen' = "offer-review"
    /\ UNCHANGED <<webSecrets, webSecret, webReview>>

AcceptOffer(s, proof) ==
    /\ Unlocked /\ webOffer # None
    /\ BeginIssuance(s, webOffer, None, proof, webSecret)
    /\ UNCHANGED webVars

\* acceptOffer's finally, when the issuance of slot s is over.
WhenIssued(s) ==
    /\ IF s \in DOMAIN vciCalls' THEN UNCHANGED <<webOffer, webScreen>>
                                 ELSE webOffer' = None /\ webScreen' = "credentials"
    /\ UNCHANGED <<webSecrets, webSecret, webReview, webCalls, webReviewed, webDisclosed>>

\* vault.put with the bytes decoded to a passphrase, zeros when the wallet was
\* locked meanwhile; a short one is refused when the credential is already issued.
\* What the issuer attests is what queries ask for.
StoreCredential(s, id, verified) ==
    /\ IssuanceEnds(s)
    /\ LET secret == webSecrets[vciCalls[s].secret] IN
       webVault' = IF verified /\ secret.factor \in WebLongFactors
                   THEN Put(webVault, id, [strategy |-> "passphrase", key |-> secret,
                                           adult |-> TRUE])
                   ELSE webVault
    /\ WhenIssued(s)

IssuanceStep(s) ==
    /\ \/ \E md \in IssuerMetadata \cup {None} : MetadataArrives(s, md)
       \/ \E granted \in BOOLEAN : TokenResponds(s, granted) \/ CredentialServed(s, granted)
       \/ CredentialResponds(s) \/ RequestTimesOut(s)
    /\ WhenIssued(s) /\ UNCHANGED webVault
-----------------------------------------------------------------------------
(* Presentations.                                                          *)

\* trustForRequest: who asks is confirmed by a hook, or answers at its own origin.
TrustForRequest(request, resolved) ==
    IF resolved THEN "confirmed"
    ELSE IF request.clientId = request.responseUri THEN "same-origin" ELSE "ambiguous"

\* fromDcql and selectPresentationCandidates: the query names the credential.
SelectPresentationCandidates(query) == {id \in DOMAIN webVault : id = query /\ webVault[id].adult}

\* The requests that parse, with and without hooks: [request, resolved].
Reviewable ==
    {r \in {[request |-> ParseOpenId4VpRequest(input, hooks), resolved |-> "resolveVerifier" \in hooks] :
               input \in RequestInput, hooks \in {{}, RequestTrustHooks}} : r.request # None}

\* reviewPresentation, until it reads the vault.
ReviewPresentation(s) ==
    /\ Unlocked /\ s \notin DOMAIN webCalls
    /\ webCalls' = Put(webCalls, s, [pc |-> "review", secret |-> webSecret])
    /\ UNCHANGED <<controllerVars, webVault, webReviewed, webDisclosed>>

\* The request was parsed, and the vault is read: every entry has to open, or the
\* review fails.  The controller may be locked by now, and shows the review all
\* the same.
ReviewReady(s, r, query) ==
    /\ s \in DOMAIN webCalls /\ webCalls[s].pc = "review"
    /\ webReviewed < MaxReviews /\ webReviewed' = webReviewed + 1
    /\ \A id \in DOMAIN webVault : Opens(webVault[id], webCalls[s].secret)
    /\ webReview' = [request |-> r.request,
                     matches |-> SelectPresentationCandidates(query),
                     trust |-> TrustForRequest(r.request, r.resolved)]
    /\ webScreen' = "presentation-review"
    /\ webCalls' = Drop(webCalls, s)
    /\ UNCHANGED <<webSecrets, webSecret, webOffer, webVault, webDisclosed>>

\* The request does not parse, or an entry does not open.
ReviewFails(s) ==
    /\ s \in DOMAIN webCalls /\ webCalls[s].pc = "review"
    /\ webCalls' = Drop(webCalls, s)
    /\ UNCHANGED <<controllerVars, webVault, webReviewed, webDisclosed>>

\* cancelPresentation and denyPresentation: a submission under way goes on.
CancelPresentation ==
    /\ webReview' = None
    /\ webScreen' = IF Unlocked THEN "credentials" ELSE "locked"
    /\ UNCHANGED <<webSecrets, webSecret, webOffer, webVault, webCalls, webReviewed, webDisclosed>>

\* requirePresentationApproval
Approvable == webReview # None /\ webReview.trust # "ambiguous"

\* submitPresentation, for exactly the credentials that matched; more or less than
\* one are refused later.
SubmitPresentation(s) ==
    /\ Unlocked /\ s \notin DOMAIN webCalls
    /\ Approvable /\ Cardinality(webReview.matches) = 1
    /\ webCalls' = Put(webCalls, s, [pc |-> "open", review |-> webReview, secret |-> webSecret,
                                     credential |-> CHOOSE id \in webReview.matches : TRUE])
    /\ UNCHANGED <<controllerVars, webVault, webReviewed, webDisclosed>>

OpenCredential(s) ==
    /\ s \in DOMAIN webCalls /\ webCalls[s].pc = "open"
    /\ LET c == webCalls[s] IN
       webCalls' = IF c.credential \in DOMAIN webVault /\ Opens(webVault[c.credential], c.secret)
                   THEN [webCalls EXCEPT ![s].pc = "present"] ELSE Drop(webCalls, s)
    /\ UNCHANGED <<controllerVars, webVault, webReviewed, webDisclosed>>

\* Mutant of ReviewOf: the pending review is read again after the awaits.
ReviewNow(s) == IF webReview = None THEN webCalls[s].review ELSE webReview

\* The review that submitPresentation was called for.
ReviewOf(s) == webCalls[s].review

\* `present` has made a token, and it is posted to the response URI.
SendToken(s) ==
    /\ s \in DOMAIN webCalls /\ webCalls[s].pc = "present"
    /\ LET review == ReviewOf(s) IN
       /\ vpTokens' = vpTokens \cup {CreateVpToken(review.request)}
       /\ webDisclosed' = webDisclosed \cup {[review |-> review, credential |-> webCalls[s].credential]}
    /\ webCalls' = [webCalls EXCEPT ![s].pc = "sent"]
    /\ UNCHANGED <<controllerVars, webVault, webReviewed>>

\* The verifier's answer, or a failure of present before anything was sent; only an
\* answer in the 200s clears what is pending, whichever review that is by now.
PresentationEnds(s, accepted) ==
    /\ s \in DOMAIN webCalls /\ webCalls[s].pc \in {"present", "sent"}
    /\ accepted => webCalls[s].pc = "sent"
    /\ IF accepted THEN webReview' = None /\ webScreen' = "credentials"
                   ELSE UNCHANGED <<webReview, webScreen>>
    /\ webCalls' = Drop(webCalls, s)
    /\ UNCHANGED <<webSecrets, webSecret, webOffer, webVault, webReviewed, webDisclosed>>
-----------------------------------------------------------------------------
\* The user unlocks and locks, at any time.
UserNext ==
    /\ LockWeb \/ \E factor \in WebFactors : UnlockWeb(factor)
    /\ UNCHANGED <<webVault, webCalls, webReviewed, webDisclosed>>

OffersNext ==
    \/ /\ \E offer \in CredentialOffer : ReviewOffer(offer)
       /\ UNCHANGED <<vciVars, webVault, webCalls, webReviewed, webDisclosed>>
    \/ UserNext /\ UNCHANGED vciVars
    \/ \E s \in Slots :
          \/ \E proof \in BOOLEAN : AcceptOffer(s, proof)
          \/ IssuanceStep(s)
          \/ \E id \in WebNewIds, verified \in BOOLEAN : StoreCredential(s, id, verified)
    \/ \E r \in vciAbandoned : ServedLate(r) /\ UNCHANGED webVars

\* The wallet's side of presentations, with calls for some requests in some slots.
PresentationsNext(slots, requests) ==
    \/ /\ \/ CancelPresentation
          \/ \E id \in WebIds : DeleteFromVault(id)
          \/ \E s \in slots :
                \/ \E r \in requests, query \in WebIds : ReviewReady(s, r, query)
                \/ ReviewPresentation(s) \/ ReviewFails(s)
                \/ SubmitPresentation(s) \/ OpenCredential(s)
                \/ \E accepted \in BOOLEAN : PresentationEnds(s, accepted)
       /\ UNCHANGED vpVars
    \/ /\ \E s \in slots : SendToken(s)
       /\ UNCHANGED <<vpRequests, vpSessions, vpCalls, vpDrawn, vpGranted, vpReads>>

WebSpec ==
    /\ VciInit /\ VpInit /\ WebInit
    /\ [][\/ OffersNext /\ UNCHANGED vpVars
          \/ PresentationsNext(Slots, Reviewable) /\ UNCHANGED vciVars
          \/ VerifierNext /\ UNCHANGED <<vciVars, webVars>>]_<<vciVars, vpVars, webVars>>

WebTypeOK ==
    /\ webScreen \in WalletScreen
    /\ \A i \in DOMAIN webSecrets : webSecrets[i] \in Secret
    /\ webSecret \in DOMAIN webSecrets \cup {None}
    /\ IsMap(webVault, WebIds, WebEntry)
    /\ vpTokens \subseteq VpToken
    /\ DOMAIN webCalls \cup DOMAIN vciCalls \subseteq Slots
-----------------------------------------------------------------------------
\* A token goes where a review said, for the credential that review showed, and
\* the review was of a verifier that was confirmed or answers at its own origin:
\* whatever else is reviewed, cancelled, unlocked or deleted meanwhile.
DisclosuresAreApproved ==
    \A d \in webDisclosed :
        /\ d.credential \in d.review.matches
        /\ d.review.trust = "confirmed" => d.review.request.clientId \in VpResolvable
        /\ d.review.trust # "confirmed" => d.review.request.clientId = d.review.request.responseUri

\* From end to end: whoever is given access by the verifier presented a token made
\* for a review that a user approved, of a request that names this verifier and the
\* state the access is given for.
AccessWasApproved ==
    \A x \in DOMAIN vpGranted : \E d \in webDisclosed :
        /\ CreateVpToken(d.review.request) = vpGranted[x].token
        /\ d.review.request.clientId = VpVerifier
        /\ d.review.request.state = vpGranted[x].state
=============================================================================
