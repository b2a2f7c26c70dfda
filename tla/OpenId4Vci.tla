----------------------------- MODULE OpenId4Vci -----------------------------
(***************************************************************************)
(* packages/openid4vc/src/index.ts, the OpenID4VCI client: an offer's      *)
(* pre-authorized code is exchanged for a token and the token for a        *)
(* credential, at endpoints that the issuer's metadata names.  Every       *)
(* request may time out, before or after the issuer has served it.         *)
(*                                                                         *)
(* The issuer at VciHome is apps/issuer-demo/src/index.ts; other origins   *)
(* answer anything.  The metadata and token requests change nothing at the *)
(* issuer, so they are served when their answer arrives.                   *)
(***************************************************************************)
EXTENDS CallSlots

CONSTANTS
    VciOrigins,          \* origins of URLs
    VciPublic,           \* those that are https and not of a private network
    VciHome,             \* SYNTHETIC_ISSUER
    VciCodes, VciHomeCode,
    VciConfigs, VciHomeConfigs

ASSUME VciAssumption ==
    /\ VciHome \in VciPublic /\ VciPublic \subseteq VciOrigins
    /\ VciHomeCode \in VciCodes /\ VciHomeConfigs \subseteq VciConfigs

VARIABLES
    issuerFixture,       \* SyntheticIssuer.fixture
    issuerIssued,        \* SyntheticIssuer.issued
    vciCalls,            \* slot -> issuePreAuthorizedCredential under way
    vciAbandoned,        \* credential requests to VciHome given up before they were served
    vciSent,             \* history: [issuer, to] of every code and token sent
    vciServed            \* history: credentials handed out by VciHome

vciVars == <<issuerFixture, issuerIssued, vciCalls, vciAbandoned, vciSent, vciServed>>
-----------------------------------------------------------------------------
(* Documents.                                                              *)

CredentialOffer == [issuer : VciOrigins, code : VciCodes, config : VciConfigs]

IssuerMetadata ==
    [issuer : VciOrigins, credentialEndpoint : VciOrigins,
     tokenEndpoint : VciOrigins \cup {None}, configs : SUBSET VciConfigs]

\* origin: throws for anything else.
PublicOrigin(url) == url \in VciPublic

ParseCredentialOffer(offer) == PublicOrigin(offer.issuer)

ParseIssuerMetadata(md, issuer) ==
    /\ PublicOrigin(md.issuer) /\ PublicOrigin(md.credentialEndpoint)
    /\ md.credentialEndpoint = md.issuer /\ md.issuer = issuer
    /\ md.tokenEndpoint # None => PublicOrigin(md.tokenEndpoint) /\ md.tokenEndpoint = md.issuer
-----------------------------------------------------------------------------
(* The issuer of issuer-demo.                                              *)

\* The fixtures that differ here: what is wrong with an expired or revoked
\* credential, verifyCredential finds out.
IssuerFixture == {"valid", "reused", "invalid-code"}

HomeMetadata ==
    [issuer |-> VciHome, credentialEndpoint |-> VciHome, tokenEndpoint |-> VciHome,
     configs |-> VciHomeConfigs]

\* token: does not spend the code.
GrantsToken(code) ==
    issuerFixture \notin {"invalid-code", "reused"} /\ code = VciHomeCode /\ ~issuerIssued

\* credential: the token is one of this issuer, the proof its holder's.
MayServe(token, proof) ==
    token = VciHome /\ ~issuerIssued /\ issuerFixture # "reused" /\ proof

ServeCredential(token, proof) ==
    IF MayServe(token, proof)
    THEN issuerIssued' = TRUE /\ vciServed' = vciServed + 1
    ELSE UNCHANGED <<issuerIssued, vciServed>>
-----------------------------------------------------------------------------
(* The client.                                                             *)

VciInit ==
    /\ issuerFixture \in IssuerFixture /\ issuerIssued = FALSE
    /\ vciCalls = EmptyMap /\ vciAbandoned = {} /\ vciSent = {} /\ vciServed = 0

Waiting(s, pc) == s \in DOMAIN vciCalls /\ vciCalls[s].pc = pc

\* issuePreAuthorizedCredential, up to the request for the metadata: origin of the
\* expected issuer, or of the offer's own.  `proof` tells whether the issuer will
\* take the proof, `secret` is what the caller will store the credential with, and
\* `token` is the origin the token is asked of, and then whose token it is.
BeginIssuance(s, offer, expected, proof, secret) ==
    /\ s \notin DOMAIN vciCalls
    /\ ParseCredentialOffer(offer)
    /\ LET issuer == IF expected = None THEN offer.issuer ELSE expected IN
       PublicOrigin(issuer) /\ offer.issuer = issuer
    /\ vciCalls' = Put(vciCalls, s, [pc |-> "metadata", offer |-> offer, proof |-> proof,
                                     secret |-> secret, endpoint |-> None, token |-> None,
                                     answer |-> None])
    /\ UNCHANGED <<issuerFixture, issuerIssued, vciAbandoned, vciSent, vciServed>>

Fails(s) == vciCalls' = Drop(vciCalls, s)

\* getJson and parseIssuerMetadata: `md` is None when the status is not 200 (a
\* redirect too) or the document no metadata.  The code goes to the token endpoint.
MetadataArrives(s, md) ==
    /\ Waiting(s, "metadata")
    /\ LET offer == vciCalls[s].offer IN
       /\ offer.issuer = VciHome => md = HomeMetadata
       /\ IF md # None /\ ParseIssuerMetadata(md, offer.issuer) /\ offer.config \in md.configs
          THEN LET tokenEndpoint == IF md.tokenEndpoint = None THEN offer.issuer
                                                              ELSE md.tokenEndpoint
               IN /\ vciCalls' = [vciCalls EXCEPT ![s].pc = "token", ![s].token = tokenEndpoint,
                                     ![s].endpoint = md.credentialEndpoint]
                  /\ vciSent' = vciSent \cup {[issuer |-> offer.issuer, to |-> tokenEndpoint]}
          ELSE Fails(s) /\ UNCHANGED vciSent
    /\ UNCHANGED <<issuerFixture, issuerIssued, vciAbandoned, vciServed>>

\* The answer of the token endpoint; the token goes to the credential endpoint.
TokenResponds(s, granted) ==
    /\ Waiting(s, "token")
    /\ LET c == vciCalls[s] IN
       /\ c.token = VciHome => granted = GrantsToken(c.offer.code)
       /\ IF granted
          THEN /\ vciCalls' = [vciCalls EXCEPT ![s].pc = "credential"]
               /\ vciSent' = vciSent \cup {[issuer |-> c.offer.issuer, to |-> c.endpoint]}
          ELSE Fails(s) /\ UNCHANGED vciSent
    /\ UNCHANGED <<issuerFixture, issuerIssued, vciAbandoned, vciServed>>

\* The credential endpoint serves the request; its answer is on the way.
CredentialServed(s, granted) ==
    /\ Waiting(s, "credential")
    /\ LET c == vciCalls[s] IN
       /\ IF c.endpoint = VciHome
          THEN granted = MayServe(c.token, c.proof) /\ ServeCredential(c.token, c.proof)
          ELSE UNCHANGED <<issuerIssued, vciServed>>
       /\ vciCalls' = [vciCalls EXCEPT ![s].pc = "served", ![s].answer = granted]
    /\ UNCHANGED <<issuerFixture, vciAbandoned, vciSent>>

\* The answer; verifyCredential starts.
CredentialResponds(s) ==
    /\ Waiting(s, "served")
    /\ vciCalls' = IF vciCalls[s].answer THEN [vciCalls EXCEPT ![s].pc = "verify"]
                                         ELSE Drop(vciCalls, s)
    /\ UNCHANGED <<issuerFixture, issuerIssued, vciAbandoned, vciSent, vciServed>>

\* verifyCredential has answered: the credential goes to the vault of the caller,
\* or is given up, and its code is spent either way.
IssuanceEnds(s) ==
    /\ Waiting(s, "verify") /\ Fails(s)
    /\ UNCHANGED <<issuerFixture, issuerIssued, vciAbandoned, vciSent, vciServed>>

\* request: the timer wins, or the transport fails; the request stays on its way.
RequestTimesOut(s) ==
    /\ s \in DOMAIN vciCalls /\ vciCalls[s].pc # "verify"
    /\ Fails(s)
    /\ vciAbandoned' = vciAbandoned \cup
          {[token |-> c.token, proof |-> c.proof] :
              c \in {c \in {vciCalls[s]} : c.pc = "credential" /\ c.endpoint = VciHome}}
    /\ UNCHANGED <<issuerFixture, issuerIssued, vciSent, vciServed>>

\* An abandoned request reaches the issuer after all.
ServedLate(r) ==
    /\ r \in vciAbandoned /\ vciAbandoned' = vciAbandoned \ {r}
    /\ ServeCredential(r.token, r.proof)
    /\ UNCHANGED <<issuerFixture, vciCalls, vciSent>>
-----------------------------------------------------------------------------
\* A code, and the token it is exchanged for, is sent to no origin but the issuer
\* of the offer it came with, whatever the metadata names; and an issuer's code
\* yields one credential, however calls overlap, time out and are repeated.
CodesStayHome ==
    /\ \A x \in vciSent : x.to = x.issuer
    /\ vciServed <= 1
=============================================================================
