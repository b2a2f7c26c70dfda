------------------------ MODULE SelfIssuedCredentials ------------------------
(***************************************************************************)
(* packages/self-issued-credentials/src/index.ts: a holder issues          *)
(* credentials about itself under its wallet key, and anyone verifies      *)
(* them.  Every call asks the signer for the key, then signs or verifies,  *)
(* then hands over to the credential format, with an await each time.      *)
(*                                                                         *)
(* HolderSignerPort and the format adapter are external: keys are revoked  *)
(* at any moment, a port may sign with another key than it was asked for,  *)
(* and signatures are ideal.                                               *)
(***************************************************************************)
EXTENDS CallSlots

CONSTANTS
    SelfSlots, Controllers, KeyIds, ClaimSets, CredentialIds,
    MaxSelfIssued                  \* bound: credentials created

ASSUME SelfIssuedAssumption == None \notin Controllers

VARIABLES
    holderKeys,     \* keyId -> HolderKeyDescriptor
    selfCalls,      \* slot -> create or verify under way
    created,        \* credentials returned by create
    verified        \* history: what the last verify accepted and the keys revoked
                    \* when it began, or None

selfVars == <<holderKeys, selfCalls, created, verified>>
-----------------------------------------------------------------------------
HolderBinding == [controller : Controllers, keyId : KeyIds]

HolderKeyDescriptor == [controller : Controllers, status : {"active", "revoked"}]

Assurances == {"self_attested", "institutional"}

\* CreateSelfIssuedCredentialRequest: issuer and assurance may be left out;
\* `sound` is that lifetime, identifiers, sizes and claim names are allowed.
SelfIssuedRequest ==
    [holder : HolderBinding, issuer : Controllers \cup {None},
     assurance : Assurances \cup {None}, sound : BOOLEAN,
     credentialId : CredentialIds, claims : ClaimSets]

\* The issuer and subject of a payload are the controller of its holder.
SelfIssuedPayload ==
    [holderBinding : HolderBinding, issuer : Controllers, assurance : {"self_attested"},
     credentialId : CredentialIds, claims : ClaimSets]

\* The proof covers the whole payload; the artifact of the format shows issuer,
\* key and claims.
HolderSignature == [keyId : KeyIds, over : SelfIssuedPayload]
Artifact == [issuer : Controllers, keyId : KeyIds, claims : ClaimSets]

SelfIssuedCredential ==
    [payload : SelfIssuedPayload, holderProof : HolderSignature, artifact : Artifact]

\* cloneJson, identifier, payloadBytes: depth, sizes and names within bounds.
WithinBounds(request) == request.sound

\* parsePayload: neither the assurance nor the issuer can be chosen, and no claim
\* takes a reserved name.
Parses(request) ==
    /\ WithinBounds(request)
    /\ request.assurance \in {None, "self_attested"}
    /\ request.issuer \in {None, request.holder.controller}

ParsePayload(request) ==
    [holderBinding |-> request.holder, issuer |-> request.holder.controller,
     assurance |-> "self_attested", credentialId |-> request.credentialId,
     claims |-> request.claims]

\* requestFromCredential: the issuer of a credential is its controller.
RequestFromCredential(c) ==
    [holder |-> c.payload.holderBinding, issuer |-> c.payload.issuer,
     assurance |-> c.payload.assurance, sound |-> TRUE,
     credentialId |-> c.payload.credentialId, claims |-> c.payload.claims]

\* requireControlledKey, as the signer answers now.
ControlledKey(holder) ==
    /\ holder.keyId \in DOMAIN holderKeys
    /\ holderKeys[holder.keyId].controller = holder.controller
    /\ holderKeys[holder.keyId].status = "active"

\* assertInspection: issuer and key of the artifact are those of the payload.
Inspected(a, p) == a.issuer = p.issuer /\ a.keyId = p.holderBinding.keyId

SelfIssuedInit ==
    /\ holderKeys \in [KeyIds -> [controller : Controllers, status : {"active"}]]
    /\ selfCalls = EmptyMap /\ created = {} /\ verified = None

RevokeHolderKey(k) ==
    /\ holderKeys[k].status = "active"
    /\ holderKeys' = [holderKeys EXCEPT ![k].status = "revoked"]
    /\ UNCHANGED <<selfCalls, created, verified>>

RevokedKeys == {k \in KeyIds : holderKeys[k].status = "revoked"}
-----------------------------------------------------------------------------
(* create                                                                  *)

CreateSelfIssued(s, request) ==
    /\ s \notin DOMAIN selfCalls /\ Cardinality(created) < MaxSelfIssued
    /\ Parses(request)
    /\ selfCalls' = Put(selfCalls, s, [op |-> "create", pc |-> "describe",
                                       payload |-> ParsePayload(request)])
    /\ UNCHANGED <<holderKeys, created, verified>>

\* describeKey has answered, for create and for verify.
KeyDescribed(s) ==
    /\ s \in DOMAIN selfCalls /\ selfCalls[s].pc = "describe"
    /\ selfCalls' = IF ControlledKey(selfCalls[s].payload.holderBinding)
                    THEN [selfCalls EXCEPT ![s].pc = "sign"]
                    ELSE Drop(selfCalls, s)
    /\ UNCHANGED <<holderKeys, created, verified>>

\* sign and verify have answered and the format has issued: a proof of the key
\* asked for, and an artifact that shows issuer and key.
SelfIssued(s, k, a) ==
    /\ s \in DOMAIN selfCalls /\ selfCalls[s].pc = "sign" /\ selfCalls[s].op = "create"
    /\ LET p == selfCalls[s].payload IN
       created' = IF k = p.holderBinding.keyId /\ Inspected(a, p)
                  THEN created \cup {[payload |-> p, artifact |-> a,
                                      holderProof |-> [keyId |-> k, over |-> p]]}
                  ELSE created
    /\ selfCalls' = Drop(selfCalls, s)
    /\ UNCHANGED <<holderKeys, verified>>
-----------------------------------------------------------------------------
(* verify                                                                  *)

VerifySelfIssued(s, c) ==
    /\ s \notin DOMAIN selfCalls
    /\ Parses(RequestFromCredential(c))
    /\ selfCalls' = Put(selfCalls, s, [op |-> "verify", pc |-> "describe", credential |-> c,
                                       payload |-> ParsePayload(RequestFromCredential(c)),
                                       revoked |-> RevokedKeys])
    /\ verified' = None
    /\ UNCHANGED <<holderKeys, created>>

\* Mutant of Proven: the claims of the artifact are not compared.
ProvenWithoutClaims(c, p) ==
    /\ c.holderProof.keyId = p.holderBinding.keyId /\ c.holderProof.over = p
    /\ Inspected(c.artifact, p)

\* The proof is of the key of the payload and over this payload, and the format
\* verified an artifact with its issuer, key and claims.
Proven(c, p) ==
    /\ c.holderProof.keyId = p.holderBinding.keyId /\ c.holderProof.over = p
    /\ Inspected(c.artifact, p)
    /\ c.artifact.claims = p.claims

VerifiedSelfIssued(s) ==
    /\ s \in DOMAIN selfCalls /\ selfCalls[s].pc = "sign" /\ selfCalls[s].op = "verify"
    /\ LET c == selfCalls[s].credential IN
       verified' = IF Proven(c, selfCalls[s].payload)
                   THEN [credential |-> c, revoked |-> selfCalls[s].revoked]
                   ELSE verified
    /\ selfCalls' = Drop(selfCalls, s)
    /\ UNCHANGED <<holderKeys, created>>

\* What may be presented: parts of credentials that were created, put together in
\* any way, with any issuer named.
Presentable ==
    {[payload |-> [c1.payload EXCEPT !.issuer = i], holderProof |-> c2.holderProof,
      artifact |-> c3.artifact] : c1 \in created, c2 \in created, c3 \in created, i \in Controllers}

SelfIssuedNext ==
    \/ \E s \in SelfSlots :
          \/ KeyDescribed(s) \/ VerifiedSelfIssued(s)
          \/ \E request \in SelfIssuedRequest : CreateSelfIssued(s, request)
          \/ \E k \in KeyIds, a \in Artifact : SelfIssued(s, k, a)
          \/ \E c \in Presentable : VerifySelfIssued(s, c)
    \/ \E k \in KeyIds : RevokeHolderKey(k)

SelfIssuedSpec == SelfIssuedInit /\ [][SelfIssuedNext]_selfVars

SelfIssuedTypeOK ==
    /\ IsMap(holderKeys, KeyIds, HolderKeyDescriptor)
    /\ DOMAIN selfCalls \subseteq SelfSlots
    /\ created \subseteq SelfIssuedCredential
-----------------------------------------------------------------------------
\* A credential that verifies was created: payload and proof together, by the
\* key of its own controller, and its artifact for some credential, with the same
\* claims; and no key that was revoked before the verification began passes,
\* while keys are revoked during it.
VerifiedWasCreated ==
    verified # None => LET v == verified
                           p == v.credential.payload IN
        /\ \E c \in created : c.payload = p /\ c.holderProof = v.credential.holderProof
        /\ \E c \in created : c.artifact = v.credential.artifact
        /\ v.credential.artifact.claims = p.claims
        /\ p.issuer = holderKeys[p.holderBinding.keyId].controller
        /\ p.holderBinding.keyId \notin v.revoked
=============================================================================
