------------------------- MODULE OnChainAttestation -------------------------
(***************************************************************************)
(* The result of a verification carried to a chain: the attestations of    *)
(* packages/credential-domain/src/index.ts, the demonstration that makes   *)
(* them (apps/access-demo) and the contract that consumes them             *)
(* (contracts/src/OnChainAttestationConsumer.sol), deployed several times. *)
(*                                                                         *)
(* The attestor's key is external and its signatures are ideal; whoever    *)
(* holds an attestation may send it to any deployment, as often as it      *)
(* likes and with other fields around the same signature.                  *)
(***************************************************************************)
EXTENDS CallSlots, TLC

CONSTANTS
    ChainIds, Deployments,         \* consumers, each on one chain
    ChainOf,                       \* Deployments -> ChainIds
    Subjects, AttNonces, Attestors, AttestorVersions,
    MaxAttTime, MaxAttTtl,         \* bounds: the clock, a lifetime
    MaxAttestations                \* bound: attestations signed

VARIABLES
    attTime,        \* block.timestamp and the clock of the attestor
    attestorVersion,\* deployment -> attestor -> version, None for bytes32(0)
    usedNonce,      \* deployment -> nonces
    signing,        \* attestation the signer was asked for, or None
    attestations,   \* attestations returned by signAttestation
    grants          \* history: attestation signed -> times access was granted on it

attVars == <<attTime, attestorVersion, usedNonce, signing, attestations, grants>>
-----------------------------------------------------------------------------
\* What a caller asks for, and the attestation without its signature. The policy of
\* every deployment and of ACCESS_POLICY is one; `chainId` and `consumer` need not
\* fit together.
AttestationRequest ==
    [chainId : ChainIds, consumer : Deployments, subject : Subjects, nonce : AttNonces,
     attestor : Attestors, attestorVersion : AttestorVersions]

UnsignedAttestation ==
    [chainId : ChainIds, consumer : Deployments, subject : Subjects, nonce : AttNonces,
     issuedAt : 0..MaxAttTime, expiresAt : 0..(MaxAttTime + MaxAttTtl),
     attestor : Attestors, attestorVersion : AttestorVersions]

\* The signing payload covers every field; the EIP-712 digest of a contract adds the
\* domain of that contract.
SigningPayload(value) == value

ValidateAttestation(value) == value.expiresAt > value.issuedAt

OnChainAttestationInit ==
    /\ attTime = 0
    /\ attestorVersion \in [Deployments -> {[a \in Attestors |-> IF a = b THEN v ELSE None] :
                                               b \in Attestors, v \in AttestorVersions}]
    /\ usedNonce = [d \in Deployments |-> {}]
    /\ signing = None /\ attestations = {} /\ grants = EmptyMap

BlockMined ==
    /\ attTime < MaxAttTime
    /\ attTime' = attTime + 1
    /\ UNCHANGED <<attestorVersion, usedNonce, signing, attestations, grants>>

\* createAccessAttestation of a verified presentation, up to the signer.
CreateAccessAttestation(request, ttl) ==
    LET value == request @@ [issuedAt |-> attTime, expiresAt |-> attTime + ttl] IN
    /\ signing = None /\ Cardinality(attestations) < MaxAttestations
    /\ ValidateAttestation(value)
    /\ signing' = value
    /\ UNCHANGED <<attTime, attestorVersion, usedNonce, attestations, grants>>

\* signAttestation has its signature and validates the result.
SignAttestation ==
    /\ signing # None
    /\ attestations' = attestations \cup {SigningPayload(signing)}
    /\ grants' = IF signing \in DOMAIN grants THEN grants ELSE Put(grants, signing, 0)
    /\ signing' = None
    /\ UNCHANGED <<attTime, attestorVersion, usedNonce>>

SignerFails ==
    /\ signing # None /\ signing' = None
    /\ UNCHANGED <<attTime, attestorVersion, usedNonce, attestations, grants>>
-----------------------------------------------------------------------------
(* The contract                                                            *)

SetAttestor(d, a, v) ==
    /\ attestorVersion' = [attestorVersion EXCEPT ![d][a] = v]
    /\ UNCHANGED <<attTime, usedNonce, signing, attestations, grants>>

RevokeAttestor(d, a) ==
    /\ attestorVersion' = [attestorVersion EXCEPT ![d][a] = None]
    /\ UNCHANGED <<attTime, usedNonce, signing, attestations, grants>>

\* The digest recovered at d is over all fields, for the domain of d: the signer
\* of `signed` made one for its chainId and consumer.
Recovers(d, a, signed) ==
    /\ SigningPayload(a) = signed
    /\ signed.consumer = d /\ signed.chainId = ChainOf[d]

\* The checks of consume before the signature.
Consumable(d, a) ==
    /\ a.chainId = ChainOf[d] /\ a.consumer = d
    /\ a.expiresAt > a.issuedAt
    /\ a.issuedAt <= attTime /\ attTime < a.expiresAt
    /\ a.nonce \notin usedNonce[d]
    /\ attestorVersion[d][a.attestor] # None
    /\ attestorVersion[d][a.attestor] = a.attestorVersion

\* Mutant of Consume: only the last nonce is remembered.
ConsumeLastNonce(d, a, signed) ==
    /\ Consumable(d, a) /\ Recovers(d, a, signed)
    /\ usedNonce' = [usedNonce EXCEPT ![d] = {a.nonce}]
    /\ grants' = [grants EXCEPT ![signed] = @ + 1]
    /\ UNCHANGED <<attTime, attestorVersion, signing, attestations>>

\* consume(a), with the signature of the attestation `signed`.
Consume(d, a, signed) ==
    /\ Consumable(d, a) /\ Recovers(d, a, signed)
    /\ usedNonce' = [usedNonce EXCEPT ![d] = @ \cup {a.nonce}]
    /\ grants' = [grants EXCEPT ![signed] = @ + 1]
    /\ UNCHANGED <<attTime, attestorVersion, signing, attestations>>

\* Fields a sender may change around a signature.
Altered(signed) ==
    {signed} \cup {[signed EXCEPT !.chainId = c, !.consumer = d, !.nonce = n] :
                      c \in ChainIds, d \in Deployments, n \in AttNonces}

AttestationNext ==
    \/ BlockMined \/ SignAttestation \/ SignerFails
    \/ \E request \in AttestationRequest, ttl \in 1..MaxAttTtl : CreateAccessAttestation(request, ttl)
    \/ \E d \in Deployments, a \in Attestors :
          RevokeAttestor(d, a) \/ \E v \in AttestorVersions : SetAttestor(d, a, v)
    \/ \E d \in Deployments, signed \in attestations : \E a \in Altered(signed) : Consume(d, a, signed)

AttestationSpec == OnChainAttestationInit /\ [][AttestationNext]_attVars

AttestationTypeOK ==
    /\ attTime \in 0..MaxAttTime
    /\ attestorVersion \in [Deployments -> [Attestors -> AttestorVersions \cup {None}]]
    /\ usedNonce \in [Deployments -> SUBSET AttNonces]
    /\ attestations \subseteq UnsignedAttestation /\ DOMAIN grants = attestations
-----------------------------------------------------------------------------
\* A signature of the attestor opens access once, whichever deployments it is sent
\* to, whatever is changed around it and however attestors are rotated, and a nonce
\* serves one attestation of a deployment.
AttestationsGrantOnce ==
    /\ \A a \in DOMAIN grants : grants[a] <= 1
    /\ \A a, b \in DOMAIN grants :
          grants[a] + grants[b] = 2 /\ a.consumer = b.consumer /\ a.nonce = b.nonce => a = b
=============================================================================
