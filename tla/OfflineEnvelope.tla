--------------------------- MODULE OfflineEnvelope ---------------------------
(***************************************************************************)
(* packages/credential-scanner/src/offline/index.ts: signed envelopes that *)
(* are verified without a network, against a snapshot of trust and status  *)
(* the caller primes.  Priming awaits the verifier of snapshots, verifying *)
(* awaits the verifier of envelopes and then the registry, and calls       *)
(* overlap.                                                                *)
(*                                                                         *)
(* The signers are external and their signatures are ideal; an envelope    *)
(* may be presented again, by several callers at once, and with another    *)
(* nonce around the same signature.                                        *)
(***************************************************************************)
EXTENDS CallSlots

CONSTANTS
    EnvelopeIds, EnvelopeNonces,
    SnapshotContents,              \* what snapshots say of issuer, schema, key, status
    SnapshotIds,
    MaxSequence, OfflineLifetime,  \* bounds: snapshots; maxLifetimeSeconds
    MaxOfflineTime                 \* bound: the clock

VARIABLES
    offlineTime,
    snapshot,       \* OfflineTrustStatusCache.snapshot, or None
    signedSnapshots,\* external: snapshots the registry signed
    envelopes,      \* envelopes returned by createOfflineEnvelope
    offlineConsumed,\* InMemoryOfflineReplayBoundary
    offlineCalls,   \* slot -> prime or verification under way
    verdicts,       \* history: envelope signed -> times it was verified
    lastVerified    \* history: a verification that just succeeded, or None

offlineVars == <<offlineTime, snapshot, signedSnapshots, envelopes, offlineConsumed,
                 offlineCalls, verdicts, lastVerified>>
-----------------------------------------------------------------------------
EntryStatus == {"active", "suspended", "revoked", None}

\* What a snapshot says of the one issuer, schema, key and status envelopes name;
\* None where it has no entry. A key is authorised from `from` until `until`.
SnapshotContent ==
    [issuer : EntryStatus, schema : EntryStatus, key : {"active", "retired", "revoked", None},
     from : 0..MaxOfflineTime, until : 0..MaxOfflineTime, status : {"valid", "suspended", "revoked", None}]

\* OfflineSnapshot; the identifier stands for identifier and signature.
OfflineSnapshot ==
    [snapshotId : SnapshotIds, sequence : 1..MaxSequence, issuedAt : 0..MaxOfflineTime,
     expiresAt : 1..(MaxOfflineTime + OfflineLifetime), content : SnapshotContents]

\* The bounds are numbers, and snapshots say what the parser of snapshots lets through;
\* undefined is no snapshot.
ASSUME OfflineAssumption ==
    /\ MaxSequence \in Nat /\ OfflineLifetime \in Nat /\ MaxOfflineTime \in Nat
    /\ SnapshotContents \subseteq SnapshotContent /\ None \notin OfflineSnapshot

\* parseOfflineSnapshot
ParseOfflineSnapshot(value) == value.expiresAt > value.issuedAt

OfflineEnvelopeUnsigned ==
    [envelopeId : EnvelopeIds, nonce : EnvelopeNonces, issuedAt : 0..MaxOfflineTime,
     expiresAt : 1..(MaxOfflineTime + OfflineLifetime)]

\* parseUnsignedEnvelope: every field present and bounded, a positive lifetime.
ParseUnsignedEnvelope(e) == e.expiresAt > e.issuedAt

\* offlineEnvelopeSigningPayload: the canonical text of all fields but the signature.
EnvelopePayload(e) == [envelopeId |-> e.envelopeId, nonce |-> e.nonce,
                       issuedAt |-> e.issuedAt, expiresAt |-> e.expiresAt]

ReplayKey(e) == <<e.envelopeId, e.nonce>>

\* A text that is presented: an envelope around a signature, perhaps of another one,
\* that is base64url and JSON without duplicate keys, or not.
Presented ==
    {[payload |-> [e EXCEPT !.nonce = n], signature |-> e, readable |-> r] :
        e \in envelopes, n \in EnvelopeNonces, r \in BOOLEAN}

\* The strict reader of JSON.
ReadsStrictly(p) == p.readable

ParseOfflineEnvelope(p) == ReadsStrictly(p) /\ ParseUnsignedEnvelope(p.payload)

OfflineInit ==
    /\ offlineTime = 0 /\ snapshot = None /\ signedSnapshots = {} /\ envelopes = {}
    /\ offlineConsumed = {} /\ offlineCalls = EmptyMap
    /\ verdicts = EmptyMap /\ lastVerified = None

OfflineTick ==
    /\ offlineTime < MaxOfflineTime
    /\ offlineTime' = offlineTime + 1
    /\ lastVerified' = None
    /\ UNCHANGED <<snapshot, signedSnapshots, envelopes, offlineConsumed, offlineCalls,
                   verdicts>>

\* The registry signs a snapshot; two may carry one sequence.
SignSnapshot(id, sequence, content, ttl) ==
    LET s == [snapshotId |-> id, sequence |-> sequence, issuedAt |-> offlineTime,
              expiresAt |-> offlineTime + ttl, content |-> content]
    IN  /\ \A t \in signedSnapshots : t.snapshotId # id /\ t.sequence <= sequence
        /\ signedSnapshots' = signedSnapshots \cup {s}
        /\ lastVerified' = None
        /\ UNCHANGED <<offlineTime, snapshot, envelopes, offlineConsumed, offlineCalls,
                       verdicts>>

\* createOfflineEnvelope, with the signature of the issuer.
CreateOfflineEnvelope(e) ==
    /\ ParseUnsignedEnvelope(e) /\ e.issuedAt = offlineTime
    /\ e.envelopeId \notin {f.envelopeId : f \in envelopes}
    /\ envelopes' = envelopes \cup {EnvelopePayload(e)}
    /\ verdicts' = Put(verdicts, e, 0)
    /\ lastVerified' = None
    /\ UNCHANGED <<offlineTime, snapshot, signedSnapshots, offlineConsumed, offlineCalls>>
-----------------------------------------------------------------------------
(* OfflineTrustStatusCache                                                 *)

\* prime, up to the verifier of snapshots.
Prime(s, value) ==
    /\ s \notin DOMAIN offlineCalls
    /\ ParseOfflineSnapshot(value)
    /\ offlineCalls' = Put(offlineCalls, s, [op |-> "prime", value |-> value, before |-> snapshot])
    /\ lastVerified' = None
    /\ UNCHANGED <<offlineTime, snapshot, signedSnapshots, envelopes, offlineConsumed,
                   verdicts>>

\* Mutant of Supersedes: compared with the snapshot that was there before the await.
SupersedesEarlier(call) ==
    LET s == call.value IN
    /\ s.issuedAt <= offlineTime /\ offlineTime < s.expiresAt
    /\ call.before # None => \/ s.sequence > call.before.sequence
                             \/ s.sequence = call.before.sequence /\ s.snapshotId = call.before.snapshotId

\* The snapshot is current and no rollback from the one primed by now.
Supersedes(call) ==
    LET s == call.value IN
    /\ s.issuedAt <= offlineTime /\ offlineTime < s.expiresAt
    /\ snapshot # None => \/ s.sequence > snapshot.sequence
                          \/ s.sequence = snapshot.sequence /\ s.snapshotId = snapshot.snapshotId

\* The verifier has answered.
Primed(s) ==
    /\ s \in DOMAIN offlineCalls /\ offlineCalls[s].op = "prime"
    /\ snapshot' = IF Supersedes(offlineCalls[s]) THEN offlineCalls[s].value ELSE snapshot
    /\ offlineCalls' = Drop(offlineCalls, s)
    /\ lastVerified' = None
    /\ UNCHANGED <<offlineTime, signedSnapshots, envelopes, offlineConsumed, verdicts>>

\* evaluateCredential: the first thing the snapshot does not vouch for decides.
EvaluateCredential(e, at) ==
    IF snapshot = None \/ snapshot.issuedAt > at \/ snapshot.expiresAt <= at THEN "indeterminate"
    ELSE LET c == snapshot.content IN
         IF c.issuer = None THEN "indeterminate" ELSE IF c.issuer # "active" THEN "rejected"
         ELSE IF c.schema = None THEN "indeterminate" ELSE IF c.schema # "active" THEN "rejected"
         ELSE IF c.key = None THEN "indeterminate" ELSE IF c.key = "revoked" THEN "rejected"
         ELSE IF e.issuedAt < c.from \/ e.issuedAt >= c.until THEN "rejected"
         ELSE IF c.status = None THEN "indeterminate" ELSE IF c.status # "valid" THEN "rejected"
         ELSE "verified"
-----------------------------------------------------------------------------
(* verifyOfflineEnvelope                                                   *)

\* evaluateOfflineFreshness without tolerance.
Fresh(e, at) ==
    /\ e.expiresAt - e.issuedAt <= OfflineLifetime
    /\ e.issuedAt <= at /\ at < e.expiresAt

\* Up to the verifier of envelopes; `now` is an argument of the call.
VerifyOfflineEnvelope(s, p) ==
    /\ s \notin DOMAIN offlineCalls /\ ParseOfflineEnvelope(p)
    /\ offlineCalls' = Put(offlineCalls, s,
          [op |-> "verify", pc |-> "signature", presented |-> p, now |-> offlineTime,
           floor |-> IF snapshot = None THEN 0 ELSE snapshot.sequence])
    /\ lastVerified' = None
    /\ UNCHANGED <<offlineTime, snapshot, signedSnapshots, envelopes, offlineConsumed,
                   verdicts>>

\* The verifier has answered: signature, then freshness.
SignatureChecked(s) ==
    /\ s \in DOMAIN offlineCalls /\ offlineCalls[s].op = "verify" /\ offlineCalls[s].pc = "signature"
    /\ LET p == offlineCalls[s].presented IN
       offlineCalls' = IF EnvelopePayload(p.payload) = p.signature /\ Fresh(p.payload, offlineCalls[s].now)
                       THEN [offlineCalls EXCEPT ![s].pc = "registry"]
                       ELSE Drop(offlineCalls, s)
    /\ lastVerified' = None
    /\ UNCHANGED <<offlineTime, snapshot, signedSnapshots, envelopes, offlineConsumed,
                   verdicts>>

\* The verifier threw.
OfflineCallFails(s) ==
    /\ s \in DOMAIN offlineCalls
    /\ offlineCalls' = Drop(offlineCalls, s)
    /\ lastVerified' = None
    /\ UNCHANGED <<offlineTime, snapshot, signedSnapshots, envelopes, offlineConsumed,
                   verdicts>>

\* The registry has answered: only a verdict of verified uses the envelope up.
OfflineVerified(s) ==
    /\ s \in DOMAIN offlineCalls /\ offlineCalls[s].op = "verify" /\ offlineCalls[s].pc = "registry"
    /\ LET call == offlineCalls[s]
           p == call.presented
           ok == /\ EvaluateCredential(p.payload, call.now) = "verified"
                 /\ ReplayKey(p.payload) \notin offlineConsumed
       IN  IF ok
           THEN /\ offlineConsumed' = offlineConsumed \cup {ReplayKey(p.payload)}
                /\ verdicts' = [verdicts EXCEPT ![p.signature] = @ + 1]
                /\ lastVerified' = [envelope |-> p.payload, now |-> call.now, floor |-> call.floor,
                                    by |-> snapshot]
           ELSE lastVerified' = None /\ UNCHANGED <<offlineConsumed, verdicts>>
    /\ offlineCalls' = Drop(offlineCalls, s)
    /\ UNCHANGED <<offlineTime, snapshot, signedSnapshots, envelopes>>

OfflineNext ==
    \/ OfflineTick
    \/ \E id \in SnapshotIds, n \in 1..MaxSequence, c \in SnapshotContents, ttl \in 1..OfflineLifetime :
          SignSnapshot(id, n, c, ttl)
    \/ \E e \in OfflineEnvelopeUnsigned : CreateOfflineEnvelope(e)
    \/ \E s \in Slots :
          \/ Primed(s) \/ SignatureChecked(s) \/ OfflineCallFails(s) \/ OfflineVerified(s)
          \/ \E value \in signedSnapshots : Prime(s, value)
          \/ \E p \in Presented : VerifyOfflineEnvelope(s, p)

OfflineSpec == OfflineInit /\ [][OfflineNext]_offlineVars

OfflineTypeOK ==
    /\ snapshot # None => snapshot \in OfflineSnapshot
    /\ envelopes \subseteq OfflineEnvelopeUnsigned
-----------------------------------------------------------------------------
\* What the registry says the snapshot must say for an envelope to pass.
VouchedFor(e, c) ==
    /\ c.issuer = "active" /\ c.schema = "active" /\ c.key \in {"active", "retired"}
    /\ c.from <= e.issuedAt /\ e.issuedAt < c.until /\ c.status = "valid"

\* An envelope verifies at most once however often it is presented and by however
\* many callers at once; and what verified is an envelope that was signed, live when
\* its call began, and vouched for by a snapshot no older than the one primed by then:
\* what a primed snapshot withdrew stays withdrawn while primes overlap.
OfflineVerdictsHold ==
    /\ \A e \in DOMAIN verdicts : verdicts[e] <= 1
    /\ lastVerified # None =>
          /\ lastVerified.envelope \in envelopes
          /\ lastVerified.now < lastVerified.envelope.expiresAt
          /\ lastVerified.by \in signedSnapshots /\ lastVerified.by.sequence >= lastVerified.floor
          /\ VouchedFor(lastVerified.envelope, lastVerified.by.content)
=============================================================================
