----------------------------- MODULE AuthPasskey -----------------------------
(***************************************************************************)
(* packages/auth-passkey/src/index.ts: passkeys are registered, used and   *)
(* replaced in ceremonies that spend a stored challenge.  A ceremony waits *)
(* for the challenge store, reads the credential, waits for the verifier   *)
(* and writes the credential it read back; a rotation revokes the old      *)
(* passkey one step after the new one is in.                               *)
(*                                                                         *)
(* The verifier is external and may answer either way; challenge, origin,  *)
(* RP id, user verification and code hash of an assertion are one flag.    *)
(***************************************************************************)
EXTENDS CallSlots

CONSTANTS
    PkWallets,                 \* account and DID pairs
    PkCredentialIds,
    PkChallenges,              \* random, so never drawn twice
    PkTtl, MaxPkTime           \* lifetime of a ceremony; bound: time

ASSUME PasskeyAssumption ==
    /\ PkTtl \in Nat /\ MaxPkTime \in Nat
    /\ None \notin [wallet : PkWallets, status : {"active", "revoked"}]

VARIABLES
    pkNow,
    challengeStore,            \* challenge -> PasskeyCeremonyContext
    passkeys,                  \* credentialId -> PasskeyCredential
    ceremonies,                \* slot -> consumeAndVerify under way
    challengeUse,              \* history: challenge -> what it was put for, how often
                               \* it succeeded and with which credential
    quietlyRevoked             \* history: ids revoked while no ceremony had read them

pkVars == <<pkNow, challengeStore, passkeys, ceremonies, challengeUse, quietlyRevoked>>
-----------------------------------------------------------------------------
CeremonyKind == {"registration", "authentication", "step-up"}

PkAccounts == {w.account : w \in PkWallets}

PasskeyCeremonyContext ==
    [kind : CeremonyKind, challenge : PkChallenges, wallet : PkWallets,
     expiresAt : 0..(MaxPkTime + PkTtl)]

PasskeyAssertion ==
    [account : PkAccounts, credentialId : PkCredentialIds, sound : BOOLEAN]

PasskeyCredential == [wallet : PkWallets, status : {"active", "revoked"}]

\* assertContext, for a context createPasskeyCeremonyContext made.
ContextHolds(context) == pkNow < context.expiresAt

\* assertAssertion
AssertionHolds(assertion, context) ==
    /\ assertion.sound
    /\ assertion.account = context.wallet.account

PasskeyInit ==
    /\ pkNow = 0
    /\ challengeStore = EmptyMap /\ passkeys = EmptyMap /\ ceremonies = EmptyMap
    /\ challengeUse = EmptyMap /\ quietlyRevoked = {}

PasskeyTick ==
    /\ pkNow < MaxPkTime /\ pkNow' = pkNow + 1
    /\ UNCHANGED <<challengeStore, passkeys, ceremonies, challengeUse, quietlyRevoked>>

NewContext(kind, challenge, wallet) ==
    [kind |-> kind, challenge |-> challenge, wallet |-> wallet,
     expiresAt |-> pkNow + PkTtl]

\* createPasskeyCeremonyContext and ChallengeStore.put: a challenge once.
PutChallenge(kind, challenge, wallet) ==
    /\ challenge \notin DOMAIN challengeUse
    /\ challenge \notin DOMAIN challengeStore
    /\ challengeStore' = Put(challengeStore, challenge, NewContext(kind, challenge, wallet))
    /\ challengeUse' = Put(challengeUse, challenge,
                           [wallet |-> wallet, done |-> 0, by |-> None])
    /\ UNCHANGED <<pkNow, passkeys, ceremonies, quietlyRevoked>>

\* Mutant of ConsumeChallenge: the challenge stays in the store.
LookAtChallenge(challenge) == challengeStore' = challengeStore

\* ChallengeStore.consume takes the challenge out in the step of the call.
ConsumeChallenge(challenge) == challengeStore' = Drop(challengeStore, challenge)
-----------------------------------------------------------------------------
(* The operations of createPasskeyAuthService                              *)

AllowsRegistration(op) == op \in {"register", "rotate"}

\* The kinds of context each operation takes.
RequiredKinds(op) ==
    CASE AllowsRegistration(op) -> {"registration"}
      [] op = "authenticate"    -> {"authentication", "step-up"}
      [] op = "stepUp"          -> {"step-up"}

Begin(s, op, kind, challenge, assertion, old) ==
    /\ s \notin DOMAIN ceremonies
    /\ kind \in RequiredKinds(op)
    /\ challenge \in DOMAIN challengeStore       \* else CHALLENGE_REPLAYED
    /\ ConsumeChallenge(challenge)
    /\ ceremonies' = Put(ceremonies, s,
          [op |-> op, pc |-> "consumed", kind |-> kind, stored |-> challengeStore[challenge],
           assertion |-> assertion, existing |-> None, old |-> old])
    /\ UNCHANGED <<pkNow, passkeys, challengeUse, quietlyRevoked>>

Register(s, challenge, assertion) ==
    Begin(s, "register", "registration", challenge, assertion, None)

Authenticate(s, kind, challenge, assertion) ==
    Begin(s, "authenticate", kind, challenge, assertion, None)

StepUp(s, challenge, assertion) ==
    Begin(s, "stepUp", "step-up", challenge, assertion, None)

\* rotate reads the old passkey before the ceremony of the replacement.
Rotate(s, challenge, assertion, oldId) ==
    /\ oldId # assertion.credentialId
    /\ oldId \in DOMAIN passkeys /\ passkeys[oldId].status = "active"
    /\ Begin(s, "rotate", "registration", challenge, assertion,
             [id |-> oldId, credential |-> passkeys[oldId]])

\* Mutant of Existing: a revoked passkey counts as missing.
ExistingActive(id) ==
    IF id \in DOMAIN passkeys /\ passkeys[id].status = "active" THEN passkeys[id] ELSE None

Existing(id) == IF id \in DOMAIN passkeys THEN passkeys[id] ELSE None

\* What consumeAndVerify demands once the challenge is spent: the passkey exists
\* unless one is registered, is not revoked and belongs to the wallet.
MayProceed(c) ==
    LET existing == Existing(c.assertion.credentialId) IN
    /\ ContextHolds(c.stored) /\ c.stored.kind = c.kind
    /\ AssertionHolds(c.assertion, c.stored)
    /\ existing # None \/ AllowsRegistration(c.op)
    /\ existing # None => existing.status = "active" /\ existing.wallet = c.stored.wallet

\* The store has answered: the credential is read and the verifier asked.
AskVerifier(s) ==
    /\ s \in DOMAIN ceremonies /\ ceremonies[s].pc = "consumed"
    /\ LET c == ceremonies[s] IN
       ceremonies' = IF MayProceed(c)
                     THEN [ceremonies EXCEPT ![s].pc = "verify",
                                             ![s].existing = Existing(c.assertion.credentialId)]
                     ELSE Drop(ceremonies, s)
    /\ UNCHANGED <<pkNow, challengeStore, passkeys, challengeUse, quietlyRevoked>>

\* The credential read before the await is written, or a new one for the wallet.
CredentialToStore(c) ==
    IF c.existing # None THEN c.existing
    ELSE [wallet |-> c.stored.wallet, status |-> "active"]

VerifierAnswers(s, accepted) ==
    /\ s \in DOMAIN ceremonies /\ ceremonies[s].pc = "verify"
    /\ LET c == ceremonies[s]
           done == accepted /\ ~(AllowsRegistration(c.op) /\ c.existing # None)
       IN /\ passkeys' = IF done
                         THEN Put(passkeys, c.assertion.credentialId, CredentialToStore(c))
                         ELSE passkeys
          /\ challengeUse' = IF done
                THEN [challengeUse EXCEPT ![c.stored.challenge].done = @ + 1,
                                          ![c.stored.challenge].by = CredentialToStore(c)]
                ELSE challengeUse
          /\ ceremonies' = IF done /\ c.op = "rotate"
                           THEN [ceremonies EXCEPT ![s].pc = "revoke"]
                           ELSE Drop(ceremonies, s)
    /\ UNCHANGED <<pkNow, challengeStore, quietlyRevoked>>

\* No ceremony is between reading the credential and writing it.
NobodyHolds(id) ==
    ~\E s \in DOMAIN ceremonies :
        ceremonies[s].pc = "verify" /\ ceremonies[s].assertion.credentialId = id

WriteRevoked(id, credential) ==
    /\ passkeys' = Put(passkeys, id, [credential EXCEPT !.status = "revoked"])
    /\ quietlyRevoked' = IF NobodyHolds(id) THEN quietlyRevoked \cup {id} ELSE quietlyRevoked

\* rotate resumes: the old passkey, as it was read, is revoked.
RotationRevokes(s) ==
    /\ s \in DOMAIN ceremonies /\ ceremonies[s].pc = "revoke"
    /\ WriteRevoked(ceremonies[s].old.id, ceremonies[s].old.credential)
    /\ ceremonies' = Drop(ceremonies, s)
    /\ UNCHANGED <<pkNow, challengeStore, challengeUse>>

\* remove: some other passkey, of any wallet, must be active.
RemovePasskey(id, replacementId) ==
    /\ id # replacementId
    /\ replacementId \in DOMAIN passkeys /\ passkeys[replacementId].status = "active"
    /\ id \in DOMAIN passkeys
    /\ WriteRevoked(id, passkeys[id])
    /\ UNCHANGED <<pkNow, challengeStore, ceremonies, challengeUse>>

PasskeyNext ==
    \/ PasskeyTick
    \/ \E kind \in CeremonyKind, challenge \in PkChallenges, wallet \in PkWallets :
          PutChallenge(kind, challenge, wallet)
    \/ \E s \in Slots, challenge \in PkChallenges, assertion \in PasskeyAssertion :
          \/ Register(s, challenge, assertion)
          \/ \E kind \in CeremonyKind : Authenticate(s, kind, challenge, assertion)
          \/ StepUp(s, challenge, assertion)
          \/ \E oldId \in PkCredentialIds : Rotate(s, challenge, assertion, oldId)
    \/ \E s \in Slots :
          \/ AskVerifier(s) \/ RotationRevokes(s)
          \/ \E accepted \in BOOLEAN : VerifierAnswers(s, accepted)
    \/ \E id, replacementId \in PkCredentialIds : RemovePasskey(id, replacementId)

PasskeySpec == PasskeyInit /\ [][PasskeyNext]_pkVars

PasskeyTypeOK ==
    /\ pkNow \in 0..MaxPkTime
    /\ IsMap(challengeStore, PkChallenges, PasskeyCeremonyContext)
    /\ IsMap(passkeys, PkCredentialIds, PasskeyCredential)
    /\ DOMAIN ceremonies \subseteq Slots
    /\ DOMAIN challengeUse \subseteq PkChallenges
    /\ quietlyRevoked \subseteq DOMAIN passkeys
-----------------------------------------------------------------------------
\* A challenge carries at most one ceremony to its end, whoever presents it at
\* the same time, and the passkey of that ceremony belongs to the wallet the
\* challenge was put for.
PasskeyOneTime ==
    \A challenge \in DOMAIN challengeUse : LET u == challengeUse[challenge] IN
        /\ u.done <= 1
        /\ u.by # None => u.by.wallet = u.wallet

\* A passkey revoked while no ceremony had read it stays revoked, through every
\* registration, rotation and authentication that follows, and none of them asks
\* the verifier about it.  (One revoked during a ceremony comes back when that
\* ceremony writes what it had read.)
QuietRevocationIsFinal ==
    \A id \in quietlyRevoked : passkeys[id].status = "revoked" /\ NobodyHolds(id)
=============================================================================
