---------------------------- MODULE AccessProofs ----------------------------
(***************************************************************************)
(* Proofs about passkeys, social login, the web wallet with its protocols, *)
(* the console of an institution, and what a holder keeps: an inductive    *)
(* invariant of each component, and the properties of Access from them.    *)
(***************************************************************************)
EXTENDS Access, FiniteSetTheorems, JsMapTheorems, TLAPS
-----------------------------------------------------------------------------
(* AuthPasskey.                                                            *)

OldPasskey == [id : PkCredentialIds, credential : PasskeyCredential]

Ceremony ==
    [op : {"register", "authenticate", "stepUp", "rotate"},
     pc : {"consumed", "verify", "revoke"}, kind : CeremonyKind,
     stored : PasskeyCeremonyContext, assertion : PasskeyAssertion,
     existing : PasskeyCredential \cup {None}, old : OldPasskey \cup {None}]

PasskeyTypes ==
    /\ PasskeyTypeOK
    /\ IsMap(ceremonies, Slots, Ceremony)
    /\ IsMap(challengeUse, PkChallenges,
             [wallet : PkWallets, done : Nat, by : PasskeyCredential \cup {None}])

\* A stored challenge was put under its own name and has not been used.
StoredUnused ==
    \A ch \in DOMAIN challengeStore :
        /\ challengeStore[ch].challenge = ch /\ ch \in DOMAIN challengeUse
        /\ challengeUse[ch].done = 0 /\ challengeUse[ch].wallet = challengeStore[ch].wallet

\* A ceremony owns its challenge, which is used only when nothing but the
\* revocation of the old passkey is left to do, and writes to its own wallet.
CeremonyHolds(c, store, use) ==
    /\ c.stored.challenge \in DOMAIN use /\ c.stored.challenge \notin DOMAIN store
    /\ use[c.stored.challenge].wallet = c.stored.wallet
    /\ c.pc # "revoke" => use[c.stored.challenge].done = 0
    /\ c.pc = "verify" /\ c.existing # None => c.existing.wallet = c.stored.wallet
    /\ c.op = "rotate" => c.old \in OldPasskey
    /\ c.pc = "revoke" => c.op = "rotate"

ChallengesOwned ==
    /\ \A s \in DOMAIN ceremonies : CeremonyHolds(ceremonies[s], challengeStore, challengeUse)
    /\ \A s, t \in DOMAIN ceremonies :
          ceremonies[s].stored.challenge = ceremonies[t].stored.challenge => s = t

\* The inductive invariant of the ceremonies.
PasskeyInv ==
    PasskeyTypes /\ StoredUnused /\ ChallengesOwned /\ PasskeyOneTime /\ QuietRevocationIsFinal

LEMMA PasskeyStarts ==
    ASSUME PasskeyInit
    PROVE  PasskeyInv
  <1>1. DOMAIN EmptyMap = {}
    BY DEF EmptyMap
  <1>2. PasskeyTypes
    BY <1>1, EmptyMapType, PasskeyAssumption DEF PasskeyInit, PasskeyTypes, PasskeyTypeOK
  <1> QED  BY <1>1, <1>2 DEF PasskeyInit, PasskeyInv, StoredUnused, ChallengesOwned,
                             PasskeyOneTime, QuietRevocationIsFinal

LEMMA PutChallengeKeeps ==
    ASSUME PasskeyInv, NEW kind \in CeremonyKind, NEW ch \in PkChallenges,
           NEW w \in PkWallets, PutChallenge(kind, ch, w)
    PROVE  PasskeyInv'
  <1> DEFINE ctx == NewContext(kind, ch, w)
             use == [wallet |-> w, done |-> 0, by |-> None]
  <1>1. /\ challengeStore' = Put(challengeStore, ch, ctx)
        /\ challengeUse' = Put(challengeUse, ch, use)
        /\ ch \notin DOMAIN challengeUse /\ ch \notin DOMAIN challengeStore
        /\ UNCHANGED <<pkNow, passkeys, ceremonies, quietlyRevoked>>
    BY DEF PutChallenge
  <1>2. /\ ctx \in PasskeyCeremonyContext /\ ctx.challenge = ch /\ ctx.wallet = w
    BY PasskeyAssumption DEF PasskeyInv, PasskeyTypes, PasskeyTypeOK, NewContext,
                             PasskeyCeremonyContext
  <1>3. /\ use \in [wallet : PkWallets, done : Nat, by : PasskeyCredential \cup {None}]
        /\ use.done = 0 /\ use.wallet = w /\ use.by = None
    OBVIOUS
  <1> HIDE DEF ctx, use
  <1>4. /\ DOMAIN challengeStore' = DOMAIN challengeStore \cup {ch} /\ challengeStore'[ch] = ctx
        /\ DOMAIN challengeUse' = DOMAIN challengeUse \cup {ch} /\ challengeUse'[ch] = use
        /\ \A x \in DOMAIN challengeStore : challengeStore'[x] = challengeStore[x]
        /\ \A x \in DOMAIN challengeUse : challengeUse'[x] = challengeUse[x]
    BY <1>1 DEF Put
  <1>5. PasskeyTypes'
    BY <1>1, <1>2, <1>3, <1>4, PutType DEF PasskeyInv, PasskeyTypes, PasskeyTypeOK
  <1>6. StoredUnused'
    BY <1>1, <1>2, <1>3, <1>4 DEF PasskeyInv, StoredUnused
  <1>7. \A c : /\ CeremonyHolds(c, challengeStore, challengeUse) /\ c.stored.challenge # ch
               => CeremonyHolds(c, challengeStore', challengeUse')
    BY <1>1, <1>4 DEF CeremonyHolds
  <1>8. ChallengesOwned'
    BY <1>1, <1>7 DEF PasskeyInv, ChallengesOwned, CeremonyHolds
  <1>9. PasskeyOneTime'
    BY <1>3, <1>4 DEF PasskeyInv, PasskeyOneTime
  <1>10. QuietRevocationIsFinal'
    BY <1>1 DEF PasskeyInv, QuietRevocationIsFinal, NobodyHolds
  <1> QED  BY <1>5, <1>6, <1>8, <1>9, <1>10 DEF PasskeyInv

LEMMA BeginKeeps ==
    ASSUME PasskeyInv, NEW s \in Slots,
           NEW op \in {"register", "authenticate", "stepUp", "rotate"},
           NEW kind \in CeremonyKind, NEW ch \in PkChallenges,
           NEW assertion \in PasskeyAssertion, NEW old \in OldPasskey \cup {None},
           op = "rotate" => old \in OldPasskey,
           Begin(s, op, kind, ch, assertion, old)
    PROVE  PasskeyInv'
  <1> DEFINE c == [op |-> op, pc |-> "consumed", kind |-> kind, stored |-> challengeStore[ch],
                   assertion |-> assertion, existing |-> None, old |-> old]
  <1>1. /\ s \notin DOMAIN ceremonies /\ ch \in DOMAIN challengeStore
        /\ challengeStore' = Drop(challengeStore, ch) /\ ceremonies' = Put(ceremonies, s, c)
        /\ UNCHANGED <<pkNow, passkeys, challengeUse, quietlyRevoked>>
    BY DEF Begin, ConsumeChallenge
  <1>2. /\ challengeStore[ch] \in PasskeyCeremonyContext /\ challengeStore[ch].challenge = ch
        /\ ch \in DOMAIN challengeUse /\ challengeUse[ch].done = 0
        /\ challengeUse[ch].wallet = challengeStore[ch].wallet
    BY <1>1 DEF PasskeyInv, PasskeyTypes, PasskeyTypeOK, IsMap, StoredUnused
  <1>3. /\ c \in Ceremony /\ c.stored = challengeStore[ch] /\ c.pc = "consumed"
        /\ c.op = op /\ c.old = old
    BY <1>2 DEF Ceremony
  <1> HIDE DEF c
  <1>4. /\ DOMAIN challengeStore' = DOMAIN challengeStore \ {ch}
        /\ \A x \in DOMAIN challengeStore' : challengeStore'[x] = challengeStore[x]
        /\ DOMAIN ceremonies' = DOMAIN ceremonies \cup {s} /\ ceremonies'[s] = c
        /\ \A t \in DOMAIN ceremonies : ceremonies'[t] = ceremonies[t]
    BY <1>1 DEF Drop, Put
  <1>5. PasskeyTypes'
    BY <1>1, <1>3, <1>4, PutType, DropType DEF PasskeyInv, PasskeyTypes, PasskeyTypeOK
  <1>6. StoredUnused'
    BY <1>1, <1>4 DEF PasskeyInv, StoredUnused
  <1>7. \A d : CeremonyHolds(d, challengeStore, challengeUse)
               => CeremonyHolds(d, challengeStore', challengeUse')
    BY <1>1, <1>4 DEF CeremonyHolds
  <1>8. CeremonyHolds(c, challengeStore', challengeUse')
    BY <1>1, <1>2, <1>3, <1>4 DEF CeremonyHolds
  <1>9. \A t \in DOMAIN ceremonies : ceremonies[t].stored.challenge # ch
    BY <1>1 DEF PasskeyInv, ChallengesOwned, CeremonyHolds
  <1>10. \A t \in DOMAIN ceremonies' :
            CeremonyHolds(ceremonies'[t], challengeStore', challengeUse')
    BY <1>4, <1>7, <1>8 DEF PasskeyInv, ChallengesOwned
  <1>11. \A t, u \in DOMAIN ceremonies' :
            ceremonies'[t].stored.challenge = ceremonies'[u].stored.challenge => t = u
    BY <1>2, <1>3, <1>4, <1>9 DEF PasskeyInv, ChallengesOwned
  <1>12. ChallengesOwned'
    BY <1>10, <1>11 DEF ChallengesOwned
  <1>13. PasskeyOneTime'
    BY <1>1 DEF PasskeyInv, PasskeyOneTime
  <1>14. QuietRevocationIsFinal'
    BY <1>1, <1>3, <1>4 DEF PasskeyInv, QuietRevocationIsFinal, NobodyHolds
  <1> QED  BY <1>5, <1>6, <1>12, <1>13, <1>14 DEF PasskeyInv

\* rotate carries the passkey it read into the ceremony.
LEMMA RotateKeeps ==
    ASSUME PasskeyInv, NEW s \in Slots, NEW ch \in PkChallenges,
           NEW assertion \in PasskeyAssertion, NEW oldId \in PkCredentialIds,
           Rotate(s, ch, assertion, oldId)
    PROVE  PasskeyInv'
  <1> DEFINE old == [id |-> oldId, credential |-> passkeys[oldId]]
  <1>1. old \in OldPasskey
    BY DEF Rotate, PasskeyInv, PasskeyTypes, PasskeyTypeOK, IsMap, OldPasskey
  <1>2. Begin(s, "rotate", "registration", ch, assertion, old)
    BY DEF Rotate
  <1> HIDE DEF old
  <1> QED  BY <1>1, <1>2, BeginKeeps DEF CeremonyKind

\* The verifier has refused: the ceremony ends and leaves nothing.
LEMMA RefusalKeeps ==
    ASSUME PasskeyInv, NEW s, ceremonies' = Drop(ceremonies, s),
           UNCHANGED <<pkNow, challengeStore, passkeys, challengeUse, quietlyRevoked>>
    PROVE  PasskeyInv'
  <1>1. /\ DOMAIN ceremonies' = DOMAIN ceremonies \ {s}
        /\ \A t \in DOMAIN ceremonies' : ceremonies'[t] = ceremonies[t]
    BY DEF Drop
  <1>2. PasskeyTypes'
    BY <1>1, DropType DEF PasskeyInv, PasskeyTypes, PasskeyTypeOK
  <1>3. StoredUnused' /\ PasskeyOneTime'
    BY DEF PasskeyInv, StoredUnused, PasskeyOneTime
  <1>4. ChallengesOwned'
    BY <1>1 DEF PasskeyInv, ChallengesOwned
  <1>5. QuietRevocationIsFinal'
    BY <1>1 DEF PasskeyInv, QuietRevocationIsFinal, NobodyHolds
  <1> QED  BY <1>2, <1>3, <1>4, <1>5 DEF PasskeyInv

\* The credential is read and the verifier asked, or the ceremony ends.
LEMMA AskVerifierKeeps ==
    ASSUME PasskeyInv, NEW s \in Slots, AskVerifier(s)
    PROVE  PasskeyInv'
  <1> DEFINE c == ceremonies[s]
             id == c.assertion.credentialId
             d == [c EXCEPT !.pc = "verify", !.existing = Existing(id)]
  <1>1. /\ s \in DOMAIN ceremonies /\ c.pc = "consumed" /\ c \in Ceremony
        /\ CeremonyHolds(c, challengeStore, challengeUse)
        /\ UNCHANGED <<pkNow, challengeStore, passkeys, challengeUse, quietlyRevoked>>
    BY DEF AskVerifier, PasskeyInv, PasskeyTypes, IsMap, ChallengesOwned
  <1>2. /\ id \in PkCredentialIds /\ Existing(id) \in PasskeyCredential \cup {None}
    BY <1>1 DEF Existing, Ceremony, PasskeyAssertion, PasskeyInv, PasskeyTypes, PasskeyTypeOK,
                IsMap
  <1>3. CASE ~MayProceed(c)
    BY <1>1, <1>3, RefusalKeeps DEF AskVerifier
  <1>4. CASE MayProceed(c)
    <2>1. ceremonies' = [ceremonies EXCEPT ![s] = d]
      BY <1>1, <1>4 DEF AskVerifier
    <2>2. Existing(id) # None => /\ Existing(id).wallet = c.stored.wallet
                                /\ Existing(id).status = "active"
      BY <1>4 DEF MayProceed
    <2>3. /\ d \in Ceremony /\ d.pc = "verify" /\ d.op = c.op /\ d.old = c.old
          /\ d.stored = c.stored /\ d.existing = Existing(id) /\ d.assertion = c.assertion
      BY <1>1, <1>2 DEF Ceremony
    <2>4. id \notin quietlyRevoked
      BY <2>2, PasskeyAssumption DEF Existing, PasskeyInv, PasskeyTypes, PasskeyTypeOK, IsMap,
             QuietRevocationIsFinal, PasskeyCredential
    <2>5. CeremonyHolds(d, challengeStore', challengeUse')
      BY <1>1, <2>2, <2>3 DEF CeremonyHolds
    <2>6. d.assertion.credentialId \notin quietlyRevoked
      BY <2>3, <2>4
    <2>7. d.stored.challenge = ceremonies[s].stored.challenge
      BY <2>3
    <2>8. ceremonies' = [ceremonies EXCEPT ![s] = d] /\ d \in Ceremony
      BY <2>1, <2>3
    <2> HIDE DEF d, c
    <2>9. /\ DOMAIN ceremonies' = DOMAIN ceremonies /\ ceremonies'[s] = d
          /\ \A t \in DOMAIN ceremonies \ {s} : ceremonies'[t] = ceremonies[t]
      BY <1>1, <2>8 DEF PasskeyInv, PasskeyTypes, IsMap
    <2>10. PasskeyTypes'
      BY <1>1, <2>8, <2>9, UpdateType DEF PasskeyInv, PasskeyTypes, PasskeyTypeOK
    <2>11. StoredUnused' /\ PasskeyOneTime'
      BY <1>1 DEF PasskeyInv, StoredUnused, PasskeyOneTime
    <2>12. ChallengesOwned'
      BY <1>1, <2>5, <2>7, <2>9 DEF PasskeyInv, ChallengesOwned
    <2>13. QuietRevocationIsFinal'
      BY <1>1, <2>6, <2>9 DEF PasskeyInv, QuietRevocationIsFinal, NobodyHolds
    <2> QED  BY <2>10, <2>11, <2>12, <2>13 DEF PasskeyInv
  <1> QED  BY <1>3, <1>4

\* The verifier has accepted: the credential is written, the challenge used.
LEMMA AcceptanceKeeps ==
    ASSUME PasskeyInv, NEW s \in Slots, VerifierAnswers(s, TRUE),
           ~(AllowsRegistration(ceremonies[s].op) /\ ceremonies[s].existing # None)
    PROVE  PasskeyInv'
  <1> DEFINE c == ceremonies[s]
             id == c.assertion.credentialId
             ch == c.stored.challenge
             stored == CredentialToStore(c)
             one == challengeUse[ch].done + 1
             use == [challengeUse[ch] EXCEPT !.done = one, !.by = stored]
             d == [c EXCEPT !.pc = "revoke"]
  <1>0. /\ s \in DOMAIN ceremonies /\ UNCHANGED <<pkNow, challengeStore, quietlyRevoked>>
        /\ passkeys' = Put(passkeys, id, stored)
        /\ challengeUse' = [challengeUse EXCEPT ![ch].done = @ + 1, ![ch].by = stored]
        /\ ceremonies' = IF c.op = "rotate" THEN [ceremonies EXCEPT ![s].pc = "revoke"]
                         ELSE Drop(ceremonies, s)
    BY DEF VerifierAnswers
  <1>1. /\ c \in Ceremony /\ c.pc = "verify" /\ CeremonyHolds(c, challengeStore, challengeUse)
        /\ ch \in DOMAIN challengeUse /\ ch \notin DOMAIN challengeStore
        /\ challengeUse[ch] \in [wallet : PkWallets, done : Nat,
                                 by : PasskeyCredential \cup {None}]
        /\ challengeUse[ch].done = 0 /\ challengeUse[ch].wallet = c.stored.wallet
    BY <1>0 DEF VerifierAnswers, PasskeyInv, PasskeyTypes, IsMap, ChallengesOwned, CeremonyHolds
  <1>2. one = 1
    BY <1>1
  <1>3. /\ id \in PkCredentialIds /\ c.stored.wallet \in PkWallets
    BY <1>1 DEF Ceremony, PasskeyAssertion, PasskeyCeremonyContext
  <1>4. stored \in PasskeyCredential /\ stored.wallet = c.stored.wallet
    BY <1>1, <1>3 DEF CredentialToStore, CeremonyHolds, Ceremony, PasskeyCredential
  <1>5. challengeUse' = [challengeUse EXCEPT ![ch] = use]
    BY <1>0, <1>1
  <1> HIDE DEF one, stored
  <1>6. /\ use \in [wallet : PkWallets, done : Nat, by : PasskeyCredential \cup {None}]
        /\ use.done = 1 /\ use.by = stored /\ use.wallet = c.stored.wallet
    BY <1>1, <1>2, <1>4
  <1>7. passkeys' = Put(passkeys, id, stored)
    BY <1>0
  <1>8. /\ d \in Ceremony /\ d.pc = "revoke" /\ d.op = c.op /\ d.old = c.old
        /\ d.stored = c.stored /\ d.assertion = c.assertion
    BY <1>1 DEF Ceremony
  <1>9. id \notin quietlyRevoked
    BY <1>0, <1>1 DEF PasskeyInv, QuietRevocationIsFinal, NobodyHolds
  <1> HIDE DEF use
  <1>10. /\ DOMAIN challengeUse' = DOMAIN challengeUse /\ challengeUse'[ch] = use
         /\ \A x \in DOMAIN challengeUse \ {ch} : challengeUse'[x] = challengeUse[x]
    BY <1>1, <1>5 DEF PasskeyInv, PasskeyTypes, IsMap
  <1>11. IsMap(challengeUse', PkChallenges,
               [wallet : PkWallets, done : Nat, by : PasskeyCredential \cup {None}])
    BY <1>5, <1>6, UpdateType DEF PasskeyInv, PasskeyTypes
  <1>20. IsMap(passkeys', PkCredentialIds, PasskeyCredential)
    BY <1>3, <1>4, <1>7, PutType DEF PasskeyInv, PasskeyTypes, PasskeyTypeOK
  <1>12. /\ DOMAIN passkeys \subseteq DOMAIN passkeys'
         /\ \A x \in DOMAIN passkeys \ {id} : passkeys'[x] = passkeys[x]
    BY <1>7 DEF Put
  <1>13. StoredUnused'
    BY <1>0, <1>1, <1>10 DEF PasskeyInv, StoredUnused
  <1>21. \A x \in DOMAIN challengeUse \ {ch} :
            /\ challengeUse'[x].done <= 1
            /\ challengeUse'[x].by # None => challengeUse'[x].by.wallet = challengeUse'[x].wallet
    BY <1>10 DEF PasskeyInv, PasskeyOneTime
  <1>22. /\ challengeUse'[ch].done <= 1
         /\ challengeUse'[ch].by.wallet = challengeUse'[ch].wallet
    BY <1>4, <1>6, <1>10
  <1>14. PasskeyOneTime'
    BY <1>10, <1>21, <1>22 DEF PasskeyOneTime
  <1>15. \A x \in quietlyRevoked : passkeys'[x].status = "revoked"
    BY <1>9, <1>12 DEF PasskeyInv, PasskeyTypes, PasskeyTypeOK, QuietRevocationIsFinal
  <1>16. \A e : /\ CeremonyHolds(e, challengeStore, challengeUse) /\ e.stored.challenge # ch
                => CeremonyHolds(e, challengeStore', challengeUse')
    BY <1>0, <1>10 DEF CeremonyHolds
  <1>17. /\ \A t \in DOMAIN ceremonies \ {s} :
              CeremonyHolds(ceremonies[t], challengeStore', challengeUse')
    BY <1>0, <1>16 DEF PasskeyInv, ChallengesOwned
  <1>18. CASE c.op # "rotate"
    <2>1. /\ ceremonies' = Drop(ceremonies, s)
          /\ DOMAIN ceremonies' = DOMAIN ceremonies \ {s}
          /\ \A t \in DOMAIN ceremonies' : ceremonies'[t] = ceremonies[t]
      BY <1>0, <1>18 DEF Drop
    <2>2. PasskeyTypes'
      <3>1. IsMap(ceremonies', Slots, Ceremony)
        BY <2>1, DropType DEF PasskeyInv, PasskeyTypes
      <3>2. UNCHANGED <<pkNow, challengeStore, quietlyRevoked>>
        BY <1>0
      <3>3. DOMAIN ceremonies' \subseteq Slots
        BY <2>1 DEF PasskeyInv, PasskeyTypes, PasskeyTypeOK
      <3> HIDE DEF c, ch, id, d
      <3> QED  BY <1>10, <1>11, <1>12, <1>20, <3>1, <3>2, <3>3
               DEF PasskeyInv, PasskeyTypes, PasskeyTypeOK
    <2>3. ChallengesOwned'
      BY <1>17, <2>1 DEF PasskeyInv, ChallengesOwned
    <2>4. QuietRevocationIsFinal'
      <3>1. \A x \in quietlyRevoked : NobodyHolds(x)'
        BY <2>1 DEF PasskeyInv, QuietRevocationIsFinal, NobodyHolds
      <3> HIDE DEF c, ch, id, d
      <3> QED  BY <1>0, <1>15, <3>1 DEF QuietRevocationIsFinal
    <2> QED  BY <1>13, <1>14, <2>2, <2>3, <2>4 DEF PasskeyInv
  <1>19. CASE c.op = "rotate"
    <2>1. ceremonies' = [ceremonies EXCEPT ![s] = d]
      BY <1>0, <1>19
    <2>2. CeremonyHolds(d, challengeStore', challengeUse')
      BY <1>0, <1>1, <1>6, <1>8, <1>10, <1>19 DEF CeremonyHolds
    <2>3. d.stored.challenge = ceremonies[s].stored.challenge
      BY <1>8
    <2>4. d \in Ceremony /\ d.pc # "verify"
      BY <1>8
    <2> HIDE DEF d, c, ch, id
    <2>5. /\ DOMAIN ceremonies' = DOMAIN ceremonies /\ ceremonies'[s] = d
          /\ \A t \in DOMAIN ceremonies \ {s} : ceremonies'[t] = ceremonies[t]
      BY <1>0, <2>1 DEF PasskeyInv, PasskeyTypes, IsMap
    <2>6. PasskeyTypes'
      <3>1. IsMap(ceremonies', Slots, Ceremony)
        BY <2>1, <2>4, UpdateType DEF PasskeyInv, PasskeyTypes
      <3>2. UNCHANGED <<pkNow, challengeStore, quietlyRevoked>>
        BY <1>0
      <3> QED  BY <1>10, <1>11, <1>12, <1>20, <2>5, <3>1, <3>2 DEF PasskeyInv, PasskeyTypes,
                  PasskeyTypeOK
    <2>7. ChallengesOwned'
      <3>1. \A t \in DOMAIN ceremonies' :
               CeremonyHolds(ceremonies'[t], challengeStore', challengeUse')
        BY <1>17, <2>2, <2>5
      <3>2. \A t \in DOMAIN ceremonies' :
               ceremonies'[t].stored.challenge = ceremonies[t].stored.challenge
        BY <2>3, <2>5
      <3> QED  BY <2>5, <3>1, <3>2 DEF PasskeyInv, ChallengesOwned
    <2>8. QuietRevocationIsFinal'
      BY <1>0, <1>15, <2>4, <2>5 DEF PasskeyInv, QuietRevocationIsFinal, NobodyHolds
    <2> QED  BY <1>13, <1>14, <2>6, <2>7, <2>8 DEF PasskeyInv
  <1> QED  BY <1>18, <1>19

LEMMA VerifierAnswersKeeps ==
    ASSUME PasskeyInv, NEW s \in Slots, NEW accepted \in BOOLEAN, VerifierAnswers(s, accepted)
    PROVE  PasskeyInv'
  <1> DEFINE done == accepted /\ ~(/\ AllowsRegistration(ceremonies[s].op)
                                  /\ ceremonies[s].existing # None)
  <1>1. CASE done
    <2>1. accepted = TRUE
      BY <1>1
    <2> QED  BY <1>1, <2>1, AcceptanceKeeps
  <1>2. CASE ~done
    <2>1. /\ ceremonies' = Drop(ceremonies, s)
          /\ UNCHANGED <<pkNow, challengeStore, passkeys, challengeUse, quietlyRevoked>>
      BY <1>2 DEF VerifierAnswers
    <2> QED  BY <2>1, RefusalKeeps
  <1> QED  BY <1>1, <1>2

\* A passkey is revoked, by remove or at the end of a rotation.
LEMMA WriteRevokedKeeps ==
    ASSUME PasskeyInv, NEW id \in PkCredentialIds, NEW credential \in PasskeyCredential,
           WriteRevoked(id, credential), UNCHANGED <<pkNow, challengeStore, challengeUse>>,
           \/ UNCHANGED ceremonies
           \/ \E s \in Slots : ceremonies' = Drop(ceremonies, s)
    PROVE  PasskeyInv'
  <1> DEFINE revoked == [credential EXCEPT !.status = "revoked"]
  <1>1. revoked \in PasskeyCredential /\ revoked.status = "revoked"
    BY DEF PasskeyCredential
  <1>2. /\ passkeys' = Put(passkeys, id, revoked)
        /\ quietlyRevoked' \subseteq quietlyRevoked \cup {id}
        /\ id \in quietlyRevoked' \ quietlyRevoked => NobodyHolds(id)
    BY DEF WriteRevoked
  <1> HIDE DEF revoked
  <1>3. /\ DOMAIN passkeys' = DOMAIN passkeys \cup {id} /\ passkeys'[id] = revoked
        /\ \A x \in DOMAIN passkeys \ {id} : passkeys'[x] = passkeys[x]
    BY <1>2 DEF Put
  <1>4. /\ DOMAIN ceremonies' \subseteq DOMAIN ceremonies
        /\ \A t \in DOMAIN ceremonies' : ceremonies'[t] = ceremonies[t]
    BY DEF Drop
  <1>5. IsMap(ceremonies', Slots, Ceremony)
    BY DropType DEF PasskeyInv, PasskeyTypes
  <1>6. PasskeyTypes'
    BY <1>1, <1>2, <1>3, <1>5, PutType DEF PasskeyInv, PasskeyTypes, PasskeyTypeOK, IsMap
  <1>7. StoredUnused' /\ PasskeyOneTime'
    BY DEF PasskeyInv, StoredUnused, PasskeyOneTime
  <1>8. ChallengesOwned'
    BY <1>4 DEF PasskeyInv, ChallengesOwned
  <1>9. \A x \in quietlyRevoked' : NobodyHolds(x)
    BY <1>2 DEF PasskeyInv, QuietRevocationIsFinal
  <1>10. \A x \in quietlyRevoked' : passkeys'[x].status = "revoked"
    BY <1>1, <1>2, <1>3 DEF PasskeyInv, PasskeyTypes, PasskeyTypeOK, QuietRevocationIsFinal
  <1>11. QuietRevocationIsFinal'
    BY <1>4, <1>9, <1>10 DEF QuietRevocationIsFinal, NobodyHolds
  <1> QED  BY <1>6, <1>7, <1>8, <1>11 DEF PasskeyInv

\* Challenges and revocations hold through every interleaving of ceremonies.
LEMMA PasskeyInvariant == PasskeySpec => []PasskeyInv
  <1>1. PasskeyInit => PasskeyInv
    BY PasskeyStarts
  <1>2. ASSUME PasskeyInv, [PasskeyNext]_pkVars PROVE PasskeyInv'
    <2>1. CASE PasskeyTick
      <3>1. /\ pkNow' \in 0 .. MaxPkTime
            /\ UNCHANGED <<challengeStore, passkeys, ceremonies, challengeUse, quietlyRevoked>>
        BY <1>2, <2>1, PasskeyAssumption DEF PasskeyTick, PasskeyInv, PasskeyTypes, PasskeyTypeOK
      <3>2. PasskeyTypes'
        BY <1>2, <3>1 DEF PasskeyInv, PasskeyTypes, PasskeyTypeOK, IsMap
      <3> QED  BY <1>2, <3>1, <3>2 DEF PasskeyInv, StoredUnused, ChallengesOwned,
                  PasskeyOneTime, QuietRevocationIsFinal, NobodyHolds
    <2>2. ASSUME NEW kind \in CeremonyKind, NEW ch \in PkChallenges, NEW w \in PkWallets,
                 PutChallenge(kind, ch, w)
          PROVE  PasskeyInv'
      BY <1>2, <2>2, PutChallengeKeeps
    <2>3. ASSUME NEW s \in Slots, NEW ch \in PkChallenges, NEW a \in PasskeyAssertion,
                 \/ Register(s, ch, a)
                 \/ \E kind \in CeremonyKind : Authenticate(s, kind, ch, a)
                 \/ StepUp(s, ch, a)
          PROVE  PasskeyInv'
      BY <1>2, <2>3, BeginKeeps DEF Register, Authenticate, StepUp, CeremonyKind
    <2>4. ASSUME NEW s \in Slots, NEW ch \in PkChallenges, NEW a \in PasskeyAssertion,
                 NEW oldId \in PkCredentialIds, Rotate(s, ch, a, oldId)
          PROVE  PasskeyInv'
      BY <1>2, <2>4, RotateKeeps
    <2>5. ASSUME NEW s \in Slots, AskVerifier(s) PROVE PasskeyInv'
      BY <1>2, <2>5, AskVerifierKeeps
    <2>6. ASSUME NEW s \in Slots, NEW accepted \in BOOLEAN, VerifierAnswers(s, accepted)
          PROVE  PasskeyInv'
      BY <1>2, <2>6, VerifierAnswersKeeps
    <2>7. ASSUME NEW s \in Slots, RotationRevokes(s) PROVE PasskeyInv'
      <3> DEFINE old == ceremonies[s].old
      <3>1. old \in OldPasskey
        BY <1>2, <2>7 DEF RotationRevokes, PasskeyInv, ChallengesOwned, CeremonyHolds
      <3>2. /\ old.id \in PkCredentialIds /\ old.credential \in PasskeyCredential
            /\ WriteRevoked(old.id, old.credential)
        BY <2>7, <3>1 DEF RotationRevokes, OldPasskey
      <3>3. /\ UNCHANGED <<pkNow, challengeStore, challengeUse>>
            /\ \E t \in Slots : ceremonies' = Drop(ceremonies, t)
        BY <2>7 DEF RotationRevokes
      <3> QED  BY <1>2, <3>2, <3>3, WriteRevokedKeeps
    <2>8. ASSUME NEW id \in PkCredentialIds, NEW other \in PkCredentialIds,
                 RemovePasskey(id, other)
          PROVE  PasskeyInv'
      <3>1. /\ passkeys[id] \in PasskeyCredential /\ WriteRevoked(id, passkeys[id])
            /\ UNCHANGED <<pkNow, challengeStore, ceremonies, challengeUse>>
        BY <1>2, <2>8 DEF RemovePasskey, PasskeyInv, PasskeyTypes, PasskeyTypeOK, IsMap
      <3> QED  BY <1>2, <3>1, WriteRevokedKeeps
    <2>9. CASE UNCHANGED pkVars
      BY <1>2, <2>9 DEF pkVars, PasskeyInv, PasskeyTypes, PasskeyTypeOK, IsMap, StoredUnused,
                        ChallengesOwned, PasskeyOneTime, QuietRevocationIsFinal, NobodyHolds
    <2> QED  BY <1>2, <2>1, <2>2, <2>3, <2>4, <2>5, <2>6, <2>7, <2>8, <2>9 DEF PasskeyNext
  <1> QED  BY <1>1, <1>2, PTL DEF PasskeySpec

\* A passkey revoked while no ceremony had read it is revoked for good.
THEOREM QuietRevocations == PasskeySpec => []QuietRevocationIsFinal
  <1>1. PasskeyInv => QuietRevocationIsFinal
    BY DEF PasskeyInv
  <1> QED  BY <1>1, PasskeyInvariant, PTL
-----------------------------------------------------------------------------
(* AuthOidc.                                                               *)

OidcShown == [issuer : OidcProviders, subject : OidcSubjects, nonce : OidcStateIds]

OidcLogin ==
    [made : OidcState, done : {0, 1}, identity : OidcShown \cup {None},
     account : OidcAccountIds \cup {None}, signedIn : OidcAccountIds \cup {None}]

OidcCallback ==
    [pc : {"token", "find", "attach", "linked", "create"}, state : OidcStateIds,
     made : OidcState, authenticated : OidcAccountIds \cup {None},
     identity : OidcShown \cup {None}]

OidcUnlink == [pc : {"detach"}, account : OidcAccountIds, identity : OidcIdentity]

OidcTypes ==
    /\ OidcTypeOK /\ oidcNow \in 0 .. MaxOidcTime
    /\ IsMap(oidcLogins, OidcStateIds, OidcLogin)
    /\ IsMap(oidcCalls, Slots, OidcCallback \cup OidcUnlink)

\* A state that waits for its callback has completed no login.
StatesUnused ==
    \A state \in DOMAIN oidcStates :
        /\ state \in DOMAIN oidcLogins
        /\ oidcLogins[state].made = oidcStates[state] /\ oidcLogins[state].done = 0

\* A callback under way owns its state, which has completed no login; once the
\* token is in, its identity is of that provider and that state, a caller who
\* links is signed in, and one who gets a new account does not link.
CallbackHolds(c, states, logins) ==
    c.pc # "detach" =>
        /\ c.state \in DOMAIN logins /\ c.state \notin DOMAIN states
        /\ logins[c.state].made = c.made /\ logins[c.state].done = 0
        /\ c.pc # "token" => /\ c.identity \in OidcShown
                             /\ c.identity.issuer = c.made.provider
                             /\ c.identity.nonce = c.state
        /\ c.pc \in {"attach", "linked"} => c.authenticated # None
        /\ c.pc = "create" => ~c.made.linking

SameState(c, d) == c.pc # "detach" /\ d.pc # "detach" /\ c.state = d.state

StatesOwned ==
    /\ \A s \in DOMAIN oidcCalls : CallbackHolds(oidcCalls[s], oidcStates, oidcLogins)
    /\ \A s, t \in DOMAIN oidcCalls : SameState(oidcCalls[s], oidcCalls[t]) => s = t

\* The inductive invariant of logins with a provider.
OidcInv == OidcTypes /\ StatesUnused /\ StatesOwned /\ OidcOneTime

LEMMA OidcStarts ==
    ASSUME OidcInit
    PROVE  OidcInv
  <1>1. DOMAIN EmptyMap = {}
    BY DEF EmptyMap
  <1>2. OidcTypes
    BY <1>1, EmptyMapType, OidcAssumption DEF OidcInit, OidcTypes, OidcTypeOK
  <1> QED  BY <1>1, <1>2 DEF OidcInit, OidcInv, StatesUnused, StatesOwned, OidcOneTime

LEMMA StartLoginKeeps ==
    ASSUME OidcInv, NEW state \in OidcStateIds, NEW provider \in OidcProviders,
           NEW linking \in BOOLEAN, StartLogin(state, provider, linking)
    PROVE  OidcInv'
  <1> DEFINE value == [provider |-> provider, expiresAt |-> oidcNow + StateTtl,
                       linking |-> linking]
             login == [made |-> value, done |-> 0, identity |-> None, account |-> None,
                       signedIn |-> None]
  <1>1. /\ state \notin DOMAIN oidcLogins
        /\ oidcStates' = Put(oidcStates, state, value)
        /\ oidcLogins' = Put(oidcLogins, state, login)
        /\ UNCHANGED <<oidcNow, oidcAccounts, oidcCalls>>
    BY DEF StartLogin
  <1>2. value \in OidcState
    BY OidcAssumption DEF OidcInv, OidcTypes, OidcState
  <1> HIDE DEF value
  <1>3. login \in OidcLogin /\ login.made = value /\ login.done = 0
    BY <1>2 DEF OidcLogin
  <1> HIDE DEF login
  <1>4. /\ DOMAIN oidcStates' = DOMAIN oidcStates \cup {state} /\ oidcStates'[state] = value
        /\ DOMAIN oidcLogins' = DOMAIN oidcLogins \cup {state} /\ oidcLogins'[state] = login
        /\ \A x \in DOMAIN oidcStates \ {state} : oidcStates'[x] = oidcStates[x]
        /\ \A x \in DOMAIN oidcLogins : oidcLogins'[x] = oidcLogins[x]
    BY <1>1 DEF Put
  <1>5. OidcTypes'
    BY <1>1, <1>2, <1>3, PutType DEF OidcInv, OidcTypes, OidcTypeOK
  <1>6. StatesUnused'
    BY <1>3, <1>4 DEF OidcInv, StatesUnused
  <1>7. \A c : CallbackHolds(c, oidcStates, oidcLogins)
               => CallbackHolds(c, oidcStates', oidcLogins')
    BY <1>1, <1>4 DEF CallbackHolds
  <1>8. StatesOwned'
    BY <1>1, <1>7 DEF OidcInv, StatesOwned
  <1>9. OidcOneTime'
    BY <1>3, <1>4 DEF OidcInv, OidcOneTime
  <1> QED  BY <1>5, <1>6, <1>8, <1>9 DEF OidcInv

\* A call ends, or an unlink writes, and completes nothing.
LEMMA OidcCallEnds ==
    ASSUME OidcInv, NEW s, oidcCalls' = Drop(oidcCalls, s),
           IsMap(oidcAccounts', OidcAccountIds, OidcAccount),
           UNCHANGED <<oidcNow, oidcStates, oidcLogins>>
    PROVE  OidcInv'
  <1>1. /\ DOMAIN oidcCalls' = DOMAIN oidcCalls \ {s}
        /\ \A t \in DOMAIN oidcCalls' : oidcCalls'[t] = oidcCalls[t]
    BY DEF Drop
  <1>2. OidcTypes'
    BY <1>1, DropType DEF OidcInv, OidcTypes, OidcTypeOK
  <1>3. StatesUnused' /\ OidcOneTime'
    BY DEF OidcInv, StatesUnused, OidcOneTime
  <1>4. StatesOwned'
    BY <1>1 DEF OidcInv, StatesOwned
  <1> QED  BY <1>2, <1>3, <1>4 DEF OidcInv

\* A call goes on with its state.
LEMMA OidcCallMoves ==
    ASSUME OidcInv, NEW s \in DOMAIN oidcCalls, NEW c,
           oidcCalls' = [oidcCalls EXCEPT ![s] = c], c \in OidcCallback,
           oidcCalls[s].pc # "detach", c.state = oidcCalls[s].state,
           CallbackHolds(c, oidcStates, oidcLogins),
           IsMap(oidcAccounts', OidcAccountIds, OidcAccount),
           UNCHANGED <<oidcNow, oidcStates, oidcLogins>>
    PROVE  OidcInv'
  <1>1. /\ DOMAIN oidcCalls' = DOMAIN oidcCalls /\ oidcCalls'[s] = c
        /\ \A t \in DOMAIN oidcCalls \ {s} : oidcCalls'[t] = oidcCalls[t]
    BY DEF OidcInv, OidcTypes, IsMap
  <1>2. IsMap(oidcCalls', Slots, OidcCallback \cup OidcUnlink)
    BY UpdateType DEF OidcInv, OidcTypes
  <1>3. OidcTypes'
    BY <1>1, <1>2 DEF OidcInv, OidcTypes, OidcTypeOK
  <1>4. StatesUnused' /\ OidcOneTime'
    BY DEF OidcInv, StatesUnused, OidcOneTime
  <1>5. \A t \in DOMAIN oidcCalls' : CallbackHolds(oidcCalls'[t], oidcStates', oidcLogins')
    BY <1>1 DEF OidcInv, StatesOwned
  <1>6. \A t, u \in DOMAIN oidcCalls' :
           SameState(oidcCalls'[t], oidcCalls'[u]) => SameState(oidcCalls[t], oidcCalls[u])
    BY <1>1 DEF SameState
  <1>7. StatesOwned'
    BY <1>1, <1>5, <1>6 DEF OidcInv, StatesOwned
  <1> QED  BY <1>3, <1>4, <1>7 DEF OidcInv

\* A call with another state, or none, begins.
LEMMA OidcCallBegins ==
    ASSUME OidcInv, NEW s \in Slots, s \notin DOMAIN oidcCalls,
           NEW c \in OidcCallback \cup OidcUnlink, oidcCalls' = Put(oidcCalls, s, c),
           IsMap(oidcStates', OidcStateIds, OidcState),
           CallbackHolds(c, oidcStates', oidcLogins),
           \A x \in DOMAIN oidcStates' : x \in DOMAIN oidcStates /\ oidcStates'[x] = oidcStates[x],
           c.pc # "detach" => c.state \in DOMAIN oidcStates,
           UNCHANGED <<oidcNow, oidcAccounts, oidcLogins>>
    PROVE  OidcInv'
  <1>1. /\ DOMAIN oidcCalls' = DOMAIN oidcCalls \cup {s} /\ oidcCalls'[s] = c
        /\ \A t \in DOMAIN oidcCalls : oidcCalls'[t] = oidcCalls[t]
    BY DEF Put
  <1>2. IsMap(oidcCalls', Slots, OidcCallback \cup OidcUnlink)
    BY PutType DEF OidcInv, OidcTypes
  <1>3. OidcTypes'
    BY <1>1, <1>2 DEF OidcInv, OidcTypes, OidcTypeOK
  <1>4. StatesUnused' /\ OidcOneTime'
    BY DEF OidcInv, StatesUnused, OidcOneTime
  <1>5. \A d : CallbackHolds(d, oidcStates, oidcLogins) =>
                  CallbackHolds(d, oidcStates', oidcLogins)
    BY DEF CallbackHolds
  <1>6. \A t \in DOMAIN oidcCalls' : CallbackHolds(oidcCalls'[t], oidcStates', oidcLogins')
    BY <1>1, <1>5 DEF OidcInv, StatesOwned
  <1>7. \A t \in DOMAIN oidcCalls : ~SameState(oidcCalls[t], c) /\ ~SameState(c, oidcCalls[t])
    BY DEF OidcInv, StatesOwned, CallbackHolds, SameState
  <1>8. StatesOwned'
    BY <1>1, <1>6, <1>7 DEF OidcInv, StatesOwned
  <1> QED  BY <1>3, <1>4, <1>8 DEF OidcInv

\* A callback that may complete its login does so, once.
LEMMA LoggedInKeeps ==
    ASSUME OidcInv, NEW s \in DOMAIN oidcCalls, NEW account \in OidcAccountIds,
           oidcCalls[s].pc \in {"find", "linked", "create"},
           oidcCalls[s].pc = "find" => ~oidcCalls[s].made.linking,
           LoggedIn(s, account), IsMap(oidcAccounts', OidcAccountIds, OidcAccount),
           UNCHANGED <<oidcNow, oidcStates>>
    PROVE  OidcInv'
  <1> DEFINE c == oidcCalls[s]
             old == oidcLogins[c.state]
             one == old.done + 1
             new == [old EXCEPT !.done = one, !.identity = c.identity, !.account = account,
                                !.signedIn = c.authenticated]
  <1>1. /\ c \in OidcCallback /\ CallbackHolds(c, oidcStates, oidcLogins)
        /\ c.pc \in {"find", "linked", "create"}
    BY DEF OidcInv, OidcTypes, IsMap, StatesOwned, OidcUnlink
  <1>2. /\ c.state \in DOMAIN oidcLogins /\ c.state \notin DOMAIN oidcStates
        /\ old.made = c.made /\ old.done = 0 /\ c.identity \in OidcShown
        /\ c.identity.issuer = c.made.provider /\ c.identity.nonce = c.state
        /\ c.pc = "linked" => c.authenticated # None
        /\ c.pc # "linked" => ~c.made.linking
    BY <1>1 DEF CallbackHolds
  <1>3. old \in OidcLogin /\ c.authenticated \in OidcAccountIds \cup {None}
    BY <1>1, <1>2 DEF OidcInv, OidcTypes, IsMap, OidcCallback
  <1>4. one = 1
    BY <1>2
  <1>5. /\ oidcLogins' = [oidcLogins EXCEPT ![c.state] = new]
        /\ oidcCalls' = Drop(oidcCalls, s)
    BY DEF LoggedIn
  <1> HIDE DEF one
  <1>6. /\ new \in OidcLogin /\ new.done = 1 /\ new.identity = c.identity
        /\ new.made = c.made /\ new.signedIn = c.authenticated
    BY <1>2, <1>3, <1>4 DEF OidcLogin
  <1> HIDE DEF new, old
  <1>7. /\ DOMAIN oidcLogins' = DOMAIN oidcLogins /\ oidcLogins'[c.state] = new
        /\ \A x \in DOMAIN oidcLogins \ {c.state} : oidcLogins'[x] = oidcLogins[x]
    BY <1>2, <1>5 DEF OidcInv, OidcTypes, IsMap
  <1>8. /\ DOMAIN oidcCalls' = DOMAIN oidcCalls \ {s}
        /\ \A t \in DOMAIN oidcCalls' : oidcCalls'[t] = oidcCalls[t]
    BY <1>5 DEF Drop
  <1>9. OidcTypes'
    <2>1. IsMap(oidcLogins', OidcStateIds, OidcLogin)
      BY <1>5, <1>6, UpdateType DEF OidcInv, OidcTypes
    <2>2. IsMap(oidcCalls', Slots, OidcCallback \cup OidcUnlink)
      BY <1>5, DropType DEF OidcInv, OidcTypes
    <2> QED  BY <1>8, <2>1, <2>2 DEF OidcInv, OidcTypes, OidcTypeOK
  <1>10. StatesUnused'
    BY <1>2, <1>7 DEF OidcInv, StatesUnused
  <1>11. \A t \in DOMAIN oidcCalls' : oidcCalls[t].pc # "detach" => oidcCalls[t].state # c.state
    BY <1>1, <1>8 DEF OidcInv, StatesOwned, SameState
  <1>12. \A d : /\ CallbackHolds(d, oidcStates, oidcLogins)
                /\ d.pc # "detach" => d.state # c.state
                => CallbackHolds(d, oidcStates', oidcLogins')
    BY <1>7 DEF CallbackHolds
  <1>13. \A t \in DOMAIN oidcCalls' : CallbackHolds(oidcCalls'[t], oidcStates', oidcLogins')
    BY <1>8, <1>11, <1>12 DEF OidcInv, StatesOwned
  <1>14. StatesOwned'
    BY <1>8, <1>13 DEF OidcInv, StatesOwned
  <1>15. OidcOneTime'
    <2>1. c.made.linking => c.authenticated # None
      BY <1>2
    <2> QED  BY <1>2, <1>6, <1>7, <2>1 DEF OidcInv, OidcOneTime
  <1> QED  BY <1>9, <1>10, <1>14, <1>15 DEF OidcInv

\* The state is spent by the callback, whether or not it goes on.
LEMMA CallbackKeeps ==
    ASSUME OidcInv, NEW s \in Slots, NEW provider \in OidcProviders, NEW state \in OidcStateIds,
           NEW authenticated \in DOMAIN oidcAccounts \cup {None},
           Callback(s, provider, state, authenticated)
    PROVE  OidcInv'
  <1> DEFINE value == oidcStates[state]
             c == [pc |-> "token", state |-> state, made |-> value,
                   authenticated |-> authenticated, identity |-> None]
  <1>1. /\ s \notin DOMAIN oidcCalls /\ state \in DOMAIN oidcStates
        /\ oidcStates' = Drop(oidcStates, state)
        /\ oidcCalls' \in {oidcCalls, Put(oidcCalls, s, c)}
        /\ UNCHANGED <<oidcNow, oidcAccounts, oidcLogins>>
    BY DEF Callback
  <1>2. /\ value \in OidcState /\ authenticated \in OidcAccountIds \cup {None}
        /\ state \in DOMAIN oidcLogins /\ oidcLogins[state].made = value
        /\ oidcLogins[state].done = 0
    BY <1>1 DEF OidcInv, OidcTypes, OidcTypeOK, IsMap, StatesUnused
  <1>3. /\ c \in OidcCallback /\ c.pc = "token" /\ c.state = state /\ c.made = value
    BY <1>2 DEF OidcCallback
  <1> HIDE DEF c, value
  <1>4. /\ DOMAIN oidcStates' = DOMAIN oidcStates \ {state}
        /\ \A x \in DOMAIN oidcStates' : oidcStates'[x] = oidcStates[x]
    BY <1>1 DEF Drop
  <1>5. IsMap(oidcStates', OidcStateIds, OidcState)
    BY <1>1, DropType DEF OidcInv, OidcTypes, OidcTypeOK
  <1>6. CallbackHolds(c, oidcStates', oidcLogins)
    BY <1>2, <1>3, <1>4 DEF CallbackHolds
  <1>7. CASE oidcCalls' = Put(oidcCalls, s, c)
    BY <1>1, <1>3, <1>4, <1>5, <1>6, <1>7, OidcCallBegins
  <1>8. CASE oidcCalls' = oidcCalls
    <2>1. OidcTypes'
      BY <1>1, <1>5, <1>8 DEF OidcInv, OidcTypes, OidcTypeOK, IsMap
    <2>2. StatesUnused' /\ OidcOneTime'
      BY <1>1, <1>4 DEF OidcInv, StatesUnused, OidcOneTime
    <2>3. \A d : CallbackHolds(d, oidcStates, oidcLogins)
                 => CallbackHolds(d, oidcStates', oidcLogins')
      BY <1>1, <1>4 DEF CallbackHolds
    <2>4. StatesOwned'
      BY <1>8, <2>3 DEF OidcInv, StatesOwned
    <2> QED  BY <2>1, <2>2, <2>4 DEF OidcInv
  <1> QED  BY <1>1, <1>7, <1>8

LEMMA TokenArrivesKeeps ==
    ASSUME OidcInv, NEW s \in Slots, NEW token \in IdToken, TokenArrives(s, token)
    PROVE  OidcInv'
  <1> DEFINE c == oidcCalls[s]
             shown == [issuer |-> token.issuer, subject |-> token.subject, nonce |-> token.nonce]
             d == [c EXCEPT !.pc = "find", !.identity = shown]
  <1>1. /\ s \in DOMAIN oidcCalls /\ c.pc = "token" /\ c \in OidcCallback
        /\ CallbackHolds(c, oidcStates, oidcLogins)
        /\ UNCHANGED <<oidcNow, oidcStates, oidcAccounts, oidcLogins>>
    BY DEF TokenArrives, OidcInv, OidcTypes, IsMap, StatesOwned, OidcUnlink
  <1>2. IsMap(oidcAccounts', OidcAccountIds, OidcAccount)
    BY <1>1 DEF OidcInv, OidcTypes, OidcTypeOK
  <1>3. CASE ~VerifyIdToken(token, c.made.provider, c.state)
    BY <1>1, <1>2, <1>3, OidcCallEnds DEF TokenArrives
  <1>4. CASE VerifyIdToken(token, c.made.provider, c.state)
    <2>1. oidcCalls' = [oidcCalls EXCEPT ![s] = d]
      BY <1>1, <1>4 DEF TokenArrives
    <2>2. /\ shown \in OidcShown /\ shown.issuer = c.made.provider /\ shown.nonce = c.state
      BY <1>4 DEF IdToken, OidcShown, VerifyIdToken
    <2> HIDE DEF shown
    <2>3. /\ d \in OidcCallback /\ d.pc = "find" /\ d.identity = shown /\ d.state = c.state
          /\ d.made = c.made
      BY <1>1, <2>2 DEF OidcCallback
    <2> HIDE DEF d
    <2>4. CallbackHolds(d, oidcStates, oidcLogins)
      BY <1>1, <2>2, <2>3 DEF CallbackHolds
    <2>5. oidcCalls[s].pc # "detach" /\ d.state = oidcCalls[s].state
      BY <1>1, <2>3
    <2> HIDE DEF c
    <2> QED  BY <1>1, <1>2, <2>1, <2>3, <2>4, <2>5, OidcCallMoves
  <1> QED  BY <1>3, <1>4

\* A callback goes on to another step with nothing new but the step.
LEMMA OidcPcMoves ==
    ASSUME OidcInv, NEW s \in DOMAIN oidcCalls, NEW pc \in {"attach", "linked", "create"},
           oidcCalls' = [oidcCalls EXCEPT ![s].pc = pc],
           oidcCalls[s].pc \in {"find", "attach"},
           pc \in {"attach", "linked"} => oidcCalls[s].authenticated # None,
           pc = "create" => ~oidcCalls[s].made.linking,
           IsMap(oidcAccounts', OidcAccountIds, OidcAccount),
           UNCHANGED <<oidcNow, oidcStates, oidcLogins>>
    PROVE  OidcInv'
  <1> DEFINE c == oidcCalls[s]
             d == [c EXCEPT !.pc = pc]
  <1>1. c \in OidcCallback /\ CallbackHolds(c, oidcStates, oidcLogins)
    BY DEF OidcInv, OidcTypes, IsMap, StatesOwned, OidcUnlink
  <1>2. oidcCalls' = [oidcCalls EXCEPT ![s] = d]
    OBVIOUS
  <1>3. /\ d \in OidcCallback /\ d.pc = pc /\ d.identity = c.identity /\ d.state = c.state
        /\ d.made = c.made /\ d.authenticated = c.authenticated
    BY <1>1 DEF OidcCallback
  <1> HIDE DEF d
  <1>4. CallbackHolds(d, oidcStates, oidcLogins)
    BY <1>1, <1>3 DEF CallbackHolds
  <1>5. oidcCalls[s].pc # "detach" /\ d.state = oidcCalls[s].state
    BY <1>3
  <1> HIDE DEF c
  <1> QED  BY <1>2, <1>3, <1>4, <1>5, OidcCallMoves

\* What an attach, a detach or a new account writes is an account.
LEMMA IdentityOfType ==
    ASSUME OidcInv, NEW s \in DOMAIN oidcCalls,
           oidcCalls[s].pc \in {"find", "attach", "linked", "create"}
    PROVE  IdentityOf(oidcCalls[s]) \in OidcIdentity
  BY DEF OidcInv, StatesOwned, CallbackHolds, IdentityOf, OidcShown, OidcIdentity

LEMMA FindIdentityKeeps ==
    ASSUME OidcInv, NEW s \in Slots, NEW existing \in OidcAccountIds \cup {None},
           FindIdentity(s, existing)
    PROVE  OidcInv'
  <1> DEFINE c == oidcCalls[s]
  <1>1. /\ s \in DOMAIN oidcCalls /\ c.pc = "find"
        /\ UNCHANGED <<oidcNow, oidcStates, oidcAccounts>>
    BY DEF FindIdentity
  <1>2. IsMap(oidcAccounts', OidcAccountIds, OidcAccount)
    BY <1>1 DEF OidcInv, OidcTypes, OidcTypeOK
  <1>3. CASE c.made.linking
    <2>1. /\ oidcCalls' = IF c.authenticated # None /\ existing \in {None, c.authenticated}
                          THEN [oidcCalls EXCEPT ![s].pc = "attach"]
                          ELSE Drop(oidcCalls, s)
          /\ UNCHANGED oidcLogins
      BY <1>3 DEF FindIdentity
    <2>2. CASE c.authenticated # None /\ existing \in {None, c.authenticated}
      BY <1>1, <1>2, <2>1, <2>2, OidcPcMoves
    <2>3. CASE ~(c.authenticated # None /\ existing \in {None, c.authenticated})
      BY <1>1, <1>2, <2>1, <2>3, OidcCallEnds
    <2> QED  BY <2>2, <2>3
  <1>4. CASE ~c.made.linking /\ existing # None
    BY <1>1, <1>2, <1>4, LoggedInKeeps DEF FindIdentity
  <1>5. CASE ~c.made.linking /\ existing = None
    <2>1. oidcCalls' = [oidcCalls EXCEPT ![s].pc = "create"] /\ UNCHANGED oidcLogins
      BY <1>5 DEF FindIdentity
    <2> QED  BY <1>1, <1>2, <1>5, <2>1, OidcPcMoves
  <1> QED  BY <1>3, <1>4, <1>5

LEMMA AttachIdentityKeeps ==
    ASSUME OidcInv, NEW s \in Slots, AttachIdentity(s)
    PROVE  OidcInv'
  <1> DEFINE c == oidcCalls[s]
             a == c.authenticated
             more == oidcAccounts[a].identities \cup {IdentityOf(c)}
             account == [oidcAccounts[a] EXCEPT !.identities = more]
  <1>1. /\ s \in DOMAIN oidcCalls /\ c.pc = "attach" /\ a \in DOMAIN oidcAccounts
        /\ oidcCalls' = [oidcCalls EXCEPT ![s].pc = "linked"]
        /\ UNCHANGED <<oidcNow, oidcStates, oidcLogins>>
    BY DEF AttachIdentity
  <1>2. c.authenticated # None
    BY <1>1 DEF OidcInv, StatesOwned, CallbackHolds
  <1>3. oidcAccounts' = [oidcAccounts EXCEPT ![a] = account]
    BY <1>1 DEF AttachIdentity
  <1>4. IdentityOf(c) \in OidcIdentity /\ oidcAccounts[a] \in OidcAccount
    BY <1>1, IdentityOfType DEF OidcInv, OidcTypes, OidcTypeOK, IsMap
  <1>5. more \in SUBSET OidcIdentity
    BY <1>4 DEF OidcAccount
  <1> HIDE DEF more
  <1>6. account \in OidcAccount
    BY <1>4, <1>5 DEF OidcAccount
  <1> HIDE DEF account
  <1>7. IsMap(oidcAccounts', OidcAccountIds, OidcAccount)
    BY <1>3, <1>6, UpdateType DEF OidcInv, OidcTypes, OidcTypeOK
  <1> QED  BY <1>1, <1>2, <1>7, OidcPcMoves

LEMMA DetachIdentityKeeps ==
    ASSUME OidcInv, NEW s \in Slots, DetachIdentity(s)
    PROVE  OidcInv'
  <1> DEFINE c == oidcCalls[s]
             fewer == oidcAccounts[c.account].identities \ {c.identity}
             account == [oidcAccounts[c.account] EXCEPT !.identities = fewer]
  <1>1. /\ oidcCalls' = Drop(oidcCalls, s) /\ UNCHANGED <<oidcNow, oidcStates, oidcLogins>>
        /\ oidcAccounts' = [oidcAccounts EXCEPT ![c.account] = account]
    BY DEF DetachIdentity
  <1>2. c.account \in DOMAIN oidcAccounts => account \in OidcAccount
    BY DEF OidcInv, OidcTypes, OidcTypeOK, IsMap, OidcAccount
  <1> HIDE DEF account
  <1>3. IsMap(oidcAccounts', OidcAccountIds, OidcAccount)
    BY <1>1, <1>2, UpdateType DEF OidcInv, OidcTypes, OidcTypeOK
  <1> QED  BY <1>1, <1>3, OidcCallEnds

LEMMA CreateAccountKeeps ==
    ASSUME OidcInv, NEW s \in Slots, NEW a \in OidcAccountIds, NEW factors \in 0 .. 1,
           CreateAccount(s, a, factors)
    PROVE  OidcInv'
  <1> DEFINE account == [identities |-> {IdentityOf(oidcCalls[s])}, recoveryFactors |-> factors]
  <1>1. /\ s \in DOMAIN oidcCalls /\ oidcCalls[s].pc = "create" /\ LoggedIn(s, a)
        /\ oidcAccounts' = Put(oidcAccounts, a, account)
        /\ UNCHANGED <<oidcNow, oidcStates>>
    BY DEF CreateAccount
  <1>2. account \in OidcAccount
    BY <1>1, IdentityOfType DEF OidcAccount
  <1> HIDE DEF account
  <1>3. IsMap(oidcAccounts', OidcAccountIds, OidcAccount)
    BY <1>1, <1>2, PutType DEF OidcInv, OidcTypes, OidcTypeOK
  <1> QED  BY <1>1, <1>3, LoggedInKeeps

LEMMA UnlinkKeeps ==
    ASSUME OidcInv, NEW s \in Slots, NEW a \in OidcAccountIds, NEW identity \in OidcIdentity,
           Unlink(s, a, identity)
    PROVE  OidcInv'
  <1> DEFINE c == [pc |-> "detach", account |-> a, identity |-> identity]
  <1>1. /\ s \notin DOMAIN oidcCalls /\ oidcCalls' = Put(oidcCalls, s, c)
        /\ UNCHANGED <<oidcNow, oidcStates, oidcAccounts, oidcLogins>>
    BY DEF Unlink
  <1>2. c \in OidcUnlink /\ c.pc = "detach"
    BY DEF OidcUnlink
  <1> HIDE DEF c
  <1>3. CallbackHolds(c, oidcStates', oidcLogins)
    BY <1>2 DEF CallbackHolds
  <1>4. IsMap(oidcStates', OidcStateIds, OidcState)
    BY <1>1 DEF OidcInv, OidcTypes, OidcTypeOK
  <1> QED  BY <1>1, <1>2, <1>3, <1>4, OidcCallBegins

\* States are spent once through every interleaving of callbacks and unlinks.
LEMMA OidcInvariant == OidcSpec => []OidcInv
  <1>1. OidcInit => OidcInv
    BY OidcStarts
  <1>2. ASSUME OidcInv, [OidcNext]_oidcVars PROVE OidcInv'
    <2>1. CASE OidcTick
      <3>1. /\ oidcNow' \in 0 .. MaxOidcTime
            /\ UNCHANGED <<oidcStates, oidcAccounts, oidcCalls, oidcLogins>>
        BY <1>2, <2>1, OidcAssumption DEF OidcTick, OidcInv, OidcTypes
      <3>2. OidcTypes'
        BY <1>2, <3>1 DEF OidcInv, OidcTypes, OidcTypeOK
      <3> QED  BY <1>2, <3>1, <3>2 DEF OidcInv, StatesUnused, StatesOwned, OidcOneTime
    <2>2. ASSUME NEW state \in OidcStateIds, NEW provider \in OidcProviders,
                 NEW linking \in BOOLEAN, StartLogin(state, provider, linking)
          PROVE  OidcInv'
      BY <1>2, <2>2, StartLoginKeeps
    <2>3. ASSUME NEW s \in Slots, NEW provider \in OidcProviders, NEW state \in OidcStateIds,
                 NEW a \in DOMAIN oidcAccounts \cup {None}, Callback(s, provider, state, a)
          PROVE  OidcInv'
      BY <1>2, <2>3, CallbackKeeps
    <2>4. ASSUME NEW s \in Slots, NEW token \in IdToken, TokenArrives(s, token)
          PROVE  OidcInv'
      BY <1>2, <2>4, TokenArrivesKeeps
    <2>5. ASSUME NEW s \in Slots, NEW a \in OidcAccountIds \cup {None}, FindIdentity(s, a)
          PROVE  OidcInv'
      BY <1>2, <2>5, FindIdentityKeeps
    <2>6. ASSUME NEW s \in Slots, NEW a \in OidcAccountIds \cup {None}, LinkedIdentity(s, a)
          PROVE  OidcInv'
      <3>1. /\ s \in DOMAIN oidcCalls /\ oidcCalls[s].pc = "linked"
            /\ UNCHANGED <<oidcNow, oidcStates, oidcAccounts>>
            /\ IsMap(oidcAccounts', OidcAccountIds, OidcAccount)
        BY <1>2, <2>6 DEF LinkedIdentity, OidcInv, OidcTypes, OidcTypeOK
      <3>2. CASE a \in Holders(IdentityOf(oidcCalls[s])) /\ LoggedIn(s, a)
        <4>1. a \in OidcAccountIds
          BY <1>2, <3>2 DEF Holders, OidcInv, OidcTypes, OidcTypeOK, IsMap
        <4> QED  BY <1>2, <3>1, <3>2, <4>1, LoggedInKeeps
      <3>3. CASE oidcCalls' = Drop(oidcCalls, s) /\ UNCHANGED oidcLogins
        BY <1>2, <3>1, <3>3, OidcCallEnds
      <3> QED  BY <2>6, <3>2, <3>3 DEF LinkedIdentity
    <2>7. ASSUME NEW s \in Slots, NEW a \in OidcAccountIds, NEW factors \in 0 .. 1,
                 CreateAccount(s, a, factors)
          PROVE  OidcInv'
      BY <1>2, <2>7, CreateAccountKeeps
    <2>8. ASSUME NEW s \in Slots, NEW a \in OidcAccountIds, NEW identity \in OidcIdentity,
                 Unlink(s, a, identity)
          PROVE  OidcInv'
      BY <1>2, <2>8, UnlinkKeeps
    <2>9. ASSUME NEW s \in Slots, AttachIdentity(s) \/ DetachIdentity(s) PROVE OidcInv'
      BY <1>2, <2>9, AttachIdentityKeeps, DetachIdentityKeeps
    <2>10. CASE UNCHANGED oidcVars
      BY <1>2, <2>10 DEF oidcVars, OidcInv, OidcTypes, OidcTypeOK, StatesUnused, StatesOwned,
                         OidcOneTime
    <2> QED  BY <1>2, <2>1, <2>2, <2>3, <2>4, <2>5, <2>6, <2>7, <2>8, <2>9, <2>10 DEF OidcNext
  <1> QED  BY <1>1, <1>2, PTL DEF OidcSpec
-----------------------------------------------------------------------------
(* OpenId4Vci.                                                             *)

VciFields == {"pc", "offer", "proof", "secret", "endpoint", "token", "answer"}

\* A call that waits for its token will send it to the issuer of its offer.
VciCallHolds(c) ==
    /\ DOMAIN c = VciFields
    /\ c.pc = "token" => c.endpoint = c.offer.issuer

\* The inductive invariant of issuance: an issuer that has not issued has served
\* nobody.
VciInv ==
    /\ CodesStayHome
    /\ vciServed \in {0, 1} /\ (~issuerIssued => vciServed = 0)
    /\ \A s \in DOMAIN vciCalls : VciCallHolds(vciCalls[s])

LEMMA VciStarts ==
    ASSUME VciInit
    PROVE  VciInv
  BY DEF VciInit, VciInv, CodesStayHome, EmptyMap

\* A call is dropped.
LEMMA VciFails ==
    ASSUME VciInv, NEW s, Fails(s),
           UNCHANGED <<issuerFixture, issuerIssued, vciSent, vciServed>>
    PROVE  VciInv'
  <1>1. /\ DOMAIN vciCalls' \subseteq DOMAIN vciCalls
        /\ \A t \in DOMAIN vciCalls' : vciCalls'[t] = vciCalls[t]
    BY DEF Fails, Drop
  <1> QED  BY <1>1 DEF VciInv, CodesStayHome

\* A call moves on.
LEMMA VciMoves ==
    ASSUME VciInv, NEW s \in DOMAIN vciCalls, NEW c, VciCallHolds(c),
           vciCalls' = [vciCalls EXCEPT ![s] = c],
           \A x \in vciSent' \ vciSent : x.to = x.issuer,
           vciServed' \in {0, 1}, ~issuerIssued' => vciServed' = 0
    PROVE  VciInv'
  <1>1. /\ DOMAIN vciCalls' = DOMAIN vciCalls /\ vciCalls'[s] = c
        /\ \A t \in DOMAIN vciCalls \ {s} : vciCalls'[t] = vciCalls[t]
    OBVIOUS
  <1> QED  BY <1>1 DEF VciInv, CodesStayHome

LEMMA ServeCredentialOnce ==
    ASSUME VciInv, NEW token, NEW proof, ServeCredential(token, proof)
    PROVE  vciServed' \in {0, 1} /\ (~issuerIssued' => vciServed' = 0)
  BY DEF VciInv, ServeCredential, MayServe

LEMMA BeginIssuanceKeeps ==
    ASSUME VciInv, NEW s, NEW offer, NEW expected, NEW proof, NEW secret,
           BeginIssuance(s, offer, expected, proof, secret)
    PROVE  VciInv'
  <1> DEFINE c == [pc |-> "metadata", offer |-> offer, proof |-> proof, secret |-> secret,
                   endpoint |-> None, token |-> None, answer |-> None]
  <1>1. /\ vciCalls' = Put(vciCalls, s, c)
        /\ UNCHANGED <<issuerFixture, issuerIssued, vciAbandoned, vciSent, vciServed>>
    BY DEF BeginIssuance
  <1>2. VciCallHolds(c)
    BY DEF VciCallHolds, VciFields
  <1> HIDE DEF c
  <1>3. /\ DOMAIN vciCalls' = DOMAIN vciCalls \cup {s} /\ vciCalls'[s] = c
        /\ \A t \in DOMAIN vciCalls \ {s} : vciCalls'[t] = vciCalls[t]
    BY <1>1 DEF Put
  <1> QED  BY <1>1, <1>2, <1>3 DEF VciInv, CodesStayHome

\* The metadata that parses names no origin but the issuer.
LEMMA MetadataArrivesKeeps ==
    ASSUME VciInv, NEW s, NEW md, MetadataArrives(s, md)
    PROVE  VciInv'
  <1> DEFINE c == vciCalls[s]
             issuer == c.offer.issuer
             good == /\ md # None /\ ParseIssuerMetadata(md, issuer)
                     /\ c.offer.config \in md.configs
             tokenEndpoint == IF md.tokenEndpoint = None THEN issuer ELSE md.tokenEndpoint
             d == [c EXCEPT !.pc = "token", !.token = tokenEndpoint,
                            !.endpoint = md.credentialEndpoint]
  <1>1. /\ s \in DOMAIN vciCalls /\ VciCallHolds(c)
        /\ UNCHANGED <<issuerFixture, issuerIssued, vciAbandoned, vciServed>>
    BY DEF MetadataArrives, Waiting, VciInv
  <1>2. CASE ~good
    BY <1>1, <1>2, VciFails DEF MetadataArrives
  <1>3. CASE good
    <2>1. /\ vciCalls' = [vciCalls EXCEPT ![s] = d]
          /\ vciSent' = vciSent \cup {[issuer |-> issuer, to |-> tokenEndpoint]}
      BY <1>1, <1>3 DEF MetadataArrives
    <2>2. md.credentialEndpoint = issuer /\ tokenEndpoint = issuer
      BY <1>3 DEF ParseIssuerMetadata
    <2> HIDE DEF tokenEndpoint
    <2>3. DOMAIN d = VciFields /\ d.endpoint = md.credentialEndpoint /\ d.offer = c.offer
      BY <1>1 DEF VciCallHolds, VciFields
    <2>4. VciCallHolds(d)
      BY <2>2, <2>3 DEF VciCallHolds
    <2>5. \A x \in vciSent' \ vciSent : x.to = x.issuer
      BY <2>1, <2>2
    <2>6. vciServed' \in {0, 1} /\ (~issuerIssued' => vciServed' = 0)
      BY <1>1 DEF VciInv
    <2> HIDE DEF d
    <2> QED  BY <1>1, <2>1, <2>4, <2>5, <2>6, VciMoves
  <1> QED  BY <1>2, <1>3

\* A call moves on to a step after the token was asked for.
LEMMA VciPcMoves ==
    ASSUME NEW c, VciCallHolds(c), NEW pc, pc # "token"
    PROVE  VciCallHolds([c EXCEPT !.pc = pc])
  BY DEF VciCallHolds, VciFields

LEMMA TokenRespondsKeeps ==
    ASSUME VciInv, NEW s, NEW granted \in BOOLEAN, TokenResponds(s, granted)
    PROVE  VciInv'
  <1> DEFINE c == vciCalls[s]
             d == [c EXCEPT !.pc = "credential"]
  <1>1. /\ s \in DOMAIN vciCalls /\ VciCallHolds(c) /\ c.pc = "token"
        /\ UNCHANGED <<issuerFixture, issuerIssued, vciAbandoned, vciServed>>
    BY DEF TokenResponds, Waiting, VciInv
  <1>2. CASE ~granted
    BY <1>1, <1>2, VciFails DEF TokenResponds
  <1>3. CASE granted
    <2>1. /\ vciCalls' = [vciCalls EXCEPT ![s] = d]
          /\ vciSent' = vciSent \cup {[issuer |-> c.offer.issuer, to |-> c.endpoint]}
      BY <1>1, <1>3 DEF TokenResponds
    <2>2. c.endpoint = c.offer.issuer
      BY <1>1 DEF VciCallHolds
    <2>3. VciCallHolds(d)
      BY <1>1, VciPcMoves
    <2>4. \A x \in vciSent' \ vciSent : x.to = x.issuer
      BY <2>1, <2>2
    <2>5. vciServed' \in {0, 1} /\ (~issuerIssued' => vciServed' = 0)
      BY <1>1 DEF VciInv
    <2> HIDE DEF d
    <2> QED  BY <1>1, <2>1, <2>3, <2>4, <2>5, VciMoves
  <1> QED  BY <1>2, <1>3

LEMMA CredentialServedKeeps ==
    ASSUME VciInv, NEW s, NEW granted \in BOOLEAN, CredentialServed(s, granted)
    PROVE  VciInv'
  <1> DEFINE c == vciCalls[s]
             d == [c EXCEPT !.pc = "served", !.answer = granted]
  <1>1. /\ s \in DOMAIN vciCalls /\ VciCallHolds(c) /\ UNCHANGED vciSent
        /\ vciCalls' = [vciCalls EXCEPT ![s] = d]
    BY DEF CredentialServed, Waiting, VciInv
  <1>2. VciCallHolds(d)
    BY <1>1 DEF VciCallHolds, VciFields
  <1>3. vciServed' \in {0, 1} /\ (~issuerIssued' => vciServed' = 0)
    <2>1. CASE c.endpoint = VciHome
      BY <2>1, ServeCredentialOnce DEF CredentialServed
    <2>2. CASE c.endpoint # VciHome
      BY <2>2 DEF CredentialServed, VciInv
    <2> QED  BY <2>1, <2>2
  <1> HIDE DEF d
  <1> QED  BY <1>1, <1>2, <1>3, VciMoves

LEMMA CredentialRespondsKeeps ==
    ASSUME VciInv, NEW s, CredentialResponds(s)
    PROVE  VciInv'
  <1> DEFINE c == vciCalls[s]
             d == [c EXCEPT !.pc = "verify"]
  <1>1. /\ s \in DOMAIN vciCalls /\ VciCallHolds(c)
        /\ UNCHANGED <<issuerFixture, issuerIssued, vciAbandoned, vciSent, vciServed>>
        /\ Fails(s) \/ vciCalls' = [vciCalls EXCEPT ![s] = d]
    BY DEF CredentialResponds, Waiting, VciInv, Fails
  <1>2. VciCallHolds(d)
    BY <1>1, VciPcMoves
  <1>3. vciServed' \in {0, 1} /\ (~issuerIssued' => vciServed' = 0)
    BY <1>1 DEF VciInv
  <1> HIDE DEF d
  <1> QED  BY <1>1, <1>2, <1>3, VciFails, VciMoves

\* Every step of an issuance, and an abandoned request that is served late.
LEMMA IssuanceKeeps ==
    ASSUME VciInv, NEW s,
           IssuanceStep(s) \/ IssuanceEnds(s) \/ \E r \in vciAbandoned : ServedLate(r)
    PROVE  VciInv'
  <1>1. ASSUME NEW md, MetadataArrives(s, md) PROVE VciInv'
    BY <1>1, MetadataArrivesKeeps
  <1>2. ASSUME NEW granted \in BOOLEAN, TokenResponds(s, granted) PROVE VciInv'
    BY <1>2, TokenRespondsKeeps
  <1>3. ASSUME NEW granted \in BOOLEAN, CredentialServed(s, granted) PROVE VciInv'
    BY <1>3, CredentialServedKeeps
  <1>4. CASE CredentialResponds(s)
    BY <1>4, CredentialRespondsKeeps
  <1>5. CASE RequestTimesOut(s)
    BY <1>5, VciFails DEF RequestTimesOut
  <1>6. CASE IssuanceEnds(s)
    BY <1>6, VciFails DEF IssuanceEnds
  <1>7. ASSUME NEW r \in vciAbandoned, ServedLate(r) PROVE VciInv'
    <2>1. vciServed' \in {0, 1} /\ (~issuerIssued' => vciServed' = 0)
      BY <1>7, ServeCredentialOnce DEF ServedLate
    <2> QED  BY <1>7, <2>1 DEF ServedLate, VciInv, CodesStayHome
  <1> QED  BY <1>1, <1>2, <1>3, <1>4, <1>5, <1>6, <1>7 DEF IssuanceStep

(* OpenId4Vp.                                                              *)

\* A state is waiting for its response, or held by the one response that is being
\* checked, or has given its session.
VpStatesHold ==
    /\ vpRequests \subseteq vpDrawn
    /\ \A s \in DOMAIN vpCalls : vpCalls[s].state \in vpDrawn \ vpRequests
    /\ \A s, t \in DOMAIN vpCalls : vpCalls[s].state = vpCalls[t].state => s = t
    /\ \A x \in DOMAIN vpGranted :
          /\ vpGranted[x].state \in vpDrawn \ vpRequests
          /\ \A s \in DOMAIN vpCalls : vpCalls[s].state # vpGranted[x].state

\* A session that is there has not been read.
VpReadsHold ==
    /\ \A x \in DOMAIN vpReads : vpReads[x] \in {0, 1}
    /\ \A x \in vpSessions : x \in DOMAIN vpReads /\ vpReads[x] = 0

\* The inductive invariant of the verifier.
VpInv == VpStatesHold /\ VpReadsHold /\ AccessIsOneTime

LEMMA VpStarts ==
    ASSUME VpInit
    PROVE  VpInv
  BY DEF VpInit, VpInv, VpStatesHold, VpReadsHold, AccessIsOneTime, EmptyMap

\* Nothing but the tokens on their way changes.
LEMMA VpUntouched ==
    ASSUME VpInv, UNCHANGED <<vpRequests, vpSessions, vpCalls, vpDrawn, vpGranted, vpReads>>
    PROVE  VpInv'
  BY DEF VpInv, VpStatesHold, VpReadsHold, AccessIsOneTime

LEMMA DirectPostKeeps ==
    ASSUME VpInv, NEW s, NEW state, NEW token, DirectPost(s, state, token)
    PROVE  VpInv'
  <1> DEFINE c == [state |-> state, token |-> token]
  <1>1. /\ s \notin DOMAIN vpCalls /\ state \in vpRequests
        /\ vpRequests' = vpRequests \ {state} /\ vpCalls' = Put(vpCalls, s, c)
        /\ UNCHANGED <<vpSessions, vpTokens, vpDrawn, vpGranted, vpReads>>
    BY DEF DirectPost, ConsumeState
  <1>2. c.state = state
    OBVIOUS
  <1> HIDE DEF c
  <1>3. /\ DOMAIN vpCalls' = DOMAIN vpCalls \cup {s} /\ vpCalls'[s] = c
        /\ \A t \in DOMAIN vpCalls : vpCalls'[t] = vpCalls[t]
    BY <1>1 DEF Put
  <1>4. VpStatesHold'
    BY <1>1, <1>2, <1>3 DEF VpInv, VpStatesHold
  <1>5. VpReadsHold' /\ AccessIsOneTime'
    BY <1>1 DEF VpInv, VpReadsHold, AccessIsOneTime
  <1> QED  BY <1>4, <1>5 DEF VpInv

LEMMA VpTokenVerifiedKeeps ==
    ASSUME VpInv, NEW s, NEW session, NEW sound, VpTokenVerified(s, session, sound)
    PROVE  VpInv'
  <1> DEFINE c == vpCalls[s]
             g == [state |-> c.state, token |-> c.token]
  <1>1. /\ s \in DOMAIN vpCalls /\ vpCalls' = Drop(vpCalls, s)
        /\ UNCHANGED <<vpRequests, vpTokens, vpDrawn>>
    BY DEF VpTokenVerified
  <1>2. /\ DOMAIN vpCalls' = DOMAIN vpCalls \ {s}
        /\ \A t \in DOMAIN vpCalls' : vpCalls'[t] = vpCalls[t]
    BY <1>1 DEF Drop
  <1>3. CASE ~VerifiesVpToken(c.token, c.state, sound)
    <2>1. UNCHANGED <<vpSessions, vpGranted, vpReads>>
      BY <1>3 DEF VpTokenVerified
    <2>2. VpStatesHold'
      BY <1>1, <1>2, <2>1 DEF VpInv, VpStatesHold
    <2> QED  BY <2>1, <2>2 DEF VpInv, VpReadsHold, AccessIsOneTime
  <1>4. CASE VerifiesVpToken(c.token, c.state, sound)
    <2>1. /\ session \notin DOMAIN vpGranted /\ vpSessions' = vpSessions \cup {session}
          /\ vpGranted' = Put(vpGranted, session, g) /\ vpReads' = Put(vpReads, session, 0)
      BY <1>4 DEF VpTokenVerified
    <2>2. /\ g.state = c.state /\ g.token.audience = VpVerifier /\ g.token.nonce = g.state
      BY <1>4 DEF VerifiesVpToken
    <2>3. /\ c.state \in vpDrawn \ vpRequests
          /\ \A t \in DOMAIN vpCalls' : vpCalls'[t].state # c.state
          /\ \A x \in DOMAIN vpGranted : vpGranted[x].state # c.state
      BY <1>1, <1>2 DEF VpInv, VpStatesHold
    <2> HIDE DEF g, c
    <2>4. /\ DOMAIN vpGranted' = DOMAIN vpGranted \cup {session} /\ vpGranted'[session] = g
          /\ \A x \in DOMAIN vpGranted : vpGranted'[x] = vpGranted[x]
          /\ DOMAIN vpReads' = DOMAIN vpReads \cup {session} /\ vpReads'[session] = 0
          /\ \A x \in DOMAIN vpReads \ {session} : vpReads'[x] = vpReads[x]
      BY <2>1 DEF Put
    <2>5. VpStatesHold'
      BY <1>1, <1>2, <2>2, <2>3, <2>4 DEF VpInv, VpStatesHold
    <2>6. VpReadsHold'
      BY <2>1, <2>4 DEF VpInv, VpReadsHold
    <2>7. AccessIsOneTime'
      <3>1. \A x \in DOMAIN vpReads' : vpReads'[x] <= 1
        BY <2>4 DEF VpInv, AccessIsOneTime
      <3> QED  BY <2>2, <2>3, <2>4, <3>1 DEF VpInv, AccessIsOneTime
    <2> QED  BY <2>5, <2>6, <2>7 DEF VpInv
  <1> QED  BY <1>3, <1>4

LEMMA VerifierKeeps ==
    ASSUME VpInv, VerifierNext
    PROVE  VpInv'
  <1>1. ASSUME NEW state, CreateRequest(state) PROVE VpInv'
    BY <1>1 DEF CreateRequest, VpInv, VpStatesHold, VpReadsHold, AccessIsOneTime
  <1>2. ASSUME NEW session, ReadSession(session) PROVE VpInv'
    <2>1. /\ session \in vpSessions /\ vpSessions' = vpSessions \ {session}
          /\ session \in DOMAIN vpReads /\ vpReads[session] = 0
          /\ vpReads' = [vpReads EXCEPT ![session] = vpReads[session] + 1]
          /\ UNCHANGED <<vpRequests, vpCalls, vpTokens, vpDrawn, vpGranted>>
      BY <1>2 DEF ReadSession, VpInv, VpReadsHold
    <2>2. /\ DOMAIN vpReads' = DOMAIN vpReads /\ vpReads'[session] = 1
          /\ \A x \in DOMAIN vpReads \ {session} : vpReads'[x] = vpReads[x]
      BY <2>1
    <2>3. VpReadsHold'
      BY <2>1, <2>2 DEF VpInv, VpReadsHold
    <2> QED  BY <2>1, <2>2, <2>3 DEF VpInv, VpStatesHold, AccessIsOneTime
  <1>3. ASSUME NEW s, NEW state, NEW token, DirectPost(s, state, token) PROVE VpInv'
    BY <1>3, DirectPostKeeps
  <1>4. ASSUME NEW s, NEW session, NEW sound, VpTokenVerified(s, session, sound) PROVE VpInv'
    BY <1>4, VpTokenVerifiedKeeps
  <1> QED  BY <1>1, <1>2, <1>3, <1>4 DEF VerifierNext

(* WebWallet.                                                              *)

\* What trustForRequest said of a review is so.
ReviewHolds(r) ==
    /\ r.trust \in {"confirmed", "same-origin", "ambiguous"}
    /\ r.trust = "confirmed" => r.request.clientId \in VpResolvable
    /\ r.trust = "same-origin" => r.request.clientId = r.request.responseUri

\* A submission holds on to an approved review and a credential it showed.
ApprovalHolds(x) ==
    ReviewHolds(x.review) /\ x.review.trust # "ambiguous" /\ x.credential \in x.review.matches

SubmissionFields == {"pc", "review", "secret", "credential"}

\* The inductive invariant of presentations.
WebInv ==
    /\ webReview # None => ReviewHolds(webReview)
    /\ \A s \in DOMAIN webCalls :
          webCalls[s].pc # "review" =>
              DOMAIN webCalls[s] = SubmissionFields /\ ApprovalHolds(webCalls[s])
    /\ \A d \in webDisclosed : ApprovalHolds(d)

LEMMA WebStarts ==
    ASSUME WebInit
    PROVE  WebInv
  BY DEF WebInit, WebInv, EmptyMap

\* Calls end, and the pending review stays or goes.
LEMMA WebQuiet ==
    ASSUME WebInv, webReview' \in {webReview, None}, UNCHANGED webDisclosed,
           \/ UNCHANGED webCalls
           \/ \E s : webCalls' = Drop(webCalls, s)
    PROVE  WebInv'
  <1>1. /\ DOMAIN webCalls' \subseteq DOMAIN webCalls
        /\ \A t \in DOMAIN webCalls' : webCalls'[t] = webCalls[t]
    BY DEF Drop
  <1> QED  BY <1>1 DEF WebInv

LEMMA ReviewReadyKeeps ==
    ASSUME WebInv, NEW s, NEW r \in Reviewable, NEW query, ReviewReady(s, r, query)
    PROVE  WebInv'
  <1> DEFINE review == [request |-> r.request, matches |-> SelectPresentationCandidates(query),
                        trust |-> TrustForRequest(r.request, r.resolved)]
  <1>1. /\ webReview' = review /\ webCalls' = Drop(webCalls, s) /\ UNCHANGED webDisclosed
    BY DEF ReviewReady
  <1>2. r.resolved => r.request.clientId \in VpResolvable
    <2>1. PICK input \in RequestInput, hooks \in {{}, RequestTrustHooks} :
             /\ r = [request |-> ParseOpenId4VpRequest(input, hooks),
                     resolved |-> "resolveVerifier" \in hooks]
             /\ r.request # None
      BY DEF Reviewable
    <2>2. r.request = ParseOpenId4VpRequest(input, hooks)
      BY <2>1
    <2>3. r.resolved = ("resolveVerifier" \in hooks)
      BY <2>1
    <2>4. AcceptsClaims(input, hooks) /\ r.request.clientId = input.clientId
      BY <2>1, <2>2 DEF ParseOpenId4VpRequest
    <2> QED  BY <2>3, <2>4 DEF AcceptsClaims
  <1>3. ReviewHolds(review)
    BY <1>2 DEF ReviewHolds, TrustForRequest
  <1> HIDE DEF review
  <1>4. /\ DOMAIN webCalls' \subseteq DOMAIN webCalls
        /\ \A t \in DOMAIN webCalls' : webCalls'[t] = webCalls[t]
    BY <1>1 DEF Drop
  <1> QED  BY <1>1, <1>3, <1>4 DEF WebInv

\* A submission begins with the review that is pending.
LEMMA SubmitPresentationKeeps ==
    ASSUME WebInv, NEW s, SubmitPresentation(s)
    PROVE  WebInv'
  <1> DEFINE id == CHOOSE x \in webReview.matches : TRUE
             c == [pc |-> "open", review |-> webReview, secret |-> webSecret, credential |-> id]
  <1>1. /\ webReview # None /\ webReview.trust # "ambiguous"
        /\ Cardinality(webReview.matches) = 1
        /\ webCalls' = Put(webCalls, s, c) /\ UNCHANGED <<webReview, webDisclosed>>
    BY DEF SubmitPresentation, Approvable, controllerVars
  <1>2. webReview.matches # {}
    BY <1>1, FS_EmptySet
  <1>3. id \in webReview.matches
    BY <1>2
  <1> HIDE DEF id
  <1>4. DOMAIN c = SubmissionFields /\ c.review = webReview /\ c.credential = id
    BY DEF SubmissionFields
  <1>5. ApprovalHolds(c)
    BY <1>1, <1>3, <1>4 DEF ApprovalHolds, WebInv
  <1> HIDE DEF c
  <1>6. /\ DOMAIN webCalls' = DOMAIN webCalls \cup {s} /\ webCalls'[s] = c
        /\ \A t \in DOMAIN webCalls \ {s} : webCalls'[t] = webCalls[t]
    BY <1>1 DEF Put
  <1> QED  BY <1>1, <1>4, <1>5, <1>6 DEF WebInv

\* A submission goes on with the review it began with, and may send its token.
LEMMA SubmissionMoves ==
    ASSUME WebInv, NEW s \in DOMAIN webCalls, NEW pc, webCalls[s].pc # "review",
           webCalls' = [webCalls EXCEPT ![s].pc = pc], UNCHANGED webReview,
           webDisclosed' \subseteq webDisclosed \cup
               {[review |-> webCalls[s].review, credential |-> webCalls[s].credential]}
    PROVE  WebInv'
  <1> DEFINE c == webCalls[s]
             d == [c EXCEPT !.pc = pc]
             x == [review |-> c.review, credential |-> c.credential]
  <1>1. DOMAIN c = SubmissionFields /\ ApprovalHolds(c)
    BY DEF WebInv
  <1>2. webCalls' = [webCalls EXCEPT ![s] = d]
    OBVIOUS
  <1>3. DOMAIN d = SubmissionFields /\ d.review = c.review /\ d.credential = c.credential
    BY <1>1 DEF SubmissionFields
  <1>4. x.review = c.review /\ x.credential = c.credential
    OBVIOUS
  <1>5. ApprovalHolds(d) /\ ApprovalHolds(x)
    BY <1>1, <1>3, <1>4 DEF ApprovalHolds
  <1>6. webDisclosed' \subseteq webDisclosed \cup {x}
    OBVIOUS
  <1> HIDE DEF c, d, x
  <1>7. /\ DOMAIN webCalls' = DOMAIN webCalls /\ webCalls'[s] = d
        /\ \A t \in DOMAIN webCalls \ {s} : webCalls'[t] = webCalls[t]
    BY <1>2
  <1> QED  BY <1>3, <1>5, <1>6, <1>7 DEF WebInv

LEMMA PresentationsKeep ==
    ASSUME WebInv, VpInv, PresentationsNext(Slots, Reviewable)
    PROVE  WebInv' /\ VpInv'
  <1>1. VpInv'
    <2>1. UNCHANGED <<vpRequests, vpSessions, vpCalls, vpDrawn, vpGranted, vpReads>>
      BY DEF PresentationsNext, vpVars
    <2> QED  BY <2>1, VpUntouched
  <1>2. CASE CancelPresentation \/ \E id \in WebIds : DeleteFromVault(id)
    <2>1. webReview' \in {webReview, None} /\ UNCHANGED <<webCalls, webDisclosed>>
      BY <1>2 DEF CancelPresentation, DeleteFromVault, controllerVars
    <2> QED  BY <1>1, <2>1, WebQuiet
  <1>3. ASSUME NEW s \in Slots, NEW r \in Reviewable, NEW query, ReviewReady(s, r, query)
        PROVE  WebInv'
    BY <1>3, ReviewReadyKeeps
  <1>4. ASSUME NEW s \in Slots, ReviewPresentation(s) PROVE WebInv'
    <2> DEFINE c == [pc |-> "review", secret |-> webSecret]
    <2>1. webCalls' = Put(webCalls, s, c) /\ UNCHANGED <<webReview, webDisclosed>>
      BY <1>4 DEF ReviewPresentation, controllerVars
    <2>2. c.pc = "review"
      OBVIOUS
    <2> HIDE DEF c
    <2>3. /\ DOMAIN webCalls' = DOMAIN webCalls \cup {s} /\ webCalls'[s] = c
          /\ \A t \in DOMAIN webCalls \ {s} : webCalls'[t] = webCalls[t]
      BY <2>1 DEF Put
    <2> QED  BY <2>1, <2>2, <2>3 DEF WebInv
  <1>5. ASSUME NEW s \in Slots, ReviewFails(s) PROVE WebInv'
    BY <1>5, WebQuiet DEF ReviewFails, controllerVars
  <1>6. ASSUME NEW s \in Slots, SubmitPresentation(s) PROVE WebInv'
    BY <1>6, SubmitPresentationKeeps
  <1>7. ASSUME NEW s \in Slots, OpenCredential(s) PROVE WebInv'
    <2>1. /\ s \in DOMAIN webCalls /\ webCalls[s].pc = "open"
          /\ UNCHANGED <<webReview, webDisclosed>>
          /\ \/ webCalls' = [webCalls EXCEPT ![s].pc = "present"]
             \/ webCalls' = Drop(webCalls, s)
      BY <1>7 DEF OpenCredential, controllerVars
    <2> QED  BY <2>1, WebQuiet, SubmissionMoves
  <1>8. ASSUME NEW s \in Slots, NEW accepted \in BOOLEAN, PresentationEnds(s, accepted)
        PROVE  WebInv'
    <2>1. /\ webReview' \in {webReview, None} /\ UNCHANGED webDisclosed
          /\ webCalls' = Drop(webCalls, s)
      BY <1>8 DEF PresentationEnds
    <2> QED  BY <2>1, WebQuiet
  <1>9. ASSUME NEW s \in Slots, SendToken(s) PROVE WebInv'
    <2>1. /\ s \in DOMAIN webCalls /\ webCalls[s].pc = "present" /\ UNCHANGED webReview
          /\ webCalls' = [webCalls EXCEPT ![s].pc = "sent"]
          /\ webDisclosed' = webDisclosed \cup
                {[review |-> webCalls[s].review, credential |-> webCalls[s].credential]}
      BY <1>9 DEF SendToken, ReviewOf, controllerVars
    <2> QED  BY <2>1, SubmissionMoves
  <1>10. WebInv'
    BY <1>2, <1>3, <1>4, <1>5, <1>6, <1>7, <1>8, <1>9 DEF PresentationsNext
  <1> QED  BY <1>1, <1>10

LEMMA OffersKeep ==
    ASSUME WebInv, VciInv, OffersNext
    PROVE  WebInv' /\ VciInv'
  <1>1. CASE /\ \E offer \in CredentialOffer : ReviewOffer(offer)
             /\ UNCHANGED <<vciVars, webVault, webCalls, webReviewed, webDisclosed>>
    <2>1. UNCHANGED <<vciVars, webReview, webCalls, webDisclosed>>
      BY <1>1 DEF ReviewOffer
    <2> QED  BY <2>1, WebQuiet DEF VciInv, CodesStayHome, vciVars
  <1>2. CASE UserNext /\ UNCHANGED vciVars
    <2>1. webReview' \in {webReview, None} /\ UNCHANGED <<vciVars, webCalls, webDisclosed>>
      BY <1>2 DEF UserNext, LockWeb, UnlockWeb
    <2> QED  BY <2>1, WebQuiet DEF VciInv, CodesStayHome, vciVars
  <1>3. ASSUME NEW s \in Slots, NEW proof \in BOOLEAN, AcceptOffer(s, proof)
        PROVE  WebInv' /\ VciInv'
    <2>1. UNCHANGED <<webReview, webCalls, webDisclosed>>
      BY <1>3 DEF AcceptOffer, webVars, controllerVars
    <2>2. VciInv'
      BY <1>3, BeginIssuanceKeeps DEF AcceptOffer
    <2> QED  BY <2>1, <2>2, WebQuiet
  <1>4. ASSUME NEW s \in Slots, IssuanceStep(s) PROVE WebInv' /\ VciInv'
    <2>1. UNCHANGED <<webReview, webCalls, webDisclosed>>
      BY <1>4 DEF IssuanceStep, WhenIssued
    <2>2. VciInv'
      BY <1>4, IssuanceKeeps
    <2> QED  BY <2>1, <2>2, WebQuiet
  <1>5. ASSUME NEW s \in Slots, NEW id, NEW ok, StoreCredential(s, id, ok)
        PROVE  WebInv' /\ VciInv'
    <2>1. UNCHANGED <<webReview, webCalls, webDisclosed>> /\ IssuanceEnds(s)
      BY <1>5 DEF StoreCredential, WhenIssued
    <2>2. VciInv'
      BY <2>1, IssuanceKeeps
    <2> QED  BY <2>1, <2>2, WebQuiet
  <1>6. CASE \E r \in vciAbandoned : ServedLate(r) /\ UNCHANGED webVars
    <2>1. UNCHANGED <<webReview, webCalls, webDisclosed>>
      BY <1>6 DEF webVars, controllerVars
    <2>2. VciInv'
      BY <1>6, IssuanceKeeps
    <2> QED  BY <2>1, <2>2, WebQuiet
  <1> QED  BY <1>1, <1>2, <1>3, <1>4, <1>5, <1>6 DEF OffersNext

\* Codes, tokens, sessions and disclosures hold through every interleaving of
\* offers, presentations and the verifier.
LEMMA WebInvariant == WebSpec => [](VciInv /\ VpInv /\ WebInv)
  <1> DEFINE Inv == VciInv /\ VpInv /\ WebInv
             Next == \/ OffersNext /\ UNCHANGED vpVars
                     \/ PresentationsNext(Slots, Reviewable) /\ UNCHANGED vciVars
                     \/ VerifierNext /\ UNCHANGED <<vciVars, webVars>>
  <1>1. VciInit /\ VpInit /\ WebInit => Inv
    BY VciStarts, VpStarts, WebStarts
  <1>2. ASSUME UNCHANGED vciVars, VciInv PROVE VciInv'
    BY <1>2 DEF vciVars, VciInv, CodesStayHome
  <1>3. ASSUME UNCHANGED vpVars, VpInv PROVE VpInv'
    BY <1>3, VpUntouched DEF vpVars
  <1>4. ASSUME UNCHANGED webVars, WebInv PROVE WebInv'
    BY <1>4, WebQuiet DEF webVars, controllerVars
  <1>5. Inv /\ [Next]_<<vciVars, vpVars, webVars>> => Inv'
    BY <1>2, <1>3, <1>4, OffersKeep, PresentationsKeep, VerifierKeeps
  <1> HIDE DEF Inv
  <1>6. WebSpec => []Inv
    BY <1>1, <1>5, PTL DEF WebSpec
  <1> QED  BY <1>6 DEF Inv
-----------------------------------------------------------------------------
(* SelfIssuedCredentials.                                                  *)

\* What create returned: the proof is over the payload, which names its own
\* controller.
CreatedHolds(c) ==
    /\ c.holderProof.over = c.payload
    /\ c.payload.issuer = c.payload.holderBinding.controller

CreateCall == [op : {"create"}, pc : {"describe", "sign"}, payload : SelfIssuedPayload]

VerifyCall ==
    [op : {"verify"}, pc : {"describe", "sign"}, payload : SelfIssuedPayload,
     credential : SelfIssuedCredential, revoked : SUBSET KeyIds]

\* The payload a call works with names its controller; when the key was described
\* it was that controller's, and none that was revoked when the call began.
SelfCallHolds(c, keys) ==
    /\ c.payload.issuer = c.payload.holderBinding.controller
    /\ c.pc = "sign" =>
          keys[c.payload.holderBinding.keyId].controller = c.payload.issuer
    /\ c.op = "verify" =>
          /\ c.credential.payload = c.payload
          /\ \A k \in c.revoked : keys[k].status = "revoked"
          /\ c.pc = "sign" => c.payload.holderBinding.keyId \notin c.revoked

\* The parts a verification works with were created.
PartsCreated(c, all) ==
    /\ \E d \in all : d.holderProof = c.holderProof
    /\ \E d \in all : d.artifact = c.artifact

SelfTypes ==
    /\ holderKeys \in [KeyIds -> HolderKeyDescriptor]
    /\ IsMap(selfCalls, SelfSlots, CreateCall \cup VerifyCall)
    /\ created \subseteq SelfIssuedCredential

\* The inductive invariant of self-issued credentials.
SelfInv ==
    /\ SelfTypes
    /\ \A c \in created : CreatedHolds(c)
    /\ \A s \in DOMAIN selfCalls :
          /\ SelfCallHolds(selfCalls[s], holderKeys)
          /\ selfCalls[s].op = "verify" => PartsCreated(selfCalls[s].credential, created)
    /\ VerifiedWasCreated

LEMMA SelfStarts ==
    ASSUME SelfIssuedInit
    PROVE  SelfInv
  <1>1. DOMAIN EmptyMap = {}
    BY DEF EmptyMap
  <1>2. SelfTypes
    BY EmptyMapType DEF SelfIssuedInit, SelfTypes, HolderKeyDescriptor
  <1> QED  BY <1>1, <1>2 DEF SelfIssuedInit, SelfInv, VerifiedWasCreated

\* A key is revoked: its controller stays.
LEMMA RevokeHolderKeyKeeps ==
    ASSUME SelfInv, NEW k \in KeyIds, RevokeHolderKey(k)
    PROVE  SelfInv'
  <1> DEFINE key == [holderKeys[k] EXCEPT !.status = "revoked"]
  <1>1. /\ holderKeys' = [holderKeys EXCEPT ![k] = key] /\ holderKeys[k] \in HolderKeyDescriptor
        /\ UNCHANGED <<selfCalls, created, verified>>
    BY DEF RevokeHolderKey, SelfInv, SelfTypes
  <1>2. /\ key \in HolderKeyDescriptor /\ key.status = "revoked"
        /\ key.controller = holderKeys[k].controller
    BY <1>1 DEF HolderKeyDescriptor
  <1> HIDE DEF key
  <1>3. /\ holderKeys' \in [KeyIds -> HolderKeyDescriptor] /\ holderKeys'[k] = key
        /\ \A j \in KeyIds \ {k} : holderKeys'[j] = holderKeys[j]
    BY <1>1, <1>2 DEF SelfInv, SelfTypes
  <1>4. \A j \in KeyIds : /\ holderKeys'[j].controller = holderKeys[j].controller
                          /\ holderKeys[j].status = "revoked" => holderKeys'[j].status = "revoked"
    BY <1>2, <1>3
  <1>5. ASSUME NEW s \in DOMAIN selfCalls PROVE SelfCallHolds(selfCalls[s], holderKeys')
    <2>1. /\ selfCalls[s].payload.holderBinding.keyId \in KeyIds
          /\ selfCalls[s].op = "verify" => selfCalls[s].revoked \subseteq KeyIds
      BY DEF SelfInv, SelfTypes, IsMap, CreateCall, VerifyCall, SelfIssuedPayload, HolderBinding
    <2>2. SelfCallHolds(selfCalls[s], holderKeys)
      BY DEF SelfInv
    <2> QED  BY <1>4, <2>1, <2>2 DEF SelfCallHolds
  <1>6. VerifiedWasCreated'
    <2>1. SUFFICES ASSUME verified # None PROVE VerifiedWasCreated'
      BY <1>1 DEF VerifiedWasCreated
    <2>2. verified.credential.payload.holderBinding.keyId \in KeyIds
      BY <2>1 DEF SelfInv, SelfTypes, VerifiedWasCreated, SelfIssuedCredential,
                  SelfIssuedPayload, HolderBinding
    <2> QED  BY <1>1, <1>4, <2>2 DEF SelfInv, VerifiedWasCreated
  <1>7. SelfTypes'
    BY <1>1, <1>3 DEF SelfInv, SelfTypes
  <1> QED  BY <1>1, <1>5, <1>6, <1>7 DEF SelfInv

\* A call ends; a credential may have been created.
LEMMA SelfCallEnds ==
    ASSUME SelfInv, NEW s, selfCalls' = Drop(selfCalls, s), UNCHANGED holderKeys,
           created \subseteq created', created' \subseteq SelfIssuedCredential,
           \A c \in created' : CreatedHolds(c), VerifiedWasCreated'
    PROVE  SelfInv'
  <1>1. /\ DOMAIN selfCalls' \subseteq DOMAIN selfCalls
        /\ \A t \in DOMAIN selfCalls' : selfCalls'[t] = selfCalls[t]
    BY DEF Drop
  <1>2. SelfTypes'
    BY DropType DEF SelfInv, SelfTypes
  <1>3. \A c : PartsCreated(c, created) => PartsCreated(c, created')
    BY DEF PartsCreated
  <1> QED  BY <1>1, <1>2, <1>3 DEF SelfInv

\* A call begins.
LEMMA SelfCallBegins ==
    ASSUME SelfInv, NEW s \in SelfSlots, NEW c \in CreateCall \cup VerifyCall,
           selfCalls' = Put(selfCalls, s, c), SelfCallHolds(c, holderKeys),
           c.op = "verify" => PartsCreated(c.credential, created),
           UNCHANGED <<holderKeys, created>>, verified' \in {verified, None}
    PROVE  SelfInv'
  <1>1. /\ DOMAIN selfCalls' = DOMAIN selfCalls \cup {s} /\ selfCalls'[s] = c
        /\ \A t \in DOMAIN selfCalls \ {s} : selfCalls'[t] = selfCalls[t]
    BY DEF Put
  <1>2. SelfTypes'
    BY PutType DEF SelfInv, SelfTypes
  <1>3. VerifiedWasCreated'
    BY DEF SelfInv, VerifiedWasCreated
  <1> QED  BY <1>1, <1>2, <1>3 DEF SelfInv

LEMMA CreateSelfIssuedKeeps ==
    ASSUME SelfInv, NEW s \in SelfSlots, NEW request \in SelfIssuedRequest,
           CreateSelfIssued(s, request)
    PROVE  SelfInv'
  <1> DEFINE p == ParsePayload(request)
             c == [op |-> "create", pc |-> "describe", payload |-> p]
  <1>1. selfCalls' = Put(selfCalls, s, c) /\ UNCHANGED <<holderKeys, created, verified>>
    BY DEF CreateSelfIssued
  <1>2. p \in SelfIssuedPayload /\ p.issuer = p.holderBinding.controller
    BY DEF ParsePayload, SelfIssuedPayload, SelfIssuedRequest, HolderBinding
  <1> HIDE DEF p
  <1>3. c \in CreateCall /\ c.op = "create" /\ c.pc = "describe" /\ c.payload = p
    BY <1>2 DEF CreateCall
  <1> HIDE DEF c
  <1>4. SelfCallHolds(c, holderKeys)
    BY <1>2, <1>3 DEF SelfCallHolds
  <1> QED  BY <1>1, <1>3, <1>4, SelfCallBegins

LEMMA KeyDescribedKeeps ==
    ASSUME SelfInv, NEW s \in SelfSlots, KeyDescribed(s)
    PROVE  SelfInv'
  <1> DEFINE c == selfCalls[s]
             p == c.payload
             d == [c EXCEPT !.pc = "sign"]
  <1>1. /\ s \in DOMAIN selfCalls /\ c \in CreateCall \cup VerifyCall
        /\ SelfCallHolds(c, holderKeys)
        /\ c.op = "verify" => PartsCreated(c.credential, created)
        /\ UNCHANGED <<holderKeys, created, verified>>
    BY DEF KeyDescribed, SelfInv, SelfTypes, IsMap
  <1>2. CASE ~ControlledKey(p.holderBinding)
    <2>1. selfCalls' = Drop(selfCalls, s)
      BY <1>2 DEF KeyDescribed
    <2>2. VerifiedWasCreated'
      BY <1>1 DEF SelfInv, VerifiedWasCreated
    <2>3. created' \subseteq SelfIssuedCredential /\ \A x \in created' : CreatedHolds(x)
      BY <1>1 DEF SelfInv, SelfTypes
    <2> QED  BY <1>1, <2>1, <2>2, <2>3, SelfCallEnds
  <1>3. CASE ControlledKey(p.holderBinding)
    <2>1. selfCalls' = [selfCalls EXCEPT ![s] = d]
      BY <1>3 DEF KeyDescribed
    <2>2. /\ holderKeys[p.holderBinding.keyId].controller = p.issuer
          /\ holderKeys[p.holderBinding.keyId].status = "active"
      BY <1>1, <1>3 DEF ControlledKey, SelfCallHolds
    <2>3. /\ d \in CreateCall \cup VerifyCall /\ d.op = c.op /\ d.payload = p
          /\ c.op = "verify" => d.credential = c.credential /\ d.revoked = c.revoked
      BY <1>1 DEF CreateCall, VerifyCall
    <2>4. SelfCallHolds(d, holderKeys)
      BY <1>1, <2>2, <2>3 DEF SelfCallHolds
    <2>5. d.op = "verify" => PartsCreated(d.credential, created)
      BY <1>1, <2>3
    <2> HIDE DEF d, c, p
    <2>6. /\ DOMAIN selfCalls' = DOMAIN selfCalls /\ selfCalls'[s] = d
          /\ \A t \in DOMAIN selfCalls \ {s} : selfCalls'[t] = selfCalls[t]
      BY <1>1, <2>1 DEF SelfInv, SelfTypes, IsMap
    <2>7. SelfTypes'
      BY <1>1, <2>1, <2>3, UpdateType DEF SelfInv, SelfTypes
    <2>8. VerifiedWasCreated'
      BY <1>1 DEF SelfInv, VerifiedWasCreated
    <2> QED  BY <1>1, <2>4, <2>5, <2>6, <2>7, <2>8 DEF SelfInv
  <1> QED  BY <1>2, <1>3

\* What create returns carries a proof over its payload.
LEMMA SelfIssuedKeeps ==
    ASSUME SelfInv, NEW s \in SelfSlots, NEW k \in KeyIds, NEW a \in Artifact,
           SelfIssued(s, k, a)
    PROVE  SelfInv'
  <1> DEFINE p == selfCalls[s].payload
             proof == [keyId |-> k, over |-> p]
             new == [payload |-> p, artifact |-> a, holderProof |-> proof]
  <1>1. /\ s \in DOMAIN selfCalls /\ selfCalls' = Drop(selfCalls, s)
        /\ UNCHANGED <<holderKeys, verified>> /\ created' \in {created, created \cup {new}}
    BY DEF SelfIssued
  <1>2. p \in SelfIssuedPayload /\ p.issuer = p.holderBinding.controller
    BY <1>1 DEF SelfInv, SelfTypes, IsMap, CreateCall, VerifyCall, SelfCallHolds
  <1> HIDE DEF p
  <1>3. proof \in HolderSignature /\ proof.over = p
    BY <1>2 DEF HolderSignature
  <1> HIDE DEF proof
  <1>4. new \in SelfIssuedCredential /\ new.payload = p /\ new.holderProof = proof
    BY <1>2, <1>3 DEF SelfIssuedCredential
  <1> HIDE DEF new
  <1>5. CreatedHolds(new)
    BY <1>2, <1>3, <1>4 DEF CreatedHolds
  <1>6. /\ created \subseteq created' /\ created' \subseteq SelfIssuedCredential
        /\ \A c \in created' : CreatedHolds(c)
    BY <1>1, <1>4, <1>5 DEF SelfInv, SelfTypes
  <1>7. VerifiedWasCreated'
    BY <1>1, <1>6 DEF SelfInv, VerifiedWasCreated
  <1> QED  BY <1>1, <1>6, <1>7, SelfCallEnds

\* What is presented parses only when it names its own controller; then the
\* payload that is checked is the one presented.
LEMMA VerifySelfIssuedKeeps ==
    ASSUME SelfInv, NEW s \in SelfSlots, NEW c \in Presentable, VerifySelfIssued(s, c)
    PROVE  SelfInv'
  <1> DEFINE request == RequestFromCredential(c)
             p == ParsePayload(request)
             call == [op |-> "verify", pc |-> "describe", credential |-> c, payload |-> p,
                      revoked |-> RevokedKeys]
  <1>1. /\ selfCalls' = Put(selfCalls, s, call) /\ Parses(request)
        /\ UNCHANGED <<holderKeys, created>> /\ verified' = None
    BY DEF VerifySelfIssued
  <1>2. PICK c1 \in created, c2 \in created, c3 \in created, i \in Controllers :
           c = [payload |-> [c1.payload EXCEPT !.issuer = i], holderProof |-> c2.holderProof,
                artifact |-> c3.artifact]
    BY DEF Presentable
  <1>3. /\ c.payload = [c1.payload EXCEPT !.issuer = i] /\ c.holderProof = c2.holderProof
        /\ c.artifact = c3.artifact
    BY <1>2
  <1>4. /\ c1.payload \in SelfIssuedPayload /\ c2.holderProof \in HolderSignature
        /\ c3.artifact \in Artifact
    BY DEF SelfInv, SelfTypes, SelfIssuedCredential
  <1>5. c.payload \in SelfIssuedPayload /\ c.payload.issuer = i
    BY <1>3, <1>4 DEF SelfIssuedPayload
  <1>6. c \in SelfIssuedCredential
    BY <1>2, <1>3, <1>4, <1>5 DEF SelfIssuedCredential
  <1>7. PartsCreated(c, created)
    BY <1>3 DEF PartsCreated
  <1>8. c.payload.issuer = c.payload.holderBinding.controller
    BY <1>1, <1>5, SelfIssuedAssumption DEF Parses, RequestFromCredential
  <1>9. p = c.payload
    BY <1>5, <1>8 DEF ParsePayload, RequestFromCredential, SelfIssuedPayload
  <1> HIDE DEF p, request
  <1>10. RevokedKeys \subseteq KeyIds /\ \A k \in RevokedKeys : holderKeys[k].status = "revoked"
    BY DEF RevokedKeys
  <1>11. /\ call \in VerifyCall /\ call.op = "verify" /\ call.pc = "describe"
         /\ call.payload = p /\ call.credential = c /\ call.revoked = RevokedKeys
    BY <1>5, <1>6, <1>9, <1>10 DEF VerifyCall
  <1> HIDE DEF call
  <1>12. SelfCallHolds(call, holderKeys)
    BY <1>8, <1>9, <1>10, <1>11 DEF SelfCallHolds
  <1> QED  BY <1>1, <1>7, <1>11, <1>12, SelfCallBegins

LEMMA VerifiedSelfIssuedKeeps ==
    ASSUME SelfInv, NEW s \in SelfSlots, VerifiedSelfIssued(s)
    PROVE  SelfInv'
  <1> DEFINE call == selfCalls[s]
             c == call.credential
             p == call.payload
             new == [credential |-> c, revoked |-> call.revoked]
  <1>1. /\ s \in DOMAIN selfCalls /\ call.pc = "sign" /\ call.op = "verify"
        /\ selfCalls' = Drop(selfCalls, s) /\ UNCHANGED <<holderKeys, created>>
        /\ verified' = verified \/ (verified' = new /\ Proven(c, p))
    BY DEF VerifiedSelfIssued
  <1>2. /\ SelfCallHolds(call, holderKeys) /\ PartsCreated(c, created)
    BY <1>1 DEF SelfInv
  <1>3. /\ p.issuer = holderKeys[p.holderBinding.keyId].controller
        /\ p.holderBinding.keyId \notin call.revoked /\ c.payload = p
    BY <1>1, <1>2 DEF SelfCallHolds
  <1>4. created' \subseteq SelfIssuedCredential /\ \A x \in created' : CreatedHolds(x)
    BY <1>1 DEF SelfInv, SelfTypes
  <1>5. CASE verified' = verified
    <2>1. VerifiedWasCreated'
      BY <1>1, <1>5 DEF SelfInv, VerifiedWasCreated
    <2> QED  BY <1>1, <1>4, <2>1, SelfCallEnds
  <1>6. CASE verified' = new /\ Proven(c, p)
    <2>1. new.credential = c /\ new.revoked = call.revoked
      OBVIOUS
    <2>2. PICK c2 \in created : c2.holderProof = c.holderProof
      BY <1>2 DEF PartsCreated
    <2>3. c2.payload = p /\ c2.holderProof = c.holderProof
      BY <1>6, <2>2 DEF Proven, SelfInv, CreatedHolds
    <2>4. c.artifact.claims = p.claims
      BY <1>6 DEF Proven
    <2>5. \E x \in created : x.artifact = c.artifact
      BY <1>2 DEF PartsCreated
    <2>6. verified' = new
      BY <1>6
    <2> HIDE DEF new, call, c, p
    <2>7. VerifiedWasCreated'
      BY <1>1, <1>3, <2>1, <2>3, <2>4, <2>5, <2>6 DEF VerifiedWasCreated
    <2> QED  BY <1>1, <1>4, <2>7, SelfCallEnds
  <1> QED  BY <1>1, <1>5, <1>6

\* What verifies was created, under a key of its own controller that had not been
\* revoked when the verification began, however calls and revocations interleave.
THEOREM SelfIssuedVerdicts == SelfIssuedSpec => []VerifiedWasCreated
  <1>1. SelfIssuedInit => SelfInv
    BY SelfStarts
  <1>2. ASSUME SelfInv, [SelfIssuedNext]_selfVars PROVE SelfInv'
    <2>1. ASSUME NEW s \in SelfSlots, KeyDescribed(s) PROVE SelfInv'
      BY <1>2, <2>1, KeyDescribedKeeps
    <2>2. ASSUME NEW s \in SelfSlots, VerifiedSelfIssued(s) PROVE SelfInv'
      BY <1>2, <2>2, VerifiedSelfIssuedKeeps
    <2>3. ASSUME NEW s \in SelfSlots, NEW request \in SelfIssuedRequest,
                 CreateSelfIssued(s, request)
          PROVE  SelfInv'
      BY <1>2, <2>3, CreateSelfIssuedKeeps
    <2>4. ASSUME NEW s \in SelfSlots, NEW k \in KeyIds, NEW a \in Artifact, SelfIssued(s, k, a)
          PROVE  SelfInv'
      BY <1>2, <2>4, SelfIssuedKeeps
    <2>5. ASSUME NEW s \in SelfSlots, NEW c \in Presentable, VerifySelfIssued(s, c)
          PROVE  SelfInv'
      BY <1>2, <2>5, VerifySelfIssuedKeeps
    <2>6. ASSUME NEW k \in KeyIds, RevokeHolderKey(k) PROVE SelfInv'
      BY <1>2, <2>6, RevokeHolderKeyKeeps
    <2>7. CASE UNCHANGED selfVars
      BY <1>2, <2>7 DEF selfVars, SelfInv, SelfTypes, VerifiedWasCreated
    <2> QED  BY <1>2, <2>1, <2>2, <2>3, <2>4, <2>5, <2>6, <2>7 DEF SelfIssuedNext
  <1>3. SelfInv => VerifiedWasCreated
    BY DEF SelfInv
  <1> QED  BY <1>1, <1>2, <1>3, PTL DEF SelfIssuedSpec
-----------------------------------------------------------------------------
(* CredentialVault.                                                        *)

\* An entry that opens with the factor of its envelope, and shows a credential
\* put with its metadata.
Authentic(e, puts) ==
    /\ Readable(e, e.envelope.factor)
    /\ <<EntryMetadata(e), e.envelope.content>> \in puts

WriteCall == [op : {"put", "migrate"}, entry : VaultEntry]

RestoreCall ==
    [op : {"restore"}, content : SUBSET VaultEntry, minimum : 0 .. MaxBackupSequence,
     sequence : BackupSequences]

VaultTypes ==
    /\ VaultTypeOK
    /\ IsMap(vaultCalls, Slots, WriteCall \cup RestoreCall)
    /\ IsFiniteSet(vaultPuts)
    /\ backups \subseteq VaultBackupEnvelope

\* What is stored, about to be written, backed up or about to be restored is
\* authentic.
VaultAuthentic ==
    /\ \A id \in DOMAIN vaultEntries :
          vaultEntries[id].id = id /\ Authentic(vaultEntries[id], vaultPuts)
    /\ \A s \in DOMAIN vaultCalls :
          /\ vaultCalls[s].op # "restore" => Authentic(vaultCalls[s].entry, vaultPuts)
          /\ vaultCalls[s].op = "restore" =>
                \A e \in vaultCalls[s].content : Authentic(e, vaultPuts)
    /\ \A b \in backups : \A e \in b.content : Authentic(e, vaultPuts)

\* The inductive invariant of the vault.
VaultInv == VaultTypes /\ VaultAuthentic /\ RestoresAreFresh

LEMMA VaultStarts ==
    ASSUME VaultInit
    PROVE  VaultInv
  <1>1. DOMAIN EmptyMap = {}
    BY DEF EmptyMap
  <1>2. VaultTypes
    BY <1>1, EmptyMapType, FS_EmptySet DEF VaultInit, VaultTypes, VaultTypeOK
  <1> QED  BY <1>1, <1>2 DEF VaultInit, VaultInv, VaultAuthentic, RestoresAreFresh

\* A call begins with what it is going to write.
LEMMA VaultCallBegins ==
    ASSUME VaultInv, NEW s \in Slots, NEW c \in WriteCall \cup RestoreCall, BeginVaultCall(s, c),
           c.op # "restore" => Authentic(c.entry, vaultPuts'),
           c.op = "restore" => /\ \A e \in c.content : Authentic(e, vaultPuts')
                               /\ c.sequence >= c.minimum,
           UNCHANGED <<vaultKind, vaultEntries, backups>>, vaultPuts \subseteq vaultPuts',
           vaultPuts' \subseteq VaultIndexMetadata \X Credential, IsFiniteSet(vaultPuts')
    PROVE  VaultInv'
  <1>1. vaultCalls' = Put(vaultCalls, s, c)
    BY DEF BeginVaultCall
  <1>2. /\ DOMAIN vaultCalls' = DOMAIN vaultCalls \cup {s} /\ vaultCalls'[s] = c
        /\ \A t \in DOMAIN vaultCalls \ {s} : vaultCalls'[t] = vaultCalls[t]
    BY <1>1 DEF Put
  <1>3. \A e : Authentic(e, vaultPuts) => Authentic(e, vaultPuts')
    BY DEF Authentic
  <1>4. IsMap(vaultCalls', Slots, WriteCall \cup RestoreCall)
    BY <1>1, PutType DEF VaultInv, VaultTypes
  <1>5. c.op \in {"put", "migrate", "restore"}
    BY DEF WriteCall, RestoreCall
  <1>6. VaultTypes'
    BY <1>2, <1>4, <1>5 DEF VaultInv, VaultTypes, VaultTypeOK
  <1>7. VaultAuthentic'
    BY <1>2, <1>3 DEF VaultInv, VaultAuthentic
  <1>8. RestoresAreFresh'
    BY <1>2 DEF VaultInv, RestoresAreFresh
  <1> QED  BY <1>6, <1>7, <1>8 DEF VaultInv

\* Calls end, and the entries are replaced by authentic ones.
LEMMA VaultCallsEnd ==
    ASSUME VaultInv, UNCHANGED <<vaultKind, backups, vaultPuts>>,
           IsMap(vaultCalls', Slots, WriteCall \cup RestoreCall),
           DOMAIN vaultCalls' \subseteq DOMAIN vaultCalls,
           \A t \in DOMAIN vaultCalls' : vaultCalls'[t] = vaultCalls[t],
           IsMap(vaultEntries', VaultIds, VaultEntry),
           \A id \in DOMAIN vaultEntries' :
              vaultEntries'[id].id = id /\ Authentic(vaultEntries'[id], vaultPuts)
    PROVE  VaultInv'
  <1>1. VaultTypes'
    BY DEF VaultInv, VaultTypes, VaultTypeOK
  <1>2. VaultAuthentic' /\ RestoresAreFresh'
    BY DEF VaultInv, VaultAuthentic, RestoresAreFresh
  <1> QED  BY <1>1, <1>2 DEF VaultInv

LEMMA PutCredentialKeeps ==
    ASSUME VaultInv, NEW s \in Slots, NEW meta \in VaultIndexMetadata,
           NEW strategy \in Strategies, NEW f \in VaultFactors,
           PutCredential(s, meta, strategy, f)
    PROVE  VaultInv'
  <1> DEFINE n == Cardinality(vaultPuts) + 1
             env == CreateVaultEnvelope(strategy, f, meta, n)
             e == Stored(meta, env)
             c == [op |-> "put", entry |-> e]
  <1>1. /\ n <= MaxVaultPuts /\ Derivable(strategy, f) /\ BeginVaultCall(s, c)
        /\ vaultPuts' = vaultPuts \cup {<<meta, n>>}
        /\ UNCHANGED <<vaultKind, vaultEntries, backups>>
    BY DEF PutCredential
  <1>2. n \in Credential
    <2>1. Cardinality(vaultPuts) \in Nat
      BY FS_CardinalityType DEF VaultInv, VaultTypes
    <2> QED  BY <1>1, <2>1, VaultAssumption DEF Credential
  <1> HIDE DEF n
  <1>3. /\ vaultPuts' \subseteq VaultIndexMetadata \X Credential /\ IsFiniteSet(vaultPuts')
    <2>1. IsFiniteSet(vaultPuts \cup {<<meta, n>>})
      BY FS_AddElement DEF VaultInv, VaultTypes
    <2>2. vaultPuts' = vaultPuts \cup {<<meta, n>>}
      BY <1>1
    <2>3. vaultPuts' \subseteq VaultIndexMetadata \X Credential
      BY <1>2, <2>2 DEF VaultInv, VaultTypes, VaultTypeOK
    <2> QED  BY <2>1, <2>2, <2>3
  <1>4. /\ env \in Envelope(VaultIndexMetadata, Credential) /\ env.strategy = strategy
        /\ env.factor = f /\ env.aad = meta /\ env.content = n
    BY <1>2 DEF CreateVaultEnvelope, Envelope
  <1> HIDE DEF env
  <1>5. /\ e \in VaultEntry /\ e.envelope = env /\ EntryMetadata(e) = meta
    BY <1>4 DEF Stored, VaultEntry, EntryMetadata, VaultIndexMetadata
  <1> HIDE DEF e
  <1>6. Authentic(e, vaultPuts')
    BY <1>1, <1>4, <1>5 DEF Authentic, Readable, MetadataMatches, OpensVaultEnvelope
  <1>7. c \in WriteCall /\ c.op = "put" /\ c.entry = e
    BY <1>5 DEF WriteCall
  <1> HIDE DEF c
  <1> QED  BY <1>1, <1>3, <1>6, <1>7, VaultCallBegins

LEMMA MigrateCredentialKeeps ==
    ASSUME VaultInv, NEW s \in Slots, NEW id \in VaultIds, NEW f \in VaultFactors,
           NEW strategy \in Strategies, NEW next \in VaultFactors,
           MigrateCredential(s, id, f, strategy, next)
    PROVE  VaultInv'
  <1> DEFINE old == vaultEntries[id]
             meta == EntryMetadata(old)
             env == CreateVaultEnvelope(strategy, next, meta, old.envelope.content)
             e == Stored(meta, env)
             c == [op |-> "migrate", entry |-> e]
  <1>1. /\ id \in DOMAIN vaultEntries /\ Derivable(strategy, next) /\ BeginVaultCall(s, c)
        /\ UNCHANGED <<vaultKind, vaultEntries, backups, vaultPuts>>
    BY DEF MigrateCredential
  <1>2. old \in VaultEntry /\ Authentic(old, vaultPuts)
    BY <1>1 DEF VaultInv, VaultTypes, VaultTypeOK, IsMap, VaultAuthentic
  <1>3. /\ meta \in VaultIndexMetadata /\ old.envelope.content \in Credential
    BY <1>2 DEF VaultEntry, EntryMetadata, VaultIndexMetadata, Envelope
  <1>4. <<meta, old.envelope.content>> \in vaultPuts
    BY <1>2 DEF Authentic
  <1> HIDE DEF meta, old
  <1>5. /\ env \in Envelope(VaultIndexMetadata, Credential) /\ env.strategy = strategy
        /\ env.factor = next /\ env.aad = meta /\ env.content = old.envelope.content
    BY <1>3 DEF CreateVaultEnvelope, Envelope
  <1> HIDE DEF env
  <1>6. /\ e \in VaultEntry /\ e.envelope = env /\ EntryMetadata(e) = meta
    BY <1>3, <1>5 DEF Stored, VaultEntry, EntryMetadata, VaultIndexMetadata
  <1> HIDE DEF e
  <1>7. Authentic(e, vaultPuts')
    BY <1>1, <1>4, <1>5, <1>6 DEF Authentic, Readable, MetadataMatches, OpensVaultEnvelope
  <1>8. c \in WriteCall /\ c.op = "migrate" /\ c.entry = e
    BY <1>6 DEF WriteCall
  <1> HIDE DEF c
  <1>9. vaultPuts' \subseteq VaultIndexMetadata \X Credential /\ IsFiniteSet(vaultPuts')
    BY <1>1 DEF VaultInv, VaultTypes, VaultTypeOK
  <1> QED  BY <1>1, <1>7, <1>8, <1>9, VaultCallBegins

\* A backup whose label was changed does not open; one that opens is as it was made.
LEMMA OpenBackupKeeps ==
    ASSUME VaultInv, NEW s \in Slots, NEW b \in backups, NEW label \in BackupSequences,
           NEW f \in VaultFactors, NEW minimum \in 0 .. MaxBackupSequence,
           OpenBackup(s, b, label, f, minimum)
    PROVE  VaultInv'
  <1> DEFINE c == [op |-> "restore", content |-> b.content, minimum |-> minimum,
                   sequence |-> b.aad]
             relabelled == [b EXCEPT !.sequence = label]
  <1>1. /\ OpensVaultBackup(relabelled, f, minimum) /\ BeginVaultCall(s, c)
        /\ UNCHANGED <<vaultKind, vaultEntries, backups, vaultPuts>>
    BY DEF OpenBackup
  <1>2. b \in VaultBackupEnvelope
    BY DEF VaultInv, VaultTypes
  <1>3. relabelled.sequence = label /\ relabelled.aad = b.aad
    BY <1>2 DEF VaultBackupEnvelope
  <1> HIDE DEF relabelled
  <1>4. b.aad >= minimum
    BY <1>1, <1>3 DEF OpensVaultBackup
  <1>5. /\ c \in RestoreCall /\ c.op = "restore" /\ c.content = b.content
        /\ c.sequence = b.aad /\ c.minimum = minimum
    BY <1>2 DEF RestoreCall, VaultBackupEnvelope
  <1> HIDE DEF c
  <1>6. \A e \in c.content : Authentic(e, vaultPuts')
    BY <1>1, <1>5 DEF VaultInv, VaultAuthentic
  <1>7. vaultPuts' \subseteq VaultIndexMetadata \X Credential /\ IsFiniteSet(vaultPuts')
    BY <1>1 DEF VaultInv, VaultTypes, VaultTypeOK
  <1> QED  BY <1>1, <1>4, <1>5, <1>6, <1>7, VaultCallBegins

LEMMA VaultWritesKeeps ==
    ASSUME VaultInv, NEW s \in Slots, VaultWrites(s)
    PROVE  VaultInv'
  <1> DEFINE c == vaultCalls[s]
             e == c.entry
  <1>1. /\ s \in DOMAIN vaultCalls /\ c.op \in {"put", "migrate"}
        /\ vaultEntries' = Put(vaultEntries, e.id, e) /\ vaultCalls' = Drop(vaultCalls, s)
        /\ UNCHANGED <<vaultKind, backups, vaultPuts>>
    BY DEF VaultWrites, Written
  <1>2. e \in VaultEntry /\ Authentic(e, vaultPuts)
    BY <1>1 DEF VaultInv, VaultTypes, IsMap, VaultAuthentic, WriteCall, RestoreCall
  <1>3. e.id \in VaultIds
    BY <1>2 DEF VaultEntry
  <1> HIDE DEF e
  <1>4. IsMap(vaultEntries', VaultIds, VaultEntry)
    BY <1>1, <1>2, <1>3, PutType DEF VaultInv, VaultTypes, VaultTypeOK
  <1>5. \A id \in DOMAIN vaultEntries' :
           vaultEntries'[id].id = id /\ Authentic(vaultEntries'[id], vaultPuts)
    BY <1>1, <1>2 DEF VaultInv, VaultAuthentic, Put
  <1>6. /\ IsMap(vaultCalls', Slots, WriteCall \cup RestoreCall)
        /\ DOMAIN vaultCalls' \subseteq DOMAIN vaultCalls
        /\ \A t \in DOMAIN vaultCalls' : vaultCalls'[t] = vaultCalls[t]
    BY <1>1, DropType DEF VaultInv, VaultTypes, Drop
  <1> QED  BY <1>1, <1>4, <1>5, <1>6, VaultCallsEnd

LEMMA RestoreWritesKeeps ==
    ASSUME VaultInv, NEW s \in Slots, RestoreWrites(s)
    PROVE  VaultInv'
  <1> DEFINE all == vaultCalls[s].content
             Pick(id) == CHOOSE e \in all : e.id = id
  <1>1. /\ s \in DOMAIN vaultCalls /\ vaultCalls[s].op = "restore"
        /\ vaultEntries' = [id \in {e.id : e \in all} |-> Pick(id)]
        /\ vaultCalls' = Drop(vaultCalls, s) /\ UNCHANGED <<vaultKind, backups, vaultPuts>>
    BY DEF RestoreWrites
  <1>2. all \subseteq VaultEntry /\ \A e \in all : Authentic(e, vaultPuts)
    BY <1>1 DEF VaultInv, VaultTypes, IsMap, VaultAuthentic, WriteCall, RestoreCall
  <1> HIDE DEF all
  <1>3. \A id \in {e.id : e \in all} : Pick(id) \in all /\ Pick(id).id = id
    OBVIOUS
  <1>4. \A id \in {e.id : e \in all} : id \in VaultIds
    BY <1>2 DEF VaultEntry
  <1> HIDE DEF Pick
  <1>5. IsMap(vaultEntries', VaultIds, VaultEntry)
    BY <1>1, <1>2, <1>3, <1>4 DEF IsMap
  <1>6. \A id \in DOMAIN vaultEntries' :
           vaultEntries'[id].id = id /\ Authentic(vaultEntries'[id], vaultPuts)
    BY <1>1, <1>2, <1>3
  <1>7. /\ IsMap(vaultCalls', Slots, WriteCall \cup RestoreCall)
        /\ DOMAIN vaultCalls' \subseteq DOMAIN vaultCalls
        /\ \A t \in DOMAIN vaultCalls' : vaultCalls'[t] = vaultCalls[t]
    BY <1>1, DropType DEF VaultInv, VaultTypes, Drop
  <1> QED  BY <1>1, <1>5, <1>6, <1>7, VaultCallsEnd

LEMMA ExportBackupKeeps ==
    ASSUME VaultInv, NEW sequence \in BackupSequences, NEW strategy \in Strategies,
           NEW f \in VaultFactors, ExportBackup(sequence, strategy, f)
    PROVE  VaultInv'
  <1> DEFINE all == {vaultEntries[id] : id \in DOMAIN vaultEntries}
             b == [strategy |-> strategy, factor |-> f, aad |-> sequence,
                   sequence |-> sequence, content |-> all]
  <1>1. /\ backups' = backups \cup {b}
        /\ UNCHANGED <<vaultKind, vaultEntries, vaultCalls, vaultPuts>>
    BY DEF ExportBackup
  <1>2. all \subseteq VaultEntry /\ \A e \in all : Authentic(e, vaultPuts)
    BY DEF VaultInv, VaultTypes, VaultTypeOK, IsMap, VaultAuthentic
  <1> HIDE DEF all
  <1>3. b \in VaultBackupEnvelope /\ b.content = all
    BY <1>2 DEF VaultBackupEnvelope
  <1> HIDE DEF b
  <1>4. VaultTypes'
    BY <1>1, <1>3 DEF VaultInv, VaultTypes, VaultTypeOK
  <1>5. VaultAuthentic' /\ RestoresAreFresh'
    BY <1>1, <1>2, <1>3 DEF VaultInv, VaultAuthentic, RestoresAreFresh
  <1> QED  BY <1>4, <1>5 DEF VaultInv

\* What the vault holds stays authentic through every interleaving of its calls.
LEMMA VaultInvariant == VaultSpec => []VaultInv
  <1>1. VaultInit => VaultInv
    BY VaultStarts
  <1>2. ASSUME VaultInv, [VaultNext]_vaultVars PROVE VaultInv'
    <2>1. ASSUME NEW s \in Slots, VaultWrites(s) PROVE VaultInv'
      BY <1>2, <2>1, VaultWritesKeeps
    <2>2. ASSUME NEW s \in Slots, RestoreWrites(s) PROVE VaultInv'
      BY <1>2, <2>2, RestoreWritesKeeps
    <2>3. ASSUME NEW s \in Slots, TransactionAborts(s) PROVE VaultInv'
      <3>1. /\ vaultCalls' = Drop(vaultCalls, s)
            /\ UNCHANGED <<vaultKind, vaultEntries, backups, vaultPuts>>
        BY <2>3 DEF TransactionAborts
      <3>2. /\ IsMap(vaultCalls', Slots, WriteCall \cup RestoreCall)
            /\ DOMAIN vaultCalls' \subseteq DOMAIN vaultCalls
            /\ \A t \in DOMAIN vaultCalls' : vaultCalls'[t] = vaultCalls[t]
        BY <1>2, <3>1, DropType DEF VaultInv, VaultTypes, Drop
      <3>3. /\ IsMap(vaultEntries', VaultIds, VaultEntry)
            /\ \A id \in DOMAIN vaultEntries' :
                  vaultEntries'[id].id = id /\ Authentic(vaultEntries'[id], vaultPuts)
        BY <1>2, <3>1 DEF VaultInv, VaultTypes, VaultTypeOK, VaultAuthentic
      <3> QED  BY <1>2, <3>1, <3>2, <3>3, VaultCallsEnd
    <2>4. ASSUME NEW s \in Slots, NEW f \in VaultFactors, NEW strategy \in Strategies,
                 NEW meta \in VaultIndexMetadata, PutCredential(s, meta, strategy, f)
          PROVE  VaultInv'
      BY <1>2, <2>4, PutCredentialKeeps
    <2>5. ASSUME NEW s \in Slots, NEW f \in VaultFactors, NEW strategy \in Strategies,
                 NEW id \in VaultIds, NEW next \in VaultFactors,
                 MigrateCredential(s, id, f, strategy, next)
          PROVE  VaultInv'
      BY <1>2, <2>5, MigrateCredentialKeeps
    <2>6. ASSUME NEW s \in Slots, NEW b \in backups, NEW label \in BackupSequences,
                 NEW f \in VaultFactors, NEW minimum \in 0 .. MaxBackupSequence,
                 OpenBackup(s, b, label, f, minimum)
          PROVE  VaultInv'
      BY <1>2, <2>6, OpenBackupKeeps
    <2>7. ASSUME NEW id \in VaultIds, DeleteCredential(id) PROVE VaultInv'
      <3>1. /\ vaultEntries' = Drop(vaultEntries, id)
            /\ UNCHANGED <<vaultKind, vaultCalls, backups, vaultPuts>>
        BY <2>7 DEF DeleteCredential
      <3>2. IsMap(vaultEntries', VaultIds, VaultEntry)
        BY <1>2, <3>1, DropType DEF VaultInv, VaultTypes, VaultTypeOK
      <3>3. \A x \in DOMAIN vaultEntries' :
               vaultEntries'[x].id = x /\ Authentic(vaultEntries'[x], vaultPuts)
        BY <1>2, <3>1 DEF VaultInv, VaultAuthentic, Drop
      <3>4. IsMap(vaultCalls', Slots, WriteCall \cup RestoreCall)
        BY <1>2, <3>1 DEF VaultInv, VaultTypes
      <3> QED  BY <1>2, <3>1, <3>2, <3>3, <3>4, VaultCallsEnd
    <2>8. ASSUME NEW sequence \in BackupSequences, NEW strategy \in Strategies,
                 NEW f \in VaultFactors, ExportBackup(sequence, strategy, f)
          PROVE  VaultInv'
      BY <1>2, <2>8, ExportBackupKeeps
    <2>9. CASE Reload
      <3>1. DOMAIN EmptyMap = {}
        BY DEF EmptyMap
      <3>2. /\ vaultCalls' = EmptyMap /\ vaultEntries' \in {EmptyMap, vaultEntries}
            /\ UNCHANGED <<vaultKind, backups, vaultPuts>>
        BY <2>9 DEF Reload
      <3>3. IsMap(vaultCalls', Slots, WriteCall \cup RestoreCall)
        BY <3>2, EmptyMapType
      <3>4. IsMap(vaultEntries', VaultIds, VaultEntry)
        BY <1>2, <3>2, EmptyMapType DEF VaultInv, VaultTypes, VaultTypeOK
      <3>5. \A x \in DOMAIN vaultEntries' :
               vaultEntries'[x].id = x /\ Authentic(vaultEntries'[x], vaultPuts)
        BY <1>2, <3>1, <3>2 DEF VaultInv, VaultAuthentic
      <3> QED  BY <1>2, <3>1, <3>2, <3>3, <3>4, <3>5, VaultCallsEnd
    <2>10. CASE UNCHANGED vaultVars
      BY <1>2, <2>10 DEF vaultVars, VaultInv, VaultTypes, VaultTypeOK, VaultAuthentic,
                         RestoresAreFresh
    <2> QED  BY <1>2, <2>1, <2>2, <2>3, <2>4, <2>5, <2>6, <2>7, <2>8, <2>9, <2>10 DEF VaultNext
  <1> QED  BY <1>1, <1>2, PTL DEF VaultSpec

\* Every entry is readable and shows a credential put with its metadata, whatever
\* puts, migrations, deletes and restores overlap.
THEOREM AuthenticEntries == VaultSpec => []EntriesAreAuthentic
  <1>1. VaultInv => EntriesAreAuthentic
    BY DEF VaultInv, VaultAuthentic, Authentic, EntriesAreAuthentic
  <1> QED  BY <1>1, VaultInvariant, PTL

\* No restore brings back a backup made before the minimum it asked for.
THEOREM FreshRestores == VaultSpec => []RestoresAreFresh
  <1>1. VaultInv => RestoresAreFresh
    BY DEF VaultInv
  <1> QED  BY <1>1, VaultInvariant, PTL
-----------------------------------------------------------------------------
(* WalletPortability.                                                      *)

\* What was exported is valid, signed as it is and bound to its header.
BundleHolds(b) ==
    b \in MigrationBundle /\ b.aad = b.header /\ b.signed = b.header /\ ValidState(b.state)

ImportFields == {"bundle", "openedAt", "before", "pc", "handle"}

\* An import took a bundle that was exported and had not expired.
ImportSound(i, exported) ==
    /\ i.bundle \in exported /\ i.bundle.header.expiresAt > i.openedAt

\* Before commit the target is as it was, and after it holds the new state; only
\* an import with a handle may have left anything behind.
ImportHolds(i, t) ==
    /\ DOMAIN i = ImportFields /\ i.before \in PortableWalletState \cup {None}
    /\ i.pc \in {"prepare", "commit", "IMPORT_FAILED"} => t = i.before
    /\ i.pc \in {"verify", "imported"} => t = i.bundle.state
    /\ i.pc \in {"commit", "verify"} => i.handle
    /\ i.pc = "failed" => i.handle \/ t = i.before

RotationFields == {"old", "next", "pc", "installed"}

\* Unless an answer of removeOldControl was lost, the old control is there until
\* the rotation is over, and the next one before the old one is removed.
RotationHolds(r, vendors, lost) ==
    /\ DOMAIN r = RotationFields /\ r.next \in Vendors /\ r.old # r.next
    /\ ~lost /\ r.pc # "rotated" => r.old \in vendors
    /\ ~lost /\ r.pc = "remove" => r.next \in vendors

\* The inductive invariant of imports and rotations.
PortInv ==
    /\ PortabilityTypeOK
    /\ \A b \in bundles : BundleHolds(b)
    /\ import # None => ImportSound(import, bundles) /\ ImportHolds(import, target)
    /\ imported # None => ImportSound(imported, bundles)
    /\ rotation # None => RotationHolds(rotation, controls, removalLost)
    /\ ~removalLost => controls # {}

LEMMA PortStarts ==
    ASSUME PortabilityInit
    PROVE  PortInv
  BY PortabilityAssumption DEF PortabilityInit, PortInv, PortabilityTypeOK

LEMMA ExportKeeps ==
    ASSUME PortInv, NEW state \in PortableWalletState, NEW e \in 0 .. MaxPortTime + 1,
           ExportMigrationBundle(state, e)
    PROVE  PortInv'
  <1> DEFINE header == [wallet |-> state.wallet, expiresAt |-> e, version |-> 1]
             b == [header |-> header, aad |-> header, signed |-> header, state |-> state]
  <1>1. /\ ValidState(state) /\ bundles' = bundles \cup {b}
        /\ UNCHANGED <<portClock, target, import, imported, controls, rotation,
                       vendorRotations, removalLost>>
    BY DEF ExportMigrationBundle
  <1>2. header \in BundleHeader
    BY DEF BundleHeader, PortableWalletState
  <1> HIDE DEF header
  <1>3. BundleHolds(b)
    BY <1>1, <1>2 DEF BundleHolds, MigrationBundle
  <1> HIDE DEF b
  <1>4. PortabilityTypeOK'
    BY <1>1, <1>3 DEF PortInv, PortabilityTypeOK, BundleHolds
  <1>5. \A i : ImportSound(i, bundles) => ImportSound(i, bundles')
    BY <1>1 DEF ImportSound
  <1> QED  BY <1>1, <1>3, <1>4, <1>5 DEF PortInv

\* A header that was changed does not open.
LEMMA OpenBundleKeeps ==
    ASSUME PortInv, NEW b \in bundles, NEW header \in BundleHeader,
           OpenMigrationBundle(b, header)
    PROVE  PortInv'
  <1> DEFINE changed == [b EXCEPT !.header = header]
             no == FALSE
             i == [bundle |-> b, openedAt |-> portClock, before |-> target,
                   pc |-> "prepare", handle |-> no]
  <1>1. /\ OpensMigrationBundle(changed) /\ import' = i
        /\ UNCHANGED <<portClock, bundles, target, imported, controls, rotation,
                       vendorRotations, removalLost>>
    BY DEF OpenMigrationBundle
  <1> HIDE DEF no
  <1>2. BundleHolds(b)
    BY DEF PortInv
  <1>3. changed.header = header /\ changed.signed = b.signed
    BY <1>2 DEF BundleHolds, MigrationBundle
  <1> HIDE DEF changed
  <1>4. b.header.expiresAt > portClock
    BY <1>1, <1>2, <1>3 DEF OpensMigrationBundle, BundleHolds
  <1>5. /\ DOMAIN i = ImportFields /\ i.bundle = b /\ i.openedAt = portClock
        /\ i.before = target /\ i.pc = "prepare"
    BY DEF ImportFields
  <1> HIDE DEF i
  <1>6. ImportSound(i, bundles) /\ ImportHolds(i, target)
    BY <1>4, <1>5 DEF ImportSound, ImportHolds, PortInv, PortabilityTypeOK
  <1>7. PortabilityTypeOK'
    BY <1>1 DEF PortInv, PortabilityTypeOK
  <1> QED  BY <1>1, <1>6, <1>7 DEF PortInv

\* An import goes on with the bundle it opened.
LEMMA ImportMoves ==
    ASSUME PortInv, import # None, NEW i, import' = i, NEW t, target' = t,
           ImportHolds(i, t), i.bundle = import.bundle, i.openedAt = import.openedAt,
           t \in {target, import.before, import.bundle.state},
           UNCHANGED <<portClock, bundles, imported, controls, rotation, vendorRotations,
                       removalLost>>
    PROVE  PortInv'
  <1>1. ImportSound(i, bundles)
    BY DEF PortInv, ImportSound
  <1>2. t \in PortableWalletState \cup {None}
    BY DEF PortInv, PortabilityTypeOK, ImportSound, ImportHolds, MigrationBundle
  <1>3. PortabilityTypeOK'
    BY <1>2 DEF PortInv, PortabilityTypeOK
  <1> QED  BY <1>1, <1>3 DEF PortInv

\* The fields of an import whose step changes.
LEMMA ImportStep ==
    ASSUME NEW i, NEW t, ImportHolds(i, t), NEW pc
    PROVE  LET j == [i EXCEPT !.pc = pc] IN
           /\ DOMAIN j = ImportFields /\ j.pc = pc /\ j.bundle = i.bundle
           /\ j.openedAt = i.openedAt /\ j.before = i.before /\ j.handle = i.handle
  BY DEF ImportHolds, ImportFields

LEMMA PrepareKeeps ==
    ASSUME PortInv, PrepareImport
    PROVE  PortInv'
  <1> DEFINE yes == TRUE
             i == [import EXCEPT !.pc = "commit", !.handle = yes]
             j == [import EXCEPT !.pc = "failed"]
  <1>1. /\ import # None /\ import.pc = "prepare" /\ import' \in {i, j}
        /\ UNCHANGED <<portClock, bundles, target, imported, controls, rotation,
                       vendorRotations, removalLost>>
    BY DEF PrepareImport
  <1>2. ImportHolds(import, target)
    BY <1>1 DEF PortInv
  <1>3. yes
    OBVIOUS
  <1> HIDE DEF yes
  <1>4. /\ DOMAIN i = ImportFields /\ i.pc = "commit" /\ i.bundle = import.bundle
        /\ i.openedAt = import.openedAt /\ i.before = import.before /\ i.handle = yes
    BY <1>2 DEF ImportHolds, ImportFields
  <1>5. /\ DOMAIN j = ImportFields /\ j.pc = "failed" /\ j.bundle = import.bundle
        /\ j.openedAt = import.openedAt /\ j.before = import.before
    BY <1>2, ImportStep
  <1> HIDE DEF i, j
  <1>6. ImportHolds(i, target)
    BY <1>1, <1>2, <1>3, <1>4 DEF ImportHolds
  <1>7. ImportHolds(j, target)
    BY <1>1, <1>2, <1>5 DEF ImportHolds
  <1> QED  BY <1>1, <1>4, <1>5, <1>6, <1>7, ImportMoves

LEMMA CommitKeeps ==
    ASSUME PortInv, CommitImport
    PROVE  PortInv'
  <1> DEFINE new == import.bundle.state
             i == [import EXCEPT !.pc = "verify"]
             j == [import EXCEPT !.pc = "failed"]
  <1>1. /\ import # None /\ import.pc = "commit"
        /\ UNCHANGED <<portClock, bundles, imported, controls, rotation, vendorRotations,
                       removalLost>>
        /\ \/ target' = new /\ import' \in {i, j}
           \/ target' = target /\ import' = j
    BY DEF CommitImport
  <1>2. ImportHolds(import, target) /\ import.handle
    BY <1>1 DEF PortInv, ImportHolds
  <1>3. /\ DOMAIN i = ImportFields /\ i.pc = "verify" /\ i.bundle = import.bundle
        /\ i.openedAt = import.openedAt /\ i.before = import.before
        /\ i.handle = import.handle
    BY <1>2, ImportStep
  <1>4. /\ DOMAIN j = ImportFields /\ j.pc = "failed" /\ j.bundle = import.bundle
        /\ j.openedAt = import.openedAt /\ j.before = import.before
        /\ j.handle = import.handle
    BY <1>2, ImportStep
  <1> HIDE DEF i, j
  <1>5. ImportHolds(i, new)
    BY <1>1, <1>2, <1>3 DEF ImportHolds
  <1>6. ImportHolds(j, new) /\ ImportHolds(j, target)
    BY <1>1, <1>2, <1>4 DEF ImportHolds
  <1> QED  BY <1>1, <1>3, <1>4, <1>5, <1>6, ImportMoves

LEMMA VerifyImportKeeps ==
    ASSUME PortInv, VerifyImport
    PROVE  PortInv'
  <1> DEFINE i == [import EXCEPT !.pc = "imported"]
             j == [import EXCEPT !.pc = "failed"]
  <1>1. /\ import # None /\ import.pc = "verify" /\ import' \in {i, j}
        /\ UNCHANGED <<portClock, bundles, target, imported, controls, rotation,
                       vendorRotations, removalLost>>
    BY DEF VerifyImport
  <1>2. ImportHolds(import, target) /\ import.handle
    BY <1>1 DEF PortInv, ImportHolds
  <1>3. /\ DOMAIN i = ImportFields /\ i.pc = "imported" /\ i.bundle = import.bundle
        /\ i.openedAt = import.openedAt /\ i.before = import.before
    BY <1>2, ImportStep
  <1>4. /\ DOMAIN j = ImportFields /\ j.pc = "failed" /\ j.bundle = import.bundle
        /\ j.openedAt = import.openedAt /\ j.before = import.before
        /\ j.handle = import.handle
    BY <1>2, ImportStep
  <1> HIDE DEF i, j
  <1>5. ImportHolds(i, target)
    BY <1>1, <1>2, <1>3 DEF ImportHolds
  <1>6. ImportHolds(j, target)
    BY <1>1, <1>2, <1>4 DEF ImportHolds
  <1> QED  BY <1>1, <1>3, <1>4, <1>5, <1>6, ImportMoves

LEMMA RollbackImportKeeps ==
    ASSUME PortInv, RollbackImport
    PROVE  PortInv'
  <1> DEFINE i == [import EXCEPT !.pc = "IMPORT_FAILED"]
             j == [import EXCEPT !.pc = "ROLLBACK_FAILED"]
  <1>1. /\ import # None /\ import.pc = "failed"
        /\ UNCHANGED <<portClock, bundles, imported, controls, rotation, vendorRotations,
                       removalLost>>
        /\ \/ target' = import.before /\ import' \in {i, j}
           \/ target' = target /\ import' = j
           \/ ~import.handle /\ target' = target /\ import' = i
    BY DEF RollbackImport
  <1>2. ImportHolds(import, target)
    BY <1>1 DEF PortInv
  <1>3. /\ DOMAIN i = ImportFields /\ i.pc = "IMPORT_FAILED" /\ i.bundle = import.bundle
        /\ i.openedAt = import.openedAt /\ i.before = import.before
    BY <1>2, ImportStep
  <1>4. /\ DOMAIN j = ImportFields /\ j.pc = "ROLLBACK_FAILED" /\ j.bundle = import.bundle
        /\ j.openedAt = import.openedAt /\ j.before = import.before
    BY <1>2, ImportStep
  <1> HIDE DEF i, j
  <1>5. ImportHolds(i, import.before) /\ ImportHolds(j, import.before) /\ ImportHolds(j, target)
    BY <1>2, <1>3, <1>4 DEF ImportHolds
  <1>6. ~import.handle => ImportHolds(i, target)
    BY <1>1, <1>2, <1>3 DEF ImportHolds
  <1> QED  BY <1>1, <1>3, <1>4, <1>5, <1>6, ImportMoves

LEMMA ImportKeeps ==
    ASSUME PortInv, ImportNext
    PROVE  PortInv'
  <1>1. CASE PrepareImport \/ CommitImport \/ VerifyImport \/ RollbackImport
    BY <1>1, PrepareKeeps, CommitKeeps, VerifyImportKeeps, RollbackImportKeeps
  <1>2. CASE ImportReturns
    <2>1. /\ imported' \in {import, imported} /\ import # None /\ import' = None
          /\ UNCHANGED <<portClock, bundles, target, controls, rotation, vendorRotations,
                         removalLost>>
      BY <1>2 DEF ImportReturns
    <2>2. PortabilityTypeOK'
      BY <2>1 DEF PortInv, PortabilityTypeOK
    <2> QED  BY <2>1, <2>2 DEF PortInv
  <1>3. CASE \E b \in bundles, header \in BundleHeader : OpenMigrationBundle(b, header)
    BY <1>3, OpenBundleKeeps
  <1>4. CASE \E state \in PortableWalletState, e \in 0 .. MaxPortTime + 1 :
                ExportMigrationBundle(state, e)
    BY <1>4, ExportKeeps
  <1>5. CASE PortTick
    <2>1. /\ portClock' \in 0 .. MaxPortTime
          /\ UNCHANGED <<bundles, target, import, imported, controls, rotation,
                         vendorRotations, removalLost>>
      BY <1>5, PortabilityAssumption DEF PortTick, PortInv, PortabilityTypeOK
    <2>2. PortabilityTypeOK'
      BY <2>1 DEF PortInv, PortabilityTypeOK
    <2> QED  BY <2>1, <2>2 DEF PortInv
  <1> QED  BY <1>1, <1>2, <1>3, <1>4, <1>5 DEF ImportNext

\* A rotation goes on, and the controls change with it.
LEMMA RotationMoves ==
    ASSUME PortInv, NEW r, rotation' = r, RotationHolds(r, controls', removalLost'),
           controls' \subseteq Vendors, ~removalLost' => controls' # {},
           vendorRotations' \in 0 .. MaxRotations,
           UNCHANGED <<portClock, bundles, target, import, imported>>
    PROVE  PortInv'
  <1>1. PortabilityTypeOK'
    BY DEF PortInv, PortabilityTypeOK
  <1> QED  BY <1>1 DEF PortInv

LEMMA RotationStep ==
    ASSUME NEW r, DOMAIN r = RotationFields, NEW pc
    PROVE  LET q == [r EXCEPT !.pc = pc] IN
           /\ DOMAIN q = RotationFields /\ q.pc = pc /\ q.old = r.old /\ q.next = r.next
  BY DEF RotationFields

LEMMA RotateVendorKeeps ==
    ASSUME PortInv, NEW old \in Vendors, NEW next \in Vendors, RotateVendor(old, next)
    PROVE  PortInv'
  <1> DEFINE no == FALSE
             r == [old |-> old, next |-> next, pc |-> "install", installed |-> no]
  <1>1. /\ old \in controls /\ next \notin controls /\ rotation' = r
        /\ vendorRotations' = vendorRotations + 1 /\ vendorRotations < MaxRotations
        /\ UNCHANGED <<portClock, bundles, target, import, imported, controls, removalLost>>
    BY DEF RotateVendor
  <1> HIDE DEF no
  <1>2. /\ DOMAIN r = RotationFields /\ r.old = old /\ r.next = next /\ r.pc = "install"
    BY DEF RotationFields
  <1> HIDE DEF r
  <1>3. RotationHolds(r, controls', removalLost')
    BY <1>1, <1>2 DEF RotationHolds
  <1>4. /\ vendorRotations' \in 0 .. MaxRotations /\ controls' \subseteq Vendors
        /\ ~removalLost' => controls' # {}
    BY <1>1, PortabilityAssumption DEF PortInv, PortabilityTypeOK
  <1> QED  BY <1>1, <1>3, <1>4, RotationMoves

LEMMA InstallKeeps ==
    ASSUME PortInv, InstallNextControl
    PROVE  PortInv'
  <1> DEFINE yes == TRUE
             q == [rotation EXCEPT !.pc = "check", !.installed = yes]
             r == [rotation EXCEPT !.pc = "failed"]
  <1>1. /\ rotation # None /\ rotation.pc = "install" /\ rotation' \in {q, r}
        /\ controls' \in {controls, controls \cup {rotation.next}}
        /\ UNCHANGED <<portClock, bundles, target, import, imported, vendorRotations,
                       removalLost>>
    BY DEF InstallNextControl
  <1>2. RotationHolds(rotation, controls, removalLost)
    BY <1>1 DEF PortInv
  <1> HIDE DEF yes
  <1>3. /\ DOMAIN q = RotationFields /\ q.pc = "check" /\ q.old = rotation.old
        /\ q.next = rotation.next
    BY <1>2 DEF RotationHolds, RotationFields
  <1>4. /\ DOMAIN r = RotationFields /\ r.pc = "failed" /\ r.old = rotation.old
        /\ r.next = rotation.next
    BY <1>2, RotationStep DEF RotationHolds
  <1> HIDE DEF q, r
  <1>5. RotationHolds(q, controls', removalLost') /\ RotationHolds(r, controls', removalLost')
    BY <1>1, <1>2, <1>3, <1>4 DEF RotationHolds
  <1>6. /\ vendorRotations' \in 0 .. MaxRotations /\ controls' \subseteq Vendors
        /\ ~removalLost' => controls' # {}
    BY <1>1, <1>2 DEF PortInv, PortabilityTypeOK, RotationHolds
  <1> QED  BY <1>1, <1>5, <1>6, RotationMoves

LEMMA VerifyNextKeeps ==
    ASSUME PortInv, VerifyNextControl
    PROVE  PortInv'
  <1> DEFINE q == [rotation EXCEPT !.pc = "remove"]
             r == [rotation EXCEPT !.pc = "failed"]
  <1>1. /\ rotation # None /\ rotation.pc = "check"
        /\ (rotation' = q /\ rotation.next \in controls) \/ rotation' = r
        /\ UNCHANGED <<portClock, bundles, target, import, imported, controls,
                       vendorRotations, removalLost>>
    BY DEF VerifyNextControl
  <1>2. RotationHolds(rotation, controls, removalLost)
    BY <1>1 DEF PortInv
  <1>3. /\ DOMAIN q = RotationFields /\ q.pc = "remove" /\ q.old = rotation.old
        /\ q.next = rotation.next
    BY <1>2, RotationStep DEF RotationHolds
  <1>4. /\ DOMAIN r = RotationFields /\ r.pc = "failed" /\ r.old = rotation.old
        /\ r.next = rotation.next
    BY <1>2, RotationStep DEF RotationHolds
  <1> HIDE DEF q, r
  <1>5. /\ rotation.next \in controls => RotationHolds(q, controls', removalLost')
        /\ RotationHolds(r, controls', removalLost')
    BY <1>1, <1>2, <1>3, <1>4 DEF RotationHolds
  <1>6. /\ vendorRotations' \in 0 .. MaxRotations /\ controls' \subseteq Vendors
        /\ ~removalLost' => controls' # {}
    BY <1>1 DEF PortInv, PortabilityTypeOK
  <1> QED  BY <1>1, <1>5, <1>6, RotationMoves

\* The next control is there when the old one goes.
LEMMA RemoveOldKeeps ==
    ASSUME PortInv, RemoveOldControl
    PROVE  PortInv'
  <1> DEFINE q == [rotation EXCEPT !.pc = "rotated"]
             r == [rotation EXCEPT !.pc = "failed"]
  <1>1. /\ rotation # None /\ rotation.pc = "remove"
        /\ UNCHANGED <<portClock, bundles, target, import, imported, vendorRotations>>
        /\ \/ /\ controls' = controls \ {rotation.old} /\ rotation' = q
              /\ UNCHANGED removalLost
           \/ /\ controls' \in {controls, controls \ {rotation.old}} /\ rotation' = r
              /\ removalLost' = (removalLost \/ controls' # controls)
    BY DEF RemoveOldControl
  <1>2. RotationHolds(rotation, controls, removalLost)
    BY <1>1 DEF PortInv
  <1>3. /\ DOMAIN q = RotationFields /\ q.pc = "rotated" /\ q.old = rotation.old
        /\ q.next = rotation.next
    BY <1>2, RotationStep DEF RotationHolds
  <1>4. /\ DOMAIN r = RotationFields /\ r.pc = "failed" /\ r.old = rotation.old
        /\ r.next = rotation.next
    BY <1>2, RotationStep DEF RotationHolds
  <1> HIDE DEF q, r
  <1>5. vendorRotations' \in 0 .. MaxRotations /\ controls' \subseteq Vendors
    BY <1>1 DEF PortInv, PortabilityTypeOK
  <1>6. CASE /\ controls' = controls \ {rotation.old} /\ rotation' = q
             /\ UNCHANGED removalLost
    <2>1. RotationHolds(q, controls', removalLost')
      BY <1>2, <1>3, <1>6 DEF RotationHolds
    <2>2. ~removalLost' => controls' # {}
      BY <1>1, <1>2, <1>6 DEF RotationHolds
    <2> QED  BY <1>1, <1>5, <1>6, <2>1, <2>2, RotationMoves
  <1>7. CASE /\ controls' \in {controls, controls \ {rotation.old}} /\ rotation' = r
             /\ removalLost' = (removalLost \/ controls' # controls)
    <2>1. ~removalLost' => ~removalLost /\ controls' = controls
      BY <1>7
    <2>2. RotationHolds(r, controls', removalLost')
      BY <1>1, <1>2, <1>4, <2>1 DEF RotationHolds
    <2>3. ~removalLost' => controls' # {}
      BY <2>1 DEF PortInv
    <2> QED  BY <1>1, <1>5, <1>7, <2>2, <2>3, RotationMoves
  <1> QED  BY <1>1, <1>6, <1>7

\* The rollback takes the next control, never the old one.
LEMMA RollbackNextKeeps ==
    ASSUME PortInv, RollbackNextControl
    PROVE  PortInv'
  <1> DEFINE q == [rotation EXCEPT !.pc = "ROTATION_FAILED"]
             r == [rotation EXCEPT !.pc = "ROLLBACK_FAILED"]
  <1>1. /\ rotation # None /\ rotation.pc = "failed" /\ rotation' \in {q, r}
        /\ controls' \in {controls, controls \ {rotation.next}}
        /\ UNCHANGED <<portClock, bundles, target, import, imported, vendorRotations,
                       removalLost>>
    BY DEF RollbackNextControl
  <1>2. RotationHolds(rotation, controls, removalLost)
    BY <1>1 DEF PortInv
  <1>3. /\ DOMAIN q = RotationFields /\ q.pc = "ROTATION_FAILED" /\ q.old = rotation.old
        /\ q.next = rotation.next
    BY <1>2, RotationStep DEF RotationHolds
  <1>4. /\ DOMAIN r = RotationFields /\ r.pc = "ROLLBACK_FAILED" /\ r.old = rotation.old
        /\ r.next = rotation.next
    BY <1>2, RotationStep DEF RotationHolds
  <1> HIDE DEF q, r
  <1>5. ~removalLost => rotation.old \in controls'
    BY <1>1, <1>2 DEF RotationHolds
  <1>6. RotationHolds(q, controls', removalLost') /\ RotationHolds(r, controls', removalLost')
    BY <1>1, <1>2, <1>3, <1>4, <1>5 DEF RotationHolds
  <1>7. /\ vendorRotations' \in 0 .. MaxRotations /\ controls' \subseteq Vendors
        /\ ~removalLost' => controls' # {}
    BY <1>1, <1>5 DEF PortInv, PortabilityTypeOK
  <1> QED  BY <1>1, <1>6, <1>7, RotationMoves

\* Imports and rotations hold however the calls of their ports fail.
LEMMA PortInvariant == PortabilitySpec => []PortInv
  <1>1. PortabilityInit => PortInv
    BY PortStarts
  <1>2. ASSUME PortInv, [PortabilityNext]_portVars PROVE PortInv'
    <2>1. CASE ImportNext
      BY <1>2, <2>1, ImportKeeps
    <2>2. CASE InstallNextControl \/ VerifyNextControl \/ RemoveOldControl \/ RollbackNextControl
      BY <1>2, <2>2, InstallKeeps, VerifyNextKeeps, RemoveOldKeeps, RollbackNextKeeps
    <2>3. ASSUME NEW old \in Vendors, NEW next \in Vendors, RotateVendor(old, next)
          PROVE  PortInv'
      BY <1>2, <2>3, RotateVendorKeeps
    <2>4. CASE UNCHANGED portVars
      BY <1>2, <2>4 DEF portVars, PortInv, PortabilityTypeOK
    <2> QED  BY <1>2, <2>1, <2>2, <2>3, <2>4 DEF PortabilityNext, VendorRotationNext
  <1> QED  BY <1>1, <1>2, PTL DEF PortabilitySpec

\* An import is all or nothing, whichever answers of the port are lost.
THEOREM AllOrNothing == PortabilitySpec => []ImportIsAllOrNothing
  <1>1. PortInv => ImportIsAllOrNothing
    BY DEF PortInv, BundleHolds, ImportSound, ImportHolds, ImportIsAllOrNothing
  <1> QED  BY <1>1, PortInvariant, PTL

\* Some vendor controls the account, unless an answer of removeOldControl is lost.
THEOREM ControlSurvives == PortabilitySpec => []ControlSurvivesRotation
  <1>1. PortInv => ControlSurvivesRotation
    BY DEF PortInv, ControlSurvivesRotation
  <1> QED  BY <1>1, PortInvariant, PTL

\* "old control remains authoritative" fails for no other reason than a lost answer
\* of removeOldControl.
THEOREM OldControlUnlessLost == PortabilitySpec => [](~removalLost => OldControlRemains)
  <1>1. PortInv => (~removalLost => OldControlRemains)
    BY DEF PortInv, RotationHolds, OldControlRemains
  <1> QED  BY <1>1, PortInvariant, PTL
-----------------------------------------------------------------------------
(* InstitutionalAdmin.                                                     *)

\* The inductive invariant of the templates.
AdminInv == AdminTypeOK /\ PublishedAsReviewed

\* A template under key k: what PublishedAsReviewed says of it.
TemplateReviewed(t, k) ==
    t.status \in {"approved", "published", "deprecated"} =>
        /\ k \in DOMAIN approvals
        /\ approvals[k].content = t.content
        /\ approvals[k].by.principalId = t.reviewedBy
        /\ AuthorizeInstitutional(approvals[k].by, "templates:review", k[1])

LEMMA AdminStarts ==
    ASSUME AdminInit
    PROVE  AdminInv
  <1>1. DOMAIN EmptyMap = {}
    BY DEF EmptyMap
  <1>2. AdminTypeOK
    BY EmptyMapType DEF AdminInit, AdminTypeOK
  <1> QED  BY <1>1, <1>2 DEF AdminInit, AdminInv, PublishedAsReviewed

\* A template changes and no approval does: the template is under its approval
\* as before.
LEMMA TemplateChanges ==
    ASSUME AdminInv, NEW k \in DOMAIN templates, NEW t \in InstitutionalTemplate,
           templates' = [templates EXCEPT ![k] = t], UNCHANGED <<signerConfigs, approvals>>,
           TemplateReviewed(t, k)
    PROVE  AdminInv'
  <1>1. AdminTypeOK'
    BY UpdateType DEF AdminInv, AdminTypeOK
  <1>2. DOMAIN templates' = DOMAIN templates /\ templates'[k] = t
        /\ \A j \in DOMAIN templates \ {k} : templates'[j] = templates[j]
    BY DEF AdminInv, AdminTypeOK, IsMap
  <1>3. PublishedAsReviewed'
    BY <1>2 DEF AdminInv, PublishedAsReviewed, TemplateReviewed
  <1> QED  BY <1>1, <1>3 DEF AdminInv

LEMMA CreateDraftKeeps ==
    ASSUME AdminInv, NEW p \in AdminPrincipals, NEW k \in Tenants \X TemplateIds,
           NEW content \in TemplateContents, CreateDraft(p, k, content)
    PROVE  AdminInv'
  <1> DEFINE t == [status |-> "draft", content |-> content,
                   updatedBy |-> p.principalId, reviewedBy |-> None]
  <1>1. templates' = Put(templates, k, t) /\ UNCHANGED <<signerConfigs, approvals>>
    BY DEF CreateDraft
  <1>2. t \in InstitutionalTemplate /\ t.status = "draft"
    BY DEF InstitutionalTemplate, TemplateStatus, PrincipalIds
  <1> HIDE DEF t
  <1>3. AdminTypeOK'
    BY <1>1, <1>2, PutType DEF AdminInv, AdminTypeOK
  <1>4. /\ DOMAIN templates' = DOMAIN templates \cup {k} /\ templates'[k] = t
        /\ \A j \in DOMAIN templates \ {k} : templates'[j] = templates[j]
    BY <1>1 DEF Put
  <1>5. PublishedAsReviewed'
    BY <1>1, <1>2, <1>4 DEF AdminInv, PublishedAsReviewed
  <1> QED  BY <1>3, <1>5 DEF AdminInv

\* Only a draft takes a patch, so what is approved is not edited.
LEMMA UpdateDraftKeeps ==
    ASSUME AdminInv, NEW p \in AdminPrincipals, NEW k \in Tenants \X TemplateIds,
           NEW patch \in TemplateContents \cup {None}, UpdateDraft(p, k, patch)
    PROVE  AdminInv'
  <1> DEFINE t == [templates[k] EXCEPT !.content = patch, !.updatedBy = p.principalId]
  <1>1. /\ k \in DOMAIN templates /\ templates[k].status = "draft"
        /\ templates' = [templates EXCEPT ![k] = t] /\ UNCHANGED <<signerConfigs, approvals>>
    BY DEF UpdateDraft, Found, Editable
  <1>2. templates[k] \in InstitutionalTemplate
    BY <1>1 DEF AdminInv, AdminTypeOK, IsMap
  <1>3. t \in InstitutionalTemplate /\ t.status = "draft"
    BY <1>1, <1>2 DEF InstitutionalTemplate, PrincipalIds
  <1> HIDE DEF t
  <1>4. TemplateReviewed(t, k)
    BY <1>3 DEF TemplateReviewed
  <1> QED  BY <1>1, <1>3, <1>4, TemplateChanges

\* A template moves on: into review, or from one reviewed status to the next.
LEMMA ReplaceKeeps ==
    ASSUME AdminInv, NEW p \in AdminPrincipals, NEW k \in DOMAIN templates,
           NEW status \in TemplateStatus, Replace(p, k, status),
           UNCHANGED <<signerConfigs, approvals>>,
           status = "in_review" \/ templates[k].status \in {"approved", "published"}
    PROVE  AdminInv'
  <1> DEFINE t == [templates[k] EXCEPT !.status = status, !.updatedBy = p.principalId]
  <1>1. templates' = [templates EXCEPT ![k] = t]
    BY DEF Replace
  <1>2. templates[k] \in InstitutionalTemplate
    BY DEF AdminInv, AdminTypeOK, IsMap
  <1>3. /\ t \in InstitutionalTemplate /\ t.status = status
        /\ t.content = templates[k].content /\ t.reviewedBy = templates[k].reviewedBy
    BY <1>2 DEF InstitutionalTemplate, PrincipalIds
  <1> HIDE DEF t
  <1>4. TemplateReviewed(t, k)
    BY <1>3 DEF TemplateReviewed, AdminInv, PublishedAsReviewed
  <1> QED  BY <1>1, <1>3, <1>4, TemplateChanges

\* An approval is of the template as it stands, by a principal who may review in
\* its tenant; a rejection makes a draft of it.
LEMMA ReviewTemplateKeeps ==
    ASSUME AdminInv, NEW p \in AdminPrincipals, NEW k \in Tenants \X TemplateIds,
           NEW decision \in {"approved", "rejected"}, ReviewTemplate(p, k, decision)
    PROVE  AdminInv'
  <1> DEFINE status == IF decision = "approved" THEN "approved" ELSE "draft"
             t == [templates[k] EXCEPT !.status = status, !.reviewedBy = p.principalId,
                                       !.updatedBy = p.principalId]
             a == [content |-> templates[k].content, by |-> p]
  <1>1. /\ k \in DOMAIN templates /\ AuthorizeInstitutional(p, "templates:review", k[1])
        /\ templates' = [templates EXCEPT ![k] = t] /\ UNCHANGED signerConfigs
        /\ approvals' = IF decision = "approved" THEN Put(approvals, k, a) ELSE approvals
    BY DEF ReviewTemplate, Found
  <1>2. templates[k] \in InstitutionalTemplate
    BY <1>1 DEF AdminInv, AdminTypeOK, IsMap
  <1>3. /\ t \in InstitutionalTemplate /\ t.status = status
        /\ t.content = templates[k].content /\ t.reviewedBy = p.principalId
    BY <1>2 DEF InstitutionalTemplate, TemplateStatus, PrincipalIds
  <1>4. a.content = templates[k].content /\ a.by = p
    OBVIOUS
  <1> HIDE DEF t, a
  <1>5. /\ DOMAIN templates' = DOMAIN templates /\ templates'[k] = t
        /\ \A j \in DOMAIN templates \ {k} : templates'[j] = templates[j]
    BY <1>1 DEF AdminInv, AdminTypeOK, IsMap
  <1>6. AdminTypeOK'
    BY <1>1, <1>3, UpdateType DEF AdminInv, AdminTypeOK
  <1>7. /\ decision = "approved" => k \in DOMAIN approvals' /\ approvals'[k] = a
        /\ \A j \in DOMAIN approvals \ {k} :
              j \in DOMAIN approvals' /\ approvals'[j] = approvals[j]
    BY <1>1 DEF Put
  <1>8. ASSUME NEW j \in DOMAIN templates',
               templates'[j].status \in {"approved", "published", "deprecated"}
        PROVE  /\ j \in DOMAIN approvals'
               /\ approvals'[j].content = templates'[j].content
               /\ approvals'[j].by.principalId = templates'[j].reviewedBy
               /\ AuthorizeInstitutional(approvals'[j].by, "templates:review", j[1])
    <2>1. CASE j = k
      <3>1. decision = "approved"
        BY <1>3, <1>5, <1>8, <2>1
      <3> QED  BY <1>1, <1>3, <1>4, <1>5, <1>7, <2>1, <3>1
    <2>2. CASE j # k
      BY <1>5, <1>7, <1>8, <2>2 DEF AdminInv, PublishedAsReviewed
    <2> QED  BY <2>1, <2>2
  <1>9. PublishedAsReviewed'
    BY <1>8 DEF PublishedAsReviewed
  <1> QED  BY <1>6, <1>9 DEF AdminInv

\* The signer configurations are apart from the templates.
LEMMA SignerConfigsKeep ==
    ASSUME AdminInv, NEW p \in AdminPrincipals, NEW k \in Tenants \X AdminSigners,
           \/ \E status \in {"active", "disabled", None} : RegisterSigner(p, k, status)
           \/ \E status \in {"active", "standby", "disabled"} : SetSignerStatus(p, k, status)
    PROVE  AdminInv'
  <1>1. UNCHANGED <<templates, approvals>>
    BY DEF RegisterSigner, SetSignerStatus
  <1>2. IsMap(signerConfigs', Tenants \X AdminSigners, OpaqueSignerConfiguration)
    <2>1. CASE \E status \in {"active", "disabled", None} : RegisterSigner(p, k, status)
      <3>1. PICK c \in OpaqueSignerConfiguration : signerConfigs' = Put(signerConfigs, k, c)
        BY <2>1 DEF RegisterSigner, OpaqueSignerConfiguration
      <3> QED  BY <3>1, PutType DEF AdminInv, AdminTypeOK
    <2>2. CASE \E status \in {"active", "standby", "disabled"} : SetSignerStatus(p, k, status)
      <3>1. PICK status \in {"active", "standby", "disabled"} : SetSignerStatus(p, k, status)
        BY <2>2
      <3> DEFINE c == [signerConfigs[k] EXCEPT !.status = status]
      <3>2. signerConfigs' = [signerConfigs EXCEPT ![k] = c]
        BY <3>1 DEF SetSignerStatus
      <3>3. signerConfigs[k] \in OpaqueSignerConfiguration
        BY <3>1 DEF SetSignerStatus, AdminInv, AdminTypeOK, IsMap
      <3>4. c \in OpaqueSignerConfiguration
        BY <3>3 DEF OpaqueSignerConfiguration
      <3> HIDE DEF c
      <3> QED  BY <3>2, <3>4, UpdateType DEF AdminInv, AdminTypeOK
    <2> QED  BY <2>1, <2>2
  <1> QED  BY <1>1, <1>2 DEF AdminInv, AdminTypeOK, PublishedAsReviewed

LEMMA AdminStep ==
    ASSUME AdminInv, AdminNext
    PROVE  AdminInv'
  <1>1. PICK p \in AdminPrincipals :
            \/ \E k \in Tenants \X TemplateIds :
                  \/ \E content \in TemplateContents : CreateDraft(p, k, content)
                  \/ \E patch \in TemplateContents \cup {None} : UpdateDraft(p, k, patch)
                  \/ SubmitForReview(p, k) \/ Publish(p, k) \/ Deprecate(p, k)
                  \/ \E decision \in {"approved", "rejected"} : ReviewTemplate(p, k, decision)
            \/ \E k \in Tenants \X AdminSigners :
                  \/ \E status \in {"active", "disabled", None} : RegisterSigner(p, k, status)
                  \/ \E status \in {"active", "standby", "disabled"} :
                        SetSignerStatus(p, k, status)
    BY DEF AdminNext
  <1>2. ASSUME NEW k \in Tenants \X TemplateIds,
               SubmitForReview(p, k) \/ Publish(p, k) \/ Deprecate(p, k)
        PROVE  AdminInv'
    <2>1. PICK status \in TemplateStatus :
              /\ Replace(p, k, status) /\ k \in DOMAIN templates
              /\ UNCHANGED <<signerConfigs, approvals>>
              /\ status = "in_review" \/ templates[k].status \in {"approved", "published"}
      BY <1>2 DEF SubmitForReview, Publish, Deprecate, Found, TemplateStatus
    <2> QED  BY <2>1, ReplaceKeeps
  <1> QED  BY <1>1, <1>2, CreateDraftKeeps, UpdateDraftKeeps, ReviewTemplateKeeps,
              SignerConfigsKeep

LEMMA AdminInvariant == AdminSpec => []AdminInv
  <1>1. ASSUME AdminInv, UNCHANGED adminVars PROVE AdminInv'
    BY <1>1 DEF AdminInv, AdminTypeOK, PublishedAsReviewed, adminVars
  <1> QED  BY <1>1, AdminStarts, AdminStep, PTL DEF AdminSpec
-----------------------------------------------------------------------------
(* SignerOperations.                                                       *)

\* A call holds the request it read, of a rotation there still is.
RotationCallHolds(c, all) ==
    /\ DOMAIN c = {"by", "key", "request"}
    /\ c.key \in DOMAIN all /\ c.key \in Tenants \X RotationIds
    /\ c.request \in SignerRotationRequest /\ c.request.plan = all[c.key].plan

\* What is shown of a rotation r is what the last of its results said: `last` has it
\* under k.
ReportedAs(r, k, last) ==
    r.state \in {"ready", "succeeded", "failed"} =>
        k \in DOMAIN last /\ last[k].outcome = r.state /\ last[k].observed = r.plan

\* The inductive invariant of the rotations.
RotationInv ==
    /\ Reported
    /\ IsMap(rotations, Tenants \X RotationIds, SignerRotationRequest)
    /\ \A s \in DOMAIN rotationCalls : RotationCallHolds(rotationCalls[s], rotations)

\* What the property says of a step of the rotations from `old` to `new`.
RotationsKept(old, new) ==
    \A k \in DOMAIN old :
        /\ k \in DOMAIN new
        /\ new[k].plan = old[k].plan
        /\ old[k].state = "succeeded" => new[k].state \in {"succeeded", "ambiguous"}

LEMMA RotationsStart ==
    ASSUME OperationsInit
    PROVE  RotationInv
  <1>1. DOMAIN EmptyMap = {}
    BY DEF EmptyMap
  <1> QED  BY <1>1, EmptyMapType DEF OperationsInit, RotationInv, Reported

\* A rotation is written: it was requested with the same plan, or not at all, and
\* is not taken back when it had succeeded.
LEMMA RotationWritten ==
    ASSUME RotationInv, NEW k \in Tenants \X RotationIds, NEW r \in SignerRotationRequest,
           rotations' = Put(rotations, k, r),
           k \in DOMAIN rotations =>
               /\ r.plan = rotations[k].plan
               /\ rotations[k].state = "succeeded" => r.state \in {"succeeded", "ambiguous"},
           DOMAIN rotationCalls' \subseteq DOMAIN rotationCalls,
           \A s \in DOMAIN rotationCalls' : rotationCalls'[s] = rotationCalls[s],
           ReportedAs(r, k, lastResult'),
           \A j \in DOMAIN lastResult \ {k} :
               j \in DOMAIN lastResult' /\ lastResult'[j] = lastResult[j]
    PROVE  RotationInv' /\ RotationsKept(rotations, rotations')
  <1>1. /\ DOMAIN rotations' = DOMAIN rotations \cup {k} /\ rotations'[k] = r
        /\ \A j \in DOMAIN rotations \ {k} : rotations'[j] = rotations[j]
    BY DEF Put
  <1>2. IsMap(rotations', Tenants \X RotationIds, SignerRotationRequest)
    BY PutType DEF RotationInv
  <1>3. RotationsKept(rotations, rotations')
    BY <1>1 DEF RotationsKept
  <1>4. ASSUME NEW s \in DOMAIN rotationCalls'
        PROVE  RotationCallHolds(rotationCalls'[s], rotations')
    <2>1. rotationCalls'[s] = rotationCalls[s] /\ RotationCallHolds(rotationCalls[s], rotations)
      BY DEF RotationInv
    <2> QED  BY <1>3, <2>1 DEF RotationCallHolds, RotationsKept
  <1>5. Reported'
    BY <1>1 DEF RotationInv, Reported, ReportedAs
  <1> QED  BY <1>2, <1>3, <1>4, <1>5 DEF RotationInv

\* FailClosed: the same plan, ambiguous.
LEMMA FailClosedIs ==
    ASSUME NEW r \in SignerRotationRequest
    PROVE  /\ FailClosed(r) \in SignerRotationRequest
           /\ FailClosed(r).plan = r.plan /\ FailClosed(r).state = "ambiguous"
  BY DEF FailClosed, SignerRotationRequest, RotationState

\* A recorded result keeps the plan, takes no success back, and is shown as it is or as
\* ambiguous.
LEMMA ResultOfIs ==
    ASSUME NEW r \in SignerRotationRequest, NEW result \in RotationResult
    PROVE  /\ ResultOf(r, result) \in SignerRotationRequest
           /\ ResultOf(r, result).plan = r.plan
           /\ r.state = "succeeded" => ResultOf(r, result).state \in {"succeeded", "ambiguous"}
           /\ \/ ResultOf(r, result).state = "ambiguous"
              \/ ResultOf(r, result).state = result.outcome /\ result.observed = r.plan
  <1> DEFINE n == [r EXCEPT !.state = result.outcome]
  <1>1. n \in SignerRotationRequest /\ n.plan = r.plan /\ n.state = result.outcome
    BY DEF SignerRotationRequest, RotationResult, RotationOutcome
  <1> HIDE DEF n
  <1>2. \/ ResultOf(r, result) = FailClosed(r)
        \/ /\ ResultOf(r, result) = n /\ result.observed = r.plan
           /\ r.state = "succeeded" => result.outcome = "succeeded"
    BY DEF ResultOf, n
  <1> QED  BY <1>1, <1>2, FailClosedIs

LEMMA RecordedKeeps ==
    ASSUME RotationInv, NEW tenant \in Tenants, NEW result \in RotationResult, NEW p,
           Recordable(p, tenant, result), Recorded(tenant, result),
           DOMAIN rotationCalls' \subseteq DOMAIN rotationCalls,
           \A s \in DOMAIN rotationCalls' : rotationCalls'[s] = rotationCalls[s]
    PROVE  RotationInv' /\ RotationsKept(rotations, rotations')
  <1> DEFINE k == <<tenant, result.rotationId>>
             r == ResultOf(rotations[k], result)
             last == [outcome |-> result.outcome, observed |-> result.observed]
  <1>1. /\ k \in DOMAIN rotations /\ rotations' = Put(rotations, k, r)
        /\ lastResult' = Put(lastResult, k, last)
    BY DEF Recordable, Recorded
  <1>2. k \in Tenants \X RotationIds /\ rotations[k] \in SignerRotationRequest
    BY <1>1 DEF RotationInv, IsMap
  <1> HIDE DEF k
  <1>3. /\ r \in SignerRotationRequest /\ r.plan = rotations[k].plan
        /\ rotations[k].state = "succeeded" => r.state \in {"succeeded", "ambiguous"}
        /\ \/ r.state = "ambiguous"
           \/ r.state = result.outcome /\ result.observed = r.plan
    BY <1>2, ResultOfIs
  <1>4. last.outcome = result.outcome /\ last.observed = result.observed
    OBVIOUS
  <1> HIDE DEF r, last
  <1>5. /\ k \in DOMAIN lastResult' /\ lastResult'[k] = last
        /\ \A j \in DOMAIN lastResult \ {k} :
              j \in DOMAIN lastResult' /\ lastResult'[j] = lastResult[j]
    BY <1>1 DEF Put
  <1>6. ReportedAs(r, k, lastResult')
    BY <1>3, <1>4, <1>5 DEF ReportedAs
  <1> QED  BY <1>1, <1>2, <1>3, <1>5, <1>6, RotationWritten

LEMMA RequestRotationKeeps ==
    ASSUME RotationInv, NEW p, NEW k \in Tenants \X RotationIds, NEW plan \in RotationPlans,
           RequestRotation(p, k, plan)
    PROVE  RotationInv' /\ RotationsKept(rotations, rotations')
  <1> DEFINE r == [plan |-> plan, state |-> "requested"]
  <1>1. /\ k \notin DOMAIN rotations /\ rotations' = Put(rotations, k, r)
        /\ UNCHANGED <<rotationCalls, lastResult>>
    BY DEF RequestRotation
  <1>2. r \in SignerRotationRequest /\ ReportedAs(r, k, lastResult')
    BY DEF SignerRotationRequest, RotationState, ReportedAs
  <1> HIDE DEF r
  <1> QED  BY <1>1, <1>2, RotationWritten

\* Nothing is written to the rotations.
LEMMA RotationsStay ==
    ASSUME RotationInv, UNCHANGED rotations
    PROVE  RotationsKept(rotations, rotations')
  BY DEF RotationsKept

LEMMA RotateWithProviderKeeps ==
    ASSUME RotationInv, NEW s, NEW p, NEW k \in Tenants \X RotationIds,
           RotateWithProvider(s, p, k)
    PROVE  RotationInv' /\ RotationsKept(rotations, rotations')
  <1> DEFINE c == [by |-> p, key |-> k, request |-> rotations[k]]
  <1>1. /\ k \in DOMAIN rotations /\ rotationCalls' = Put(rotationCalls, s, c)
        /\ UNCHANGED <<rotations, lastResult>>
    BY DEF RotateWithProvider
  <1>2. rotations[k] \in SignerRotationRequest
    BY <1>1 DEF RotationInv, IsMap
  <1>3. RotationCallHolds(c, rotations)
    BY <1>1, <1>2 DEF RotationCallHolds
  <1> HIDE DEF c
  <1>4. \A t \in DOMAIN rotationCalls' : RotationCallHolds(rotationCalls'[t], rotations)
    BY <1>1, <1>3 DEF Put, RotationInv
  <1> QED  BY <1>1, <1>4, RotationsStay DEF RotationInv, Reported

\* The answer of the provider is recorded, or the request that was read before
\* is written back as ambiguous, over whatever arrived meanwhile.
LEMMA ProviderRotatedKeeps ==
    ASSUME RotationInv, NEW s, NEW result \in RotationResult \cup {None},
           ProviderRotated(s, result)
    PROVE  RotationInv' /\ RotationsKept(rotations, rotations')
  <1> DEFINE c == rotationCalls[s]
             recordable == result # None /\ Recordable(c.by, c.key[1], result)
  <1>1. /\ s \in DOMAIN rotationCalls /\ rotationCalls' = Drop(rotationCalls, s)
        /\ \/ recordable /\ Recorded(c.key[1], result)
           \/ /\ ~recordable /\ UNCHANGED lastResult
              /\ rotations' = Put(rotations, c.key, FailClosed(c.request))
    BY DEF ProviderRotated
  <1>2. /\ DOMAIN rotationCalls' \subseteq DOMAIN rotationCalls
        /\ \A t \in DOMAIN rotationCalls' : rotationCalls'[t] = rotationCalls[t]
    BY <1>1 DEF Drop
  <1>3. RotationCallHolds(c, rotations)
    BY <1>1 DEF RotationInv
  <1>4. CASE recordable
    <2>1. c.key[1] \in Tenants /\ result \in RotationResult
      BY <1>3, <1>4 DEF RotationCallHolds
    <2> QED  BY <1>1, <1>2, <1>4, <2>1, RecordedKeeps
  <1>5. CASE ~recordable
    <2> DEFINE r == FailClosed(c.request)
    <2>1. /\ rotations' = Put(rotations, c.key, r) /\ UNCHANGED lastResult
          /\ c.key \in Tenants \X RotationIds
      BY <1>1, <1>3, <1>5 DEF RotationCallHolds
    <2>2. /\ r \in SignerRotationRequest /\ r.plan = rotations[c.key].plan
          /\ r.state = "ambiguous"
      BY <1>3, FailClosedIs DEF RotationCallHolds
    <2> HIDE DEF r, c
    <2>3. ReportedAs(r, c.key, lastResult')
      BY <2>2 DEF ReportedAs
    <2> QED  BY <1>2, <2>1, <2>2, <2>3, RotationWritten
  <1> QED  BY <1>4, <1>5

\* What is observed of signers and trust leaves the rotations alone.
LEMMA ObservationsKeep ==
    ASSUME RotationInv, ObservationNext \/ UNCHANGED operationsVars
    PROVE  RotationInv' /\ RotationsKept(rotations, rotations')
  <1>1. UNCHANGED <<rotations, rotationCalls, lastResult>>
    BY DEF ObservationNext, TrustTick, SetHealth, UpsertTrust, ResolveTrust, operationsVars
  <1> QED  BY <1>1, RotationsStay DEF RotationInv, Reported

LEMMA RotationsStep ==
    ASSUME RotationInv, [RotationNext \/ ProviderNext \/ ObservationNext]_operationsVars
    PROVE  RotationInv' /\ RotationsKept(rotations, rotations')
  <1>1. CASE RotationNext
    <2>1. ASSUME NEW p \in AdminPrincipals, NEW tenant \in Tenants, NEW result \in RotationResult,
                 RecordRotationResult(p, tenant, result)
          PROVE  RotationInv' /\ RotationsKept(rotations, rotations')
      <3>1. /\ Recordable(p, tenant, result) /\ Recorded(tenant, result)
            /\ UNCHANGED rotationCalls
        BY <2>1 DEF RecordRotationResult
      <3> QED  BY <3>1, RecordedKeeps
    <2> QED  BY <1>1, <2>1, RequestRotationKeeps, RotateWithProviderKeeps DEF RotationNext
  <1>2. CASE ProviderNext
    BY <1>2, ProviderRotatedKeeps DEF ProviderNext
  <1>3. CASE ObservationNext \/ UNCHANGED operationsVars
    BY <1>3, ObservationsKeep
  <1> QED  BY <1>1, <1>2, <1>3

\* A rotation keeps its plan, is shown as the last result said or as ambiguous, and a
\* success turns into nothing but ambiguous, although rotateWithProvider writes back a
\* request it read before other results arrived: the inductive invariant says that what
\* a call read has the plan of the rotation it writes.
THEOREM RotationsRemembered == OperationsSpec => RotationsAreNotForgotten
  <1>1. RotationInv /\ [RotationNext \/ ProviderNext \/ ObservationNext]_operationsVars
        => RotationInv' /\ RotationsKept(rotations, rotations')
    BY RotationsStep
  <1>2. RotationInv' /\ RotationsKept(rotations, rotations') =>
        /\ Reported'
        /\ \A k \in DOMAIN rotations :
              /\ k \in DOMAIN rotations'
              /\ rotations'[k].plan = rotations[k].plan
              /\ rotations[k].state = "succeeded" =>
                    rotations'[k].state \in {"succeeded", "ambiguous"}
    BY DEF RotationsKept, RotationInv
  <1> QED  BY <1>1, <1>2, RotationsStart, PTL DEF OperationsSpec, RotationsAreNotForgotten
-----------------------------------------------------------------------------
(* IssuerLifecycle.                                                        *)

ReviewCall ==
    [op : {"review"}, by : IssuerAdmins, id : LcSessionIds, decision : {"approved", "rejected"}]
OfferCall == [op : {"offer"}, by : IssuerAdmins, id : LcSessionIds]
BulkCall == [op : {"bulk"}, rows : Seq(BulkRows), index : Nat]

\* The state of a session that has its approvals.
Decided == {"approved", "offered"}

\* A call under way, with the sessions `all`: a session an offer is under way for
\* was approved by others; a bulk call is at one of its rows.
LifecycleCallHolds(c, all) ==
    /\ c \in ReviewCall => c.id \in DOMAIN all
    /\ c \in OfferCall =>
          /\ c.id \in DOMAIN all /\ all[c.id].state \in Decided
          /\ ~ReviewedBy(all[c.id], c.by)
    /\ c \in BulkCall => c.index \in 1..Len(c.rows)

\* A session that was reported was reported once, and holds the request of its row.
ReportsHold(reports, all) ==
    \A id \in DOMAIN reports :
        /\ reports[id].times = 1
        /\ id \in DOMAIN all /\ all[id].request = reports[id].request

\* Sessions only move on: a decided one keeps its reviews and stays decided, an
\* offered one stays offered, and each keeps its request.
SessionsMoveOn(old, new) ==
    \A id \in DOMAIN old :
        /\ id \in DOMAIN new
        /\ new[id].request = old[id].request
        /\ old[id].state \in Decided =>
              new[id].state \in Decided /\ new[id].reviews = old[id].reviews
        /\ old[id].state = "offered" => new[id].state = "offered"

SessionsHold ==
    \A id \in DOMAIN lcSessions :
        lcSessions[id].state \in Decided =>
            Cardinality(Approved(lcSessions[id].reviews)) >= LcApprovals

OffersHold ==
    \A id \in DOMAIN offeredBy :
        /\ id \in DOMAIN lcSessions /\ lcSessions[id].state = "offered"
        /\ ~ReviewedBy(lcSessions[id], offeredBy[id])

CallsHold ==
    \A s \in DOMAIN lcCalls :
        /\ lcCalls[s] \in ReviewCall \cup OfferCall \cup BulkCall
        /\ LifecycleCallHolds(lcCalls[s], lcSessions)

\* The inductive invariant of the issuer's console.
LifecycleInv ==
    /\ LifecycleTypeOK /\ lcNow \in Nat
    /\ SessionsHold
    /\ OffersHold
    /\ CallsHold
    /\ ReportsHold(fulfilled, lcSessions)

LEMMA LifecycleStarts ==
    ASSUME LifecycleInit
    PROVE  LifecycleInv
  <1>1. DOMAIN EmptyMap = {}
    BY DEF EmptyMap
  <1>2. LifecycleTypeOK
    <2>1. IsMap(lcCredentials, LcCredentials, LifecycleCredential)
      BY DEF LifecycleInit, LifecycleCredential, IsMap
    <2> QED  BY <1>1, <2>1, EmptyMapType DEF LifecycleInit, LifecycleTypeOK
  <1> QED  BY <1>1, <1>2 DEF LifecycleInit, LifecycleInv, SessionsHold, OffersHold, CallsHold,
                             ReportsHold

\* The three kinds of call are told apart by op.
LEMMA CallKinds ==
    ASSUME NEW c \in ReviewCall \cup OfferCall \cup BulkCall
    PROVE  /\ c \in ReviewCall <=> c.op = "review"
           /\ c \in OfferCall <=> c.op = "offer"
           /\ c \in BulkCall <=> c.op = "bulk"
  BY DEF ReviewCall, OfferCall, BulkCall

\* When sessions only move on, what holds of a call goes on to hold.
LEMMA CallStays ==
    ASSUME NEW c, NEW old, NEW new, SessionsMoveOn(old, new), LifecycleCallHolds(c, old)
    PROVE  LifecycleCallHolds(c, new)
  BY DEF SessionsMoveOn, LifecycleCallHolds, ReviewedBy

\* The sessions move on, and the calls and the history of offers with them.
LEMMA SessionsMove ==
    ASSUME LifecycleInv, SessionsMoveOn(lcSessions, lcSessions'),
           IsMap(lcSessions', LcSessionIds, LifecycleSession), SessionsHold',
           IsMap(lcCredentials', LcCredentials, LifecycleCredential),
           DOMAIN lcCalls' \subseteq Slots, lcNow' \in Nat,
           \A s \in DOMAIN lcCalls' :
               \/ s \in DOMAIN lcCalls /\ lcCalls'[s] = lcCalls[s]
               \/ /\ lcCalls'[s] \in ReviewCall \cup OfferCall \cup BulkCall
                  /\ LifecycleCallHolds(lcCalls'[s], lcSessions'),
           \A id \in DOMAIN offeredBy' :
               \/ id \in DOMAIN offeredBy /\ offeredBy'[id] = offeredBy[id]
               \/ /\ id \in DOMAIN lcSessions' /\ lcSessions'[id].state = "offered"
                  /\ ~ReviewedBy(lcSessions'[id], offeredBy'[id]),
           ReportsHold(fulfilled', lcSessions')
    PROVE  LifecycleInv'
  <1>1. LifecycleTypeOK'
    BY DEF LifecycleTypeOK
  <1>2. ASSUME NEW s \in DOMAIN lcCalls'
        PROVE  /\ lcCalls'[s] \in ReviewCall \cup OfferCall \cup BulkCall
               /\ LifecycleCallHolds(lcCalls'[s], lcSessions')
    <2>1. CASE s \in DOMAIN lcCalls /\ lcCalls'[s] = lcCalls[s]
      BY <2>1, CallStays DEF LifecycleInv, CallsHold
    <2> QED  BY <2>1
  <1>3. ASSUME NEW id \in DOMAIN offeredBy'
        PROVE  /\ id \in DOMAIN lcSessions' /\ lcSessions'[id].state = "offered"
               /\ ~ReviewedBy(lcSessions'[id], offeredBy'[id])
    <2>1. CASE id \in DOMAIN offeredBy /\ offeredBy'[id] = offeredBy[id]
      BY <2>1 DEF LifecycleInv, OffersHold, SessionsMoveOn, Decided, ReviewedBy
    <2> QED  BY <2>1
  <1>4. CallsHold' /\ OffersHold'
    BY <1>2, <1>3 DEF CallsHold, OffersHold
  <1> QED  BY <1>1, <1>4 DEF LifecycleInv

\* Reports stay good when sessions move on.
LEMMA ReportsStay ==
    ASSUME NEW reports, NEW old, NEW new, ReportsHold(reports, old), SessionsMoveOn(old, new)
    PROVE  ReportsHold(reports, new)
  BY DEF ReportsHold, SessionsMoveOn

LEMMA SessionsUnmoved == \A all : SessionsMoveOn(all, all)
  BY DEF SessionsMoveOn

\* A call begins or ends and the service does nothing.
LEMMA CallsMove ==
    ASSUME LifecycleInv,
           UNCHANGED <<lcSessions, offeredBy, fulfilled>>, lcNow' \in Nat,
           IsMap(lcCredentials', LcCredentials, LifecycleCredential),
           DOMAIN lcCalls' \subseteq Slots,
           \A s \in DOMAIN lcCalls' :
               \/ s \in DOMAIN lcCalls /\ lcCalls'[s] = lcCalls[s]
               \/ /\ lcCalls'[s] \in ReviewCall \cup OfferCall \cup BulkCall
                  /\ LifecycleCallHolds(lcCalls'[s], lcSessions)
    PROVE  LifecycleInv'
  <1>1. SessionsMoveOn(lcSessions, lcSessions')
    BY SessionsUnmoved
  <1>2. /\ IsMap(lcSessions', LcSessionIds, LifecycleSession) /\ SessionsHold'
        /\ ReportsHold(fulfilled', lcSessions')
    BY DEF LifecycleInv, LifecycleTypeOK, SessionsHold
  <1> QED  BY <1>1, <1>2, SessionsMove

LEMMA CallBegins ==
    ASSUME LifecycleInv, NEW s \in Slots, NEW c \in ReviewCall \cup OfferCall \cup BulkCall,
           lcCalls' = Put(lcCalls, s, c), LifecycleCallHolds(c, lcSessions),
           UNCHANGED <<lcNow, lcSessions, lcCredentials, offeredBy, fulfilled>>
    PROVE  LifecycleInv'
  <1>1. DOMAIN lcCalls' \subseteq Slots
    BY DEF Put, LifecycleInv, LifecycleTypeOK
  <1>2. ASSUME NEW t \in DOMAIN lcCalls', lcCalls'[t] # c
        PROVE  t \in DOMAIN lcCalls /\ lcCalls'[t] = lcCalls[t]
    BY <1>2 DEF Put
  <1>3. IsMap(lcCredentials', LcCredentials, LifecycleCredential) /\ lcNow' \in Nat
    BY DEF LifecycleInv, LifecycleTypeOK
  <1> QED  BY <1>1, <1>2, <1>3, CallsMove

LEMMA StartReviewKeeps ==
    ASSUME LifecycleInv, NEW s \in Slots, NEW p \in IssuerAdmins, NEW id \in LcSessionIds,
           NEW decision \in {"approved", "rejected"}, StartReview(s, p, id, decision)
    PROVE  LifecycleInv'
  <1> DEFINE c == [op |-> "review", by |-> p, id |-> id, decision |-> decision]
  <1>1. /\ lcCalls' = Put(lcCalls, s, c) /\ id \in DOMAIN lcSessions
        /\ UNCHANGED <<lcNow, lcSessions, lcCredentials, offeredBy, fulfilled>>
    BY DEF StartReview
  <1>2. c \in ReviewCall /\ c.op = "review" /\ c.id = id
    BY DEF ReviewCall
  <1> HIDE DEF c
  <1>3. LifecycleCallHolds(c, lcSessions)
    BY <1>1, <1>2, CallKinds DEF LifecycleCallHolds
  <1> QED  BY <1>1, <1>2, <1>3, CallBegins

\* An offer is asked for a session that others approved.
LEMMA IssueApprovedKeeps ==
    ASSUME LifecycleInv, NEW s \in Slots, NEW p \in IssuerAdmins, NEW id \in LcSessionIds,
           IssueApproved(s, p, id)
    PROVE  LifecycleInv'
  <1> DEFINE c == [op |-> "offer", by |-> p, id |-> id]
  <1>1. /\ lcCalls' = Put(lcCalls, s, c) /\ id \in DOMAIN lcSessions
        /\ lcSessions[id].state \in Decided /\ ~ReviewedBy(lcSessions[id], p)
        /\ UNCHANGED <<lcNow, lcSessions, lcCredentials, offeredBy, fulfilled>>
    BY DEF IssueApproved, MayIssue, Decided
  <1>2. c \in OfferCall /\ c.op = "offer" /\ c.id = id /\ c.by = p
    BY DEF OfferCall
  <1> HIDE DEF c
  <1>3. LifecycleCallHolds(c, lcSessions)
    BY <1>1, <1>2, CallKinds DEF LifecycleCallHolds
  <1> QED  BY <1>1, <1>2, <1>3, CallBegins

LEMMA BulkCreateKeeps ==
    ASSUME LifecycleInv, NEW s \in Slots, NEW p \in IssuerAdmins,
           NEW rows \in BulkRequests, BulkCreate(s, p, rows)
    PROVE  LifecycleInv'
  <1> DEFINE c == [op |-> "bulk", rows |-> rows, index |-> 1]
  <1>1. /\ lcCalls' = Put(lcCalls, s, c) /\ Len(rows) \in 1..MaxBulkRows
        /\ UNCHANGED <<lcNow, lcSessions, lcCredentials, offeredBy, fulfilled>>
    BY DEF BulkCreate
  <1>2. PICK n \in 1..MaxBulkRows : rows \in [1..n -> BulkRows]
    BY DEF BulkRequests
  <1>3. rows \in Seq(BulkRows)
    BY <1>2, LifecycleAssumption
  <1>4. 1 \in 1..Len(rows)
    BY <1>1, LifecycleAssumption
  <1>5. c \in BulkCall /\ c.op = "bulk" /\ c.index = 1 /\ c.rows = rows
    BY <1>3 DEF BulkCall
  <1> HIDE DEF c
  <1>6. LifecycleCallHolds(c, lcSessions)
    BY <1>4, <1>5, CallKinds DEF LifecycleCallHolds
  <1> QED  BY <1>1, <1>5, <1>6, CallBegins

\* A session changes as Reviewed or OfferArrives change one, and the call ends.
LEMMA SessionChanges ==
    ASSUME LifecycleInv, NEW s \in DOMAIN lcCalls, NEW id \in DOMAIN lcSessions,
           NEW x \in LifecycleSession, lcSessions' = [lcSessions EXCEPT ![id] = x],
           lcCalls' = Drop(lcCalls, s), UNCHANGED <<lcNow, lcCredentials, fulfilled>>,
           x.request = lcSessions[id].request,
           lcSessions[id].state \in Decided =>
               x.state \in Decided /\ x.reviews = lcSessions[id].reviews,
           lcSessions[id].state = "offered" => x.state = "offered",
           x.state \in Decided => Cardinality(Approved(x.reviews)) >= LcApprovals,
           \/ UNCHANGED offeredBy
           \/ \E p : /\ offeredBy' = Put(offeredBy, id, p)
                     /\ x.state = "offered" /\ ~ReviewedBy(x, p)
    PROVE  LifecycleInv'
  <1>1. /\ DOMAIN lcSessions' = DOMAIN lcSessions /\ lcSessions'[id] = x
        /\ \A j \in DOMAIN lcSessions \ {id} : lcSessions'[j] = lcSessions[j]
    OBVIOUS
  <1>2. SessionsMoveOn(lcSessions, lcSessions')
    BY <1>1 DEF SessionsMoveOn
  <1>3. IsMap(lcSessions', LcSessionIds, LifecycleSession)
    BY UpdateType DEF LifecycleInv, LifecycleTypeOK
  <1>4. SessionsHold'
    BY <1>1 DEF LifecycleInv, SessionsHold
  <1>5. /\ DOMAIN lcCalls' \subseteq DOMAIN lcCalls
        /\ \A t \in DOMAIN lcCalls' : lcCalls'[t] = lcCalls[t]
    BY DEF Drop
  <1>6. /\ IsMap(lcCredentials', LcCredentials, LifecycleCredential) /\ lcNow' \in Nat
        /\ DOMAIN lcCalls' \subseteq Slots
    BY <1>5 DEF LifecycleInv, LifecycleTypeOK
  <1>7. ReportsHold(fulfilled', lcSessions')
    BY <1>2, ReportsStay DEF LifecycleInv
  <1>8. \A j \in DOMAIN offeredBy' :
            \/ j \in DOMAIN offeredBy /\ offeredBy'[j] = offeredBy[j]
            \/ /\ j \in DOMAIN lcSessions' /\ lcSessions'[j].state = "offered"
               /\ ~ReviewedBy(lcSessions'[j], offeredBy'[j])
    BY <1>1 DEF Put
  <1> QED  BY <1>2, <1>3, <1>4, <1>5, <1>6, <1>7, <1>8, SessionsMove

\* What Reviewed makes of a session: it counts a review only while it is pending.
LEMMA ReviewedIs ==
    ASSUME NEW x \in LifecycleSession, NEW review \in LifecycleReview
    PROVE  LET y == Reviewed(x, review) IN
           /\ y \in LifecycleSession /\ y.request = x.request
           /\ x.state # "pending_review" => y = x
           /\ x.state = "pending_review" /\ y.state \in Decided =>
                 Cardinality(Approved(y.reviews)) >= LcApprovals
  <1> DEFINE y == Reviewed(x, review)
             reviews == x.reviews \cup {review}
             state == CASE review.decision = "rejected" -> "rejected"
                        [] Cardinality(Approved(reviews)) >= LcApprovals -> "approved"
                        [] OTHER -> "pending_review"
             z == [x EXCEPT !.reviews = reviews, !.state = state]
  <1>1. y = x \/ (x.state = "pending_review" /\ y = z)
    BY DEF Reviewed
  <1>2. /\ state \in {"rejected", "approved", "pending_review"}
        /\ state \in Decided => Cardinality(Approved(reviews)) >= LcApprovals
    BY DEF Decided
  <1>3. reviews \in SUBSET LifecycleReview
    BY DEF LifecycleSession
  <1> HIDE DEF reviews, state
  <1>4. z \in LifecycleSession /\ z.request = x.request /\ z.reviews = reviews /\ z.state = state
    BY <1>2, <1>3 DEF LifecycleSession
  <1>5. x.state = "pending_review" => x.state \notin Decided
    BY DEF Decided
  <1>6. y.state \in Decided /\ x.state = "pending_review" =>
            Cardinality(Approved(y.reviews)) >= LcApprovals
    <2> HIDE DEF y, z
    <2> QED  BY <1>1, <1>2, <1>4, <1>5
  <1>7. y \in LifecycleSession /\ y.request = x.request /\ (x.state # "pending_review" => y = x)
    <2> HIDE DEF y, z
    <2> QED  BY <1>1, <1>4
  <1> QED  BY <1>6, <1>7

LEMMA ReviewArrivesKeeps ==
    ASSUME LifecycleInv, NEW s, ReviewArrives(s)
    PROVE  LifecycleInv'
  <1> DEFINE c == lcCalls[s]
             review == [reviewerId |-> c.by.principalId, decision |-> c.decision]
             x == lcSessions[c.id]
             y == Reviewed(x, review)
  <1>1. /\ s \in DOMAIN lcCalls /\ c.op = "review"
        /\ lcSessions' = [lcSessions EXCEPT ![c.id] = y] /\ lcCalls' = Drop(lcCalls, s)
        /\ UNCHANGED <<lcNow, lcCredentials, offeredBy, fulfilled>>
    BY DEF ReviewArrives
  <1>2. c \in ReviewCall /\ c.id \in DOMAIN lcSessions
    BY <1>1, CallKinds DEF LifecycleInv, CallsHold, LifecycleCallHolds
  <1>3. review \in LifecycleReview
    BY <1>2 DEF ReviewCall, LifecycleReview
  <1>4. /\ x \in LifecycleSession
        /\ x.state \in Decided => Cardinality(Approved(x.reviews)) >= LcApprovals
    BY <1>2 DEF LifecycleInv, LifecycleTypeOK, SessionsHold, IsMap
  <1> HIDE DEF c, review, x
  <1>5. /\ y \in LifecycleSession /\ y.request = x.request
        /\ x.state # "pending_review" => y = x
        /\ x.state = "pending_review" /\ y.state \in Decided =>
              Cardinality(Approved(y.reviews)) >= LcApprovals
    BY <1>3, <1>4, ReviewedIs
  <1> HIDE DEF y
  <1>6. /\ x.state \in Decided => y.state \in Decided /\ y.reviews = x.reviews
        /\ x.state = "offered" => y.state = "offered"
        /\ y.state \in Decided => Cardinality(Approved(y.reviews)) >= LcApprovals
    BY <1>4, <1>5 DEF Decided
  <1> QED  BY <1>1, <1>2, <1>5, <1>6, SessionChanges DEF x

\* A call ends and the service has done nothing.
LEMMA CallEnds ==
    ASSUME LifecycleInv, NEW s, lcCalls' = Drop(lcCalls, s),
           UNCHANGED <<lcNow, lcSessions, lcCredentials, offeredBy, fulfilled>>
    PROVE  LifecycleInv'
  <1>1. /\ DOMAIN lcCalls' \subseteq DOMAIN lcCalls
        /\ \A t \in DOMAIN lcCalls' : lcCalls'[t] = lcCalls[t]
    BY DEF Drop
  <1>2. /\ IsMap(lcCredentials', LcCredentials, LifecycleCredential) /\ lcNow' \in Nat
        /\ DOMAIN lcCalls' \subseteq Slots
    BY <1>1 DEF LifecycleInv, LifecycleTypeOK
  <1> QED  BY <1>1, <1>2, CallsMove

\* The session is offered to whom it was approved by others: between the check of
\* the controller and the answer of the service no review could be added.
LEMMA OfferArrivesKeeps ==
    ASSUME LifecycleInv, NEW s, OfferArrives(s)
    PROVE  LifecycleInv'
  <1> DEFINE c == lcCalls[s]
             x == lcSessions[c.id]
             y == [x EXCEPT !.state = "offered"]
  <1>1. /\ s \in DOMAIN lcCalls /\ c.op = "offer" /\ lcCalls' = Drop(lcCalls, s)
        /\ IF Offerable(x)
           THEN /\ lcSessions' = [lcSessions EXCEPT ![c.id] = y]
                /\ offeredBy' = Put(offeredBy, c.id, c.by)
           ELSE UNCHANGED <<lcSessions, offeredBy>>
        /\ UNCHANGED <<lcNow, lcCredentials, fulfilled>>
    BY DEF OfferArrives
  <1>2. c \in OfferCall /\ c.id \in DOMAIN lcSessions /\ ~ReviewedBy(x, c.by)
    BY <1>1, CallKinds DEF LifecycleInv, CallsHold, LifecycleCallHolds
  <1>3. CASE ~Offerable(x)
    <2> HIDE DEF c, x, y
    <2> QED  BY <1>1, <1>3, CallEnds
  <1>4. CASE Offerable(x)
    <2>1. /\ x \in LifecycleSession /\ x.state = "approved"
          /\ Cardinality(Approved(x.reviews)) >= LcApprovals
      BY <1>2, <1>4 DEF Offerable, LifecycleInv, LifecycleTypeOK, SessionsHold, IsMap, Decided
    <2> HIDE DEF x, c
    <2>2. /\ y \in LifecycleSession /\ y.state = "offered" /\ y.reviews = x.reviews
          /\ y.request = x.request
      BY <2>1 DEF LifecycleSession
    <2> HIDE DEF y
    <2>3. ~ReviewedBy(y, c.by) /\ y.state \in Decided
      BY <1>2, <2>2 DEF ReviewedBy, Decided
    <2> QED  BY <1>1, <1>2, <1>4, <2>1, <2>2, <2>3, SessionChanges DEF x
  <1> QED  BY <1>3, <1>4

\* A new session: pending, with its request.
LEMMA NewSessionIs ==
    ASSUME LifecycleInv, NEW request \in LcRequests
    PROVE  /\ NewSession(request) \in LifecycleSession
           /\ NewSession(request).request = request
           /\ NewSession(request).state \notin Decided
  BY LifecycleAssumption DEF LifecycleInv, NewSession, LifecycleSession, Decided

\* A session is added: nobody knew its id.
LEMMA SessionAdded ==
    ASSUME LifecycleInv, NEW id \in LcSessionIds \ DOMAIN lcSessions, NEW request \in LcRequests,
           lcSessions' = Put(lcSessions, id, NewSession(request))
    PROVE  /\ IsMap(lcSessions', LcSessionIds, LifecycleSession) /\ SessionsHold'
           /\ SessionsMoveOn(lcSessions, lcSessions')
           /\ id \in DOMAIN lcSessions' /\ lcSessions'[id].request = request
  <1> DEFINE x == NewSession(request)
  <1>1. x \in LifecycleSession /\ x.request = request /\ x.state \notin Decided
    BY NewSessionIs
  <1> HIDE DEF x
  <1>2. lcSessions' = Put(lcSessions, id, x)
    BY DEF x
  <1>3. /\ DOMAIN lcSessions' = DOMAIN lcSessions \cup {id} /\ lcSessions'[id] = x
        /\ \A j \in DOMAIN lcSessions : lcSessions'[j] = lcSessions[j]
    BY <1>2 DEF Put
  <1>4. IsMap(lcSessions', LcSessionIds, LifecycleSession)
    BY <1>1, <1>2, PutType DEF LifecycleInv, LifecycleTypeOK
  <1>5. SessionsHold'
    BY <1>1, <1>3 DEF LifecycleInv, SessionsHold
  <1>6. SessionsMoveOn(lcSessions, lcSessions')
    BY <1>3 DEF SessionsMoveOn
  <1> QED  BY <1>1, <1>3, <1>4, <1>5, <1>6

LEMMA ReissueKeeps ==
    ASSUME LifecycleInv, NEW p, NEW c, NEW confirmation, NEW id \in LcSessionIds,
           NEW request \in LcRequests, Reissue(p, c, confirmation, id, request)
    PROVE  LifecycleInv'
  <1>1. /\ id \notin DOMAIN lcSessions /\ lcSessions' = Put(lcSessions, id, NewSession(request))
        /\ UNCHANGED <<lcNow, lcCredentials, lcCalls, offeredBy, fulfilled>>
    BY DEF Reissue, Taken
  <1>2. /\ IsMap(lcSessions', LcSessionIds, LifecycleSession) /\ SessionsHold'
        /\ SessionsMoveOn(lcSessions, lcSessions')
    BY <1>1, SessionAdded
  <1>3. ReportsHold(fulfilled', lcSessions')
    BY <1>1, <1>2, ReportsStay DEF LifecycleInv
  <1>4. /\ IsMap(lcCredentials', LcCredentials, LifecycleCredential) /\ lcNow' \in Nat
        /\ DOMAIN lcCalls' \subseteq Slots
    BY <1>1 DEF LifecycleInv, LifecycleTypeOK
  <1> QED  BY <1>1, <1>2, <1>3, <1>4, SessionsMove

\* The call goes to its next row, or ends after its last.
BulkGoesOn(s, calls, next) ==
    next = IF calls[s].index = Len(calls[s].rows) THEN Drop(calls, s)
           ELSE [calls EXCEPT ![s].index = @ + 1]

LEMMA BulkGoesOnKeeps ==
    ASSUME LifecycleInv, NEW s \in DOMAIN lcCalls, lcCalls[s].op = "bulk",
           BulkGoesOn(s, lcCalls, lcCalls'), NEW all
    PROVE  /\ DOMAIN lcCalls' \subseteq Slots
           /\ \A t \in DOMAIN lcCalls' :
                 \/ t \in DOMAIN lcCalls /\ lcCalls'[t] = lcCalls[t]
                 \/ /\ lcCalls'[t] \in ReviewCall \cup OfferCall \cup BulkCall
                    /\ LifecycleCallHolds(lcCalls'[t], all)
  <1> DEFINE c == lcCalls[s]
             d == [c EXCEPT !.index = c.index + 1]
  <1>1. c \in BulkCall /\ c.index \in 1..Len(c.rows)
    BY CallKinds DEF LifecycleInv, CallsHold, LifecycleCallHolds
  <1>2. \/ lcCalls' = Drop(lcCalls, s)
        \/ c.index # Len(c.rows) /\ lcCalls' = [lcCalls EXCEPT ![s] = d]
    BY DEF BulkGoesOn
  <1> HIDE DEF c
  <1>3. CASE lcCalls' = Drop(lcCalls, s)
    BY <1>3 DEF Drop, LifecycleInv, LifecycleTypeOK
  <1>4. CASE c.index # Len(c.rows) /\ lcCalls' = [lcCalls EXCEPT ![s] = d]
    <2>1. c.rows \in Seq(BulkRows) /\ c.index \in Nat /\ Len(c.rows) \in Nat
      BY <1>1 DEF BulkCall
    <2>2. c.index + 1 \in 1..Len(c.rows)
      BY <1>1, <1>4, <2>1
    <2>3. d \in BulkCall /\ d.op = "bulk" /\ d.rows = c.rows /\ d.index = c.index + 1
      BY <1>1, <2>1 DEF BulkCall
    <2> HIDE DEF d
    <2>4. LifecycleCallHolds(d, all)
      BY <2>2, <2>3, CallKinds DEF LifecycleCallHolds
    <2>5. /\ DOMAIN lcCalls' = DOMAIN lcCalls /\ lcCalls'[s] = d
          /\ \A t \in DOMAIN lcCalls \ {s} : lcCalls'[t] = lcCalls[t]
      BY <1>4
    <2> QED  BY <2>3, <2>4, <2>5 DEF LifecycleInv, LifecycleTypeOK
  <1> QED  BY <1>2, <1>3, <1>4

LEMMA BulkRowFailsKeeps ==
    ASSUME LifecycleInv, NEW s, BulkRowFails(s)
    PROVE  LifecycleInv'
  <1>1. /\ s \in DOMAIN lcCalls /\ lcCalls[s].op = "bulk" /\ BulkGoesOn(s, lcCalls, lcCalls')
        /\ UNCHANGED <<lcNow, lcSessions, lcCredentials, offeredBy, fulfilled>>
    BY DEF BulkRowFails, BulkGoesOn
  <1>2. /\ DOMAIN lcCalls' \subseteq Slots
        /\ \A t \in DOMAIN lcCalls' :
              \/ t \in DOMAIN lcCalls /\ lcCalls'[t] = lcCalls[t]
              \/ /\ lcCalls'[t] \in ReviewCall \cup OfferCall \cup BulkCall
                 /\ LifecycleCallHolds(lcCalls'[t], lcSessions)
    BY <1>1, BulkGoesOnKeeps
  <1>3. IsMap(lcCredentials', LcCredentials, LifecycleCredential) /\ lcNow' \in Nat
    BY <1>1 DEF LifecycleInv, LifecycleTypeOK
  <1> QED  BY <1>1, <1>2, <1>3, CallsMove

\* The row at hand makes its session, and is then its first report, or is refused.
LEMMA BulkRowKeeps ==
    ASSUME LifecycleInv, NEW s, NEW answered, BulkRow(s, answered)
    PROVE  LifecycleInv'
  <1> DEFINE c == lcCalls[s]
             row == c.rows[c.index]
             made == ~Taken(row.session)
             report == [request |-> row.request, times |-> TimesFulfilled(row.session) + 1]
  <1>1. /\ s \in DOMAIN lcCalls /\ c.op = "bulk"
        /\ lcSessions' = IF made THEN Put(lcSessions, row.session, NewSession(row.request))
                         ELSE lcSessions
        /\ fulfilled' = IF made /\ answered THEN Put(fulfilled, row.session, report) ELSE fulfilled
        /\ BulkGoesOn(s, lcCalls, lcCalls')
        /\ UNCHANGED <<lcNow, lcCredentials, offeredBy>>
    BY DEF BulkRow, BulkGoesOn
  <1>2. c \in BulkCall /\ c.index \in 1..Len(c.rows)
    BY <1>1, CallKinds DEF LifecycleInv, CallsHold, LifecycleCallHolds
  <1>3. row.session \in LcSessionIds /\ row.request \in LcRequests
    <2>1. c.rows \in Seq(BulkRows)
      BY <1>2 DEF BulkCall
    <2>2. row \in BulkRows
      <3> DEFINE rows == c.rows
                 index == c.index
      <3>1. rows \in Seq(BulkRows) /\ index \in 1..Len(rows)
        BY <1>2, <2>1
      <3> HIDE DEF rows, index
      <3>2. rows[index] \in BulkRows
        BY <3>1
      <3> QED  BY <3>2 DEF rows, index
    <2> QED  BY <2>2 DEF BulkRows
  <1>4. made <=> row.session \notin DOMAIN lcSessions
    BY DEF Taken
  <1>5. report.request = row.request /\ report.times = TimesFulfilled(row.session) + 1
    OBVIOUS
  <1> HIDE DEF c, row, made, report
  <1>6. /\ IsMap(lcSessions', LcSessionIds, LifecycleSession) /\ SessionsHold'
        /\ SessionsMoveOn(lcSessions, lcSessions')
        /\ made => row.session \in DOMAIN lcSessions'
                   /\ lcSessions'[row.session].request = row.request
    <2>1. CASE ~made
      BY <1>1, <2>1, SessionsUnmoved DEF LifecycleInv, LifecycleTypeOK, SessionsHold
    <2>2. CASE made
      BY <1>1, <1>3, <1>4, <2>2, SessionAdded
    <2> QED  BY <2>1, <2>2
  <1>7. ReportsHold(fulfilled, lcSessions')
    BY <1>6, ReportsStay DEF LifecycleInv
  <1>8. ReportsHold(fulfilled', lcSessions')
    <2>1. CASE made /\ answered
      <3>1. row.session \notin DOMAIN fulfilled
        BY <1>4, <2>1 DEF LifecycleInv, ReportsHold
      <3>2. report.times = 1
        BY <1>5, <3>1 DEF TimesFulfilled
      <3>3. /\ DOMAIN fulfilled' = DOMAIN fulfilled \cup {row.session}
            /\ fulfilled'[row.session] = report
            /\ \A id \in DOMAIN fulfilled : fulfilled'[id] = fulfilled[id]
        BY <1>1, <2>1, <3>1 DEF Put
      <3> QED  BY <1>5, <1>6, <1>7, <2>1, <3>2, <3>3 DEF ReportsHold
    <2> QED  BY <1>1, <1>7, <2>1
  <1>9. /\ DOMAIN lcCalls' \subseteq Slots
        /\ \A t \in DOMAIN lcCalls' :
              \/ t \in DOMAIN lcCalls /\ lcCalls'[t] = lcCalls[t]
              \/ /\ lcCalls'[t] \in ReviewCall \cup OfferCall \cup BulkCall
                 /\ LifecycleCallHolds(lcCalls'[t], lcSessions')
    BY <1>1, BulkGoesOnKeeps DEF c
  <1>10. IsMap(lcCredentials', LcCredentials, LifecycleCredential) /\ lcNow' \in Nat
    BY <1>1 DEF LifecycleInv, LifecycleTypeOK
  <1> QED  BY <1>1, <1>6, <1>8, <1>9, <1>10, SessionsMove

\* Time, and the status of credentials.
LEMMA LifecycleRestKeeps ==
    ASSUME LifecycleInv,
           \/ LifecycleTick \/ UNCHANGED lcVars
           \/ \E p \in IssuerAdmins, c \in LcCredentials, confirmation \in DangerousConfirmation :
                 Suspend(p, c, confirmation) \/ Revoke(p, c, confirmation)
    PROVE  LifecycleInv'
  <1>1. UNCHANGED <<lcSessions, lcCalls, offeredBy, fulfilled>>
    BY DEF LifecycleTick, lcVars, Suspend, Revoke
  <1>2. lcNow' \in Nat
    BY DEF LifecycleInv, LifecycleTick, lcVars, Suspend, Revoke
  <1>3. \/ UNCHANGED lcCredentials
        \/ \E c : \E status \in LifecycleCredential :
              lcCredentials' = [lcCredentials EXCEPT ![c] = status]
    BY DEF LifecycleTick, lcVars, Suspend, Revoke, LifecycleCredential
  <1>4. IsMap(lcCredentials', LcCredentials, LifecycleCredential)
    BY <1>3, UpdateType DEF LifecycleInv, LifecycleTypeOK
  <1>5. DOMAIN lcCalls' \subseteq Slots
    BY <1>1 DEF LifecycleInv, LifecycleTypeOK
  <1> QED  BY <1>1, <1>2, <1>4, <1>5, CallsMove

LEMMA LifecycleStep ==
    ASSUME LifecycleInv, [DecisionNext \/ BulkNext]_lcVars
    PROVE  LifecycleInv'
  <1>1. CASE DecisionNext
    BY <1>1, StartReviewKeeps, IssueApprovedKeeps, ReviewArrivesKeeps, OfferArrivesKeeps,
       ReissueKeeps, LifecycleRestKeeps DEF DecisionNext, ReissueNext
  <1>2. CASE BulkNext
    BY <1>2, BulkCreateKeeps, BulkRowKeeps, BulkRowFailsKeeps DEF BulkNext
  <1>3. CASE UNCHANGED lcVars
    BY <1>3, LifecycleRestKeeps
  <1> QED  BY <1>1, <1>2, <1>3

LEMMA LifecycleInvariant == LifecycleSpec => []LifecycleInv
  BY LifecycleStarts, LifecycleStep, PTL DEF LifecycleSpec

\* Sessions are reported to one row of the bulk calls each, whose request they hold:
\* the service refuses an id it has, so the row that made a session is the only one
\* that can be told of it.
THEOREM BulkRowsKept == LifecycleSpec => []BulkRowsAreSessions
  <1>1. LifecycleInv => BulkRowsAreSessions
    BY DEF LifecycleInv, ReportsHold, BulkRowsAreSessions
  <1> QED  BY <1>1, LifecycleInvariant, PTL
-----------------------------------------------------------------------------
(* The properties of Access.                                               *)

LEMMA LoginsHold == PasskeyInv /\ OidcInv /\ VpInv => LoginsAreOneTime
  BY DEF PasskeyInv, OidcInv, VpInv, LoginsAreOneTime

\* A challenge of a passkey ceremony, a state of a login at a provider and a state
\* of a presentation serve one caller, for what they were made for: each is taken
\* out of its store before the first await, and what is under way remembers it.
THEOREM OneTimeLogins == PasskeySpec /\ OidcSpec /\ WebSpec => []LoginsAreOneTime
  BY LoginsHold, PasskeyInvariant, OidcInvariant, WebInvariant, PTL

\* Every token on its way, being verified or granted was sent by a wallet for what
\* its user approved.
TokensInv ==
    /\ \A t \in vpTokens : \E d \in webDisclosed : CreateVpToken(d.review.request) = t
    /\ \A s \in DOMAIN vpCalls : vpCalls[s].token \in vpTokens
    /\ \A x \in DOMAIN vpGranted : vpGranted[x].token \in vpTokens

\* Tokens and disclosures are added to, never taken back.
LEMMA TokensKept ==
    ASSUME TokensInv, UNCHANGED <<vpCalls, vpGranted>>,
           vpTokens \subseteq vpTokens', webDisclosed \subseteq webDisclosed',
           \A t \in vpTokens' \ vpTokens :
              \E d \in webDisclosed' : CreateVpToken(d.review.request) = t
    PROVE  TokensInv'
  <1>1. \A t \in vpTokens' : \E d \in webDisclosed' : CreateVpToken(d.review.request) = t
    BY DEF TokensInv
  <1> QED  BY <1>1 DEF TokensInv

\* Offers send no token to a verifier.
LEMMA OffersDisclose ==
    ASSUME OffersNext
    PROVE  UNCHANGED webDisclosed
  <1>1. ASSUME NEW s \in Slots,
               \/ \E proof \in BOOLEAN : AcceptOffer(s, proof)
               \/ IssuanceStep(s)
               \/ \E id \in WebNewIds, proof \in BOOLEAN : StoreCredential(s, id, proof)
        PROVE  UNCHANGED webDisclosed
    BY <1>1 DEF AcceptOffer, IssuanceStep, StoreCredential, WhenIssued, webVars
  <1> QED  BY <1>1 DEF OffersNext, UserNext, webVars

\* The wallet's side of presentations: SendToken sends what it discloses.
LEMMA PresentationsSend ==
    ASSUME TokensInv, PresentationsNext(Slots, Reviewable)
    PROVE  TokensInv'
  <1>1. UNCHANGED <<vpCalls, vpGranted>>
    BY DEF PresentationsNext, vpVars
  <1>2. CASE UNCHANGED <<vpTokens, webDisclosed>>
    BY <1>1, <1>2, TokensKept
  <1>3. ASSUME NEW s \in Slots, SendToken(s)
        PROVE  TokensInv'
    <2> DEFINE d == [review |-> ReviewOf(s), credential |-> webCalls[s].credential]
    <2>1. /\ vpTokens' = vpTokens \cup {CreateVpToken(d.review.request)}
          /\ webDisclosed' = webDisclosed \cup {d}
      BY <1>3 DEF SendToken
    <2> HIDE DEF d
    <2> QED  BY <1>1, <2>1, TokensKept
  <1>4. ASSUME NEW s \in Slots,
               \/ \E r \in Reviewable, query \in WebIds : ReviewReady(s, r, query)
               \/ ReviewPresentation(s) \/ ReviewFails(s)
               \/ SubmitPresentation(s) \/ OpenCredential(s)
               \/ \E accepted \in BOOLEAN : PresentationEnds(s, accepted)
        PROVE  UNCHANGED webDisclosed
    BY <1>4 DEF ReviewReady, ReviewPresentation, ReviewFails, SubmitPresentation,
       OpenCredential, PresentationEnds
  <1>5. CancelPresentation \/ (\E id \in WebIds : DeleteFromVault(id))
           => UNCHANGED webDisclosed
    BY DEF CancelPresentation, DeleteFromVault
  <1>6. \/ UNCHANGED <<vpTokens, webDisclosed>>
        \/ \E s \in Slots : SendToken(s)
    BY <1>4, <1>5 DEF PresentationsNext, vpVars
  <1> QED  BY <1>2, <1>3, <1>6

\* The verifier takes tokens that were sent, and grants for what it took.
LEMMA VerifierTakes ==
    ASSUME TokensInv, VerifierNext, UNCHANGED webDisclosed
    PROVE  TokensInv'
  <1>1. CASE UNCHANGED <<vpCalls, vpGranted, vpTokens>>
    BY <1>1, TokensKept
  <1>2. ASSUME NEW s \in Slots, NEW state \in VpStates, NEW token \in vpTokens,
               DirectPost(s, state, token)
        PROVE  TokensInv'
    <2> DEFINE c == [state |-> state, token |-> token]
    <2>1. c.token = token
      OBVIOUS
    <2>2. vpCalls' = Put(vpCalls, s, c) /\ UNCHANGED <<vpTokens, vpGranted>>
      BY <1>2 DEF DirectPost
    <2> HIDE DEF c
    <2> QED  BY <2>1, <2>2 DEF TokensInv, Put
  <1>3. ASSUME NEW s \in Slots, NEW session, NEW sound, VpTokenVerified(s, session, sound)
        PROVE  TokensInv'
    <2> DEFINE g == [state |-> vpCalls[s].state, token |-> vpCalls[s].token]
    <2>1. /\ s \in DOMAIN vpCalls /\ vpCalls' = Drop(vpCalls, s) /\ UNCHANGED vpTokens
          /\ vpGranted' = Put(vpGranted, session, g) \/ UNCHANGED vpGranted
      BY <1>3 DEF VpTokenVerified
    <2>2. g.token \in vpTokens
      BY <2>1 DEF TokensInv
    <2> HIDE DEF g
    <2>3. \A t \in DOMAIN vpCalls' : vpCalls'[t].token \in vpTokens'
      BY <2>1 DEF TokensInv, Drop
    <2>4. \A x \in DOMAIN vpGranted' : vpGranted'[x].token \in vpTokens'
      BY <2>1, <2>2 DEF TokensInv, Put
    <2> QED  BY <2>1, <2>3, <2>4 DEF TokensInv
  <1> QED  BY <1>1, <1>2, <1>3 DEF VerifierNext, CreateRequest, ReadSession

\* Wallet and verifier together give access only for what was approved.
LEMMA TokensInvariant == WebSpec => []TokensInv
  <1> DEFINE Next == \/ OffersNext /\ UNCHANGED vpVars
                     \/ PresentationsNext(Slots, Reviewable) /\ UNCHANGED vciVars
                     \/ VerifierNext /\ UNCHANGED <<vciVars, webVars>>
  <1>1. VpInit => TokensInv
    BY DEF VpInit, TokensInv, EmptyMap
  <1>2. ASSUME TokensInv, UNCHANGED <<vpVars, webDisclosed>>
        PROVE  TokensInv'
    BY <1>2, TokensKept DEF vpVars
  <1>3. TokensInv /\ [Next]_<<vciVars, vpVars, webVars>> => TokensInv'
    BY <1>2, OffersDisclose, PresentationsSend, VerifierTakes DEF webVars
  <1> QED  BY <1>1, <1>3, PTL DEF WebSpec

LEMMA NothingAstrayHolds == VciInv /\ VpInv /\ WebInv /\ TokensInv => NothingGoesAstray
  <1>1. WebInv => DisclosuresAreApproved
    BY DEF WebInv, ApprovalHolds, ReviewHolds, DisclosuresAreApproved
  <1>2. VpInv /\ TokensInv => AccessWasApproved
    <2> SUFFICES ASSUME VpInv, TokensInv, NEW x \in DOMAIN vpGranted
                 PROVE  \E d \in webDisclosed :
                           /\ CreateVpToken(d.review.request) = vpGranted[x].token
                           /\ d.review.request.clientId = VpVerifier
                           /\ d.review.request.state = vpGranted[x].state
      BY DEF AccessWasApproved
    <2>1. PICK d \in webDisclosed : CreateVpToken(d.review.request) = vpGranted[x].token
      BY DEF TokensInv
    <2>2. /\ vpGranted[x].token.audience = VpVerifier
          /\ vpGranted[x].token.nonce = vpGranted[x].state
      BY DEF VpInv, AccessIsOneTime
    <2>3. /\ CreateVpToken(d.review.request).audience = d.review.request.clientId
          /\ CreateVpToken(d.review.request).nonce = d.review.request.state
      BY DEF CreateVpToken
    <2> QED  BY <2>1, <2>2, <2>3
  <1> QED  BY <1>1, <1>2 DEF VciInv, NothingGoesAstray

\* Codes and tokens reach no issuer but the one of the offer, every presentation
\* sent was approved for its verifier and its request, although the wallet may be
\* locked and take up other requests while it waits, and the verifier gives access
\* for nothing else.
THEOREM NothingAstray == WebSpec => []NothingGoesAstray
  BY NothingAstrayHolds, WebInvariant, TokensInvariant, PTL

LEMMA DutiesHold == AdminInv /\ LifecycleInv => DutiesAreSeparated
  <1>1. LifecycleInv => ReviewersDoNotIssue
    BY DEF LifecycleInv, OffersHold, SessionsHold, Decided, ReviewersDoNotIssue
  <1> QED  BY <1>1 DEF AdminInv, DutiesAreSeparated

\* A published template is what a reviewer of its tenant approved, and nobody has
\* a session offered that they reviewed: a session that has its approvals takes no
\* further review, so what issueApproved checked still holds when the offer arrives.
THEOREM SeparateDuties == AdminSpec /\ LifecycleSpec => []DutiesAreSeparated
  BY DutiesHold, AdminInvariant, LifecycleInvariant, PTL
=============================================================================
