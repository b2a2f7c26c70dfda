------------------------ MODULE VerifierServiceProofs ------------------------
(***************************************************************************)
(* Proofs about VerifierService and the registry cache it asks, for every  *)
(* number of sessions, responses, snapshots and concurrent calls.          *)
(***************************************************************************)
EXTENDS VerifierService, JsMapTheorems, FiniteSetTheorems

USE RegistryAssumption, VerifierAssumption
-----------------------------------------------------------------------------
(* The inductive invariant.                                                *)

\* What a verified answer stands for, when pub is what was published.
Cleared(pub, a) ==
    a.decision = "verified" =>
        /\ a.snapshot \in pub
        /\ a.snapshot.issuedAt <= a.at /\ a.at < a.snapshot.expiresAt
        /\ Clean(a.snapshot.content, a.issuedAt)

\* s is not older than t.
AtLeast(s, t) == s = t \/ s.sequence > t.sequence

NotOlder(a) ==
    (a.snapshot # None /\ a.stored # None) => AtLeast(a.snapshot, a.stored)

\* The cache holds, and lookups bring, only published snapshots; the entry is
\* at least as new as when any parked call was made.
CacheInv ==
    /\ entry # None => entry \in published
    /\ \A c \in DOMAIN lookups :
          /\ lookups[c].pc = "verify" => lookups[c].value \in published
          /\ lookups[c].stored # None =>
                entry # None /\ AtLeast(entry, lookups[c].stored)
    /\ \A c \in DOMAIN answers :
          Cleared(published, answers[c]) /\ NotOlder(answers[c])

\* The presentation passed the checks at the time x (a lookup or an answer)
\* was asked for, and x is about it.
InForce(p, x) ==
    x.issuedAt = p.issuedAt /\ p.issuedAt <= x.at /\ x.at < p.expiresAt

\* A response or receipt with an answer has a presentation that earned it.
Earned(pub, r) ==
    /\ r.answer # None =>
          /\ r.presentation # None
          /\ r.presentation.nonce = r.session /\ r.presentation.fault = "none"
          /\ InForce(r.presentation, r.answer)
          /\ Cleared(pub, r.answer) /\ NotOlder(r.answer)
    /\ r.result = "verified" =>
          r.answer # None /\ r.answer.decision = "verified" /\ r.presentation.exact

\* What a parked response has passed when it is at its await.
ResponseInv ==
    \A c \in DOMAIN responses :
        LET r == responses[c]
        IN  /\ Earned(published, r)
            /\ r.pc # "finish" => r.presentation # None /\ r.answer = None
                                    /\ r.result = "rejected"
            /\ r.pc \in {"formats", "registry"} => r.presentation.nonce = r.session
            /\ r.pc = "registry" =>
                  /\ r.presentation.fault = "none"
                  /\ c \in DOMAIN lookups => InForce(r.presentation, lookups[c])
                  /\ c \in DOMAIN answers => InForce(r.presentation, answers[c])

ReceiptInv ==
    /\ \A rid \in DOMAIN receipts : Earned(published, receipts[rid])
    /\ \A s \in DOMAIN sessions : sessions[s].receipt # None =>
          /\ sessions[s].receipt \in DOMAIN receipts
          /\ receipts[sessions[s].receipt].session = s

\* r looked at the presentation that consumed its session.
Holds(r) == r.presentation # None

\* A session whose presentation was looked at is consumed, and by one
\* response or receipt only.
ConsumedOnce ==
    /\ \A c \in DOMAIN responses :
          /\ responses[c].session \in DOMAIN sessions
          /\ Holds(responses[c]) =>
                sessions[responses[c].session].status = "consumed"
    /\ \A rid \in DOMAIN receipts :
          /\ receipts[rid].session \in DOMAIN sessions
          /\ Holds(receipts[rid]) =>
                sessions[receipts[rid].session].status = "consumed"
    /\ \A c, d \in DOMAIN responses :
          (Holds(responses[c]) /\ Holds(responses[d])
              /\ responses[c].session = responses[d].session) => c = d
    /\ \A x, y \in DOMAIN receipts :
          (Holds(receipts[x]) /\ Holds(receipts[y])
              /\ receipts[x].session = receipts[y].session) => x = y
    /\ \A c \in DOMAIN responses, x \in DOMAIN receipts :
          ~(Holds(responses[c]) /\ Holds(receipts[x])
              /\ responses[c].session = receipts[x].session)

IInv == TypeOK /\ CacheInv /\ ResponseInv /\ ReceiptInv /\ ConsumedOnce
-----------------------------------------------------------------------------
(* Type correctness of the registry cache.                                 *)

\* The registry's clock counts whole seconds.
LEMMA ClockTyped ==
    ASSUME RegistryTypeOK
    PROVE  Clock \in Nat
  BY DEF RegistryTypeOK, Clock

\* What a snapshot says is one of the three decisions.
LEMMA DecisionTyped ==
    ASSUME NEW s \in Snapshot, NEW at \in Nat, NEW issuedAt \in Nat
    PROVE  EvaluateCredential(s, at, issuedAt) \in Decisions
  <1>1. s.content \in Content
    BY DEF Snapshot
  <1>2. /\ s.content.issuer \in Standings /\ s.content.schema \in Standings
        /\ s.content.status \in {"valid", "suspended", "revoked", "unknown"}
    BY <1>1 DEF Content
  <1>3. \A x \in Standings \cup {"valid"} : Standing(x) \in Decisions
    BY DEF Standing, Standings, Decisions
  <1>4. /\ Standing(s.content.issuer) \in Decisions
        /\ Standing(s.content.schema) \in Decisions
        /\ Standing(s.content.status) \in Decisions
    BY <1>2, <1>3 DEF Standings
  <1>5. KeyDecision(s.content.key, issuedAt) \in Decisions
    BY DEF KeyDecision, Decisions
  <1>6. Freshness(s, at) \in Decisions
    BY DEF Freshness, Decisions
  <1> QED  BY <1>4, <1>5, <1>6 DEF EvaluateCredential,
              EvaluateTrustSnapshot, EvaluateStatusSnapshot, Then

\* A call parked by the cache is typed.
LEMMA ParkTyped ==
    ASSUME RegistryTypeOK, NEW c \in Callers \cup Maintainers,
           NEW kind \in {"credential", "refresh", "prime"},
           NEW pc \in {"load", "verify"}, NEW issuedAt \in Nat,
           NEW value \in Snapshot \cup {None}, Park(c, kind, pc, issuedAt, value)
    PROVE  IsMap(lookups', Callers \cup Maintainers, Lookup)
  <1> DEFINE l == [kind |-> kind, pc |-> pc, at |-> Clock, issuedAt |-> issuedAt,
                   value |-> value, stored |-> entry]
  <1>1. l \in Lookup
    BY ClockTyped DEF Lookup, RegistryTypeOK
  <1> QED  BY <1>1, PutType DEF Park, RegistryTypeOK

\* A reply of the cache is typed.
LEMMA ReplyTyped ==
    ASSUME RegistryTypeOK, NEW c \in Callers \cup Maintainers,
           NEW decision \in Decisions,
           NEW s \in Snapshot \cup {None}, NEW at \in Nat, NEW issuedAt \in Nat,
           NEW stored \in Snapshot \cup {None},
           Reply(c, decision, s, at, issuedAt, stored)
    PROVE  IsMap(answers', Callers \cup Maintainers, Answer)
  <1> DEFINE a == [decision |-> decision, snapshot |-> s, at |-> at,
                   issuedAt |-> issuedAt, stored |-> stored]
  <1>1. a \in Answer
    BY DEF Answer
  <1> QED  BY <1>1, PutType DEF Reply, RegistryTypeOK

\* The fields of a parked call.
LEMMA LookupFields ==
    ASSUME RegistryTypeOK, NEW c \in DOMAIN lookups
    PROVE  /\ c \in Callers \cup Maintainers
           /\ lookups[c] \in Lookup
           /\ lookups[c].at \in Nat /\ lookups[c].issuedAt \in Nat
           /\ lookups[c].value \in Snapshot \cup {None}
           /\ lookups[c].stored \in Snapshot \cup {None}
  BY DEF RegistryTypeOK, IsMap, Lookup

\* A call that ends leaves the cache's maps typed.
LEMMA EndLookupTyped ==
    ASSUME RegistryTypeOK, NEW c \in DOMAIN lookups, NEW decision \in Decisions,
           NEW s \in Snapshot \cup {None}, EndLookup(c, decision, s)
    PROVE  /\ IsMap(lookups', Callers \cup Maintainers, Lookup)
           /\ IsMap(answers', Callers \cup Maintainers, Answer)
  <1>1. IsMap(lookups', Callers \cup Maintainers, Lookup)
    BY DropType DEF EndLookup, RegistryTypeOK
  <1>2. CASE lookups[c].kind = "credential"
    BY <1>1, <1>2, LookupFields, ReplyTyped DEF EndLookup
  <1>3. CASE lookups[c].kind # "credential"
    BY <1>1, <1>3 DEF EndLookup, RegistryTypeOK
  <1> QED  BY <1>2, <1>3

\* evaluateCredential keeps the cache typed.
LEMMA AskTyped ==
    ASSUME RegistryTypeOK, NEW c \in Callers, NEW issuedAt \in Nat,
           AskCredential(c, issuedAt)
    PROVE  RegistryTypeOK'
  <1>1. CASE entry # None /\ Fresh(entry, Clock)
    <2>1. entry \in Snapshot
      BY <1>1 DEF RegistryTypeOK
    <2>2. IsMap(answers', Callers \cup Maintainers, Answer)
      BY <1>1, <2>1, ClockTyped, DecisionTyped, ReplyTyped DEF AskCredential
    <2> QED  BY <1>1, <2>2 DEF AskCredential, RegistryTypeOK
  <1>2. CASE ~(entry # None /\ Fresh(entry, Clock))
    <2>1. IsMap(lookups', Callers \cup Maintainers, Lookup)
      BY <1>2, ParkTyped DEF AskCredential
    <2> QED  BY <1>2, <2>1 DEF AskCredential, RegistryTypeOK
  <1> QED  BY <1>1, <1>2

\* Every step of the registry keeps the cache typed.
LEMMA RegistryTyped ==
    ASSUME RegistryTypeOK, CacheInv, RegistryNext
    PROVE  RegistryTypeOK'
  <1>1. CASE Tick
    BY <1>1 DEF Tick, RegistryTypeOK
  <1>2. ASSUME NEW n \in 1..MaxSequence, NEW lifetime \in Lifetimes,
               NEW content \in Contents, Publish(n, lifetime, content)
        PROVE  RegistryTypeOK'
    <2>1. [sequence |-> n, issuedAt |-> Clock, expiresAt |-> Clock + lifetime,
           content |-> content] \in Snapshot
      BY ClockTyped DEF Snapshot
    <2> QED  BY <1>2, <2>1 DEF Publish, RegistryTypeOK
  <1>3. ASSUME NEW c \in Maintainers, Refresh(c)
        PROVE  RegistryTypeOK'
    <2>1. IsMap(lookups', Callers \cup Maintainers, Lookup)
      BY <1>3, ParkTyped DEF Refresh
    <2> QED  BY <1>3, <2>1 DEF Refresh, RegistryTypeOK
  <1>4. ASSUME NEW c \in Maintainers, NEW s \in published, Prime(c, s)
        PROVE  RegistryTypeOK'
    <2>1. IsMap(lookups', Callers \cup Maintainers, Lookup)
      BY <1>4, ParkTyped DEF Prime, RegistryTypeOK
    <2> QED  BY <1>4, <2>1 DEF Prime, RegistryTypeOK
  <1>5. CASE Invalidate
    <2>1. \A c \in DOMAIN lookups :
             [lookups[c] EXCEPT !.stored = None] \in Lookup
      BY LookupFields DEF Lookup
    <2>2. IsMap(lookups', Callers \cup Maintainers, Lookup)
      BY <1>5, <2>1 DEF Invalidate, RegistryTypeOK, IsMap
    <2> QED  BY <1>5, <2>2 DEF Invalidate, RegistryTypeOK
  <1>6. ASSUME NEW c \in DOMAIN lookups, NEW s \in published, Loaded(c, s)
        PROVE  RegistryTypeOK'
    <2> DEFINE l == [lookups[c] EXCEPT !.pc = "verify", !.value = s]
    <2>1. l \in Lookup
      BY LookupFields DEF Lookup, RegistryTypeOK
    <2>2. lookups' = [lookups EXCEPT ![c] = l]
      BY <1>6 DEF Loaded
    <2>3. IsMap(lookups', Callers \cup Maintainers, Lookup)
      BY <2>1, <2>2, UpdateType DEF RegistryTypeOK
    <2> QED  BY <1>6, <2>3 DEF Loaded, RegistryTypeOK
  <1>7. ASSUME NEW c \in DOMAIN lookups, LookupFailed(c)
        PROVE  RegistryTypeOK'
    <2>1. "indeterminate" \in Decisions
      BY DEF Decisions
    <2> QED  BY <1>7, <2>1, EndLookupTyped DEF LookupFailed, RegistryTypeOK
  <1>8. ASSUME NEW c \in DOMAIN lookups, LookupVerified(c)
        PROVE  RegistryTypeOK'
    <2>1. lookups[c].value \in Snapshot
      BY <1>8 DEF LookupVerified, CacheInv, RegistryTypeOK
    <2>2. EvaluateCredential(lookups[c].value, lookups[c].at,
                             lookups[c].issuedAt) \in Decisions
      BY <2>1, LookupFields, DecisionTyped
    <2>3. /\ IsMap(lookups', Callers \cup Maintainers, Lookup)
          /\ IsMap(answers', Callers \cup Maintainers, Answer)
      BY <1>8, <2>1, <2>2, EndLookupTyped DEF LookupVerified
    <2> QED  BY <1>8, <2>1, <2>3 DEF LookupVerified, RegistryTypeOK
  <1> QED  BY <1>1, <1>2, <1>3, <1>4, <1>5, <1>6, <1>7, <1>8 DEF RegistryNext
-----------------------------------------------------------------------------
(* What the cache answers.                                                 *)

\* evaluateCredential says verified only of a fresh snapshot that clears the
\* issuer, the schema, the key and the status.
LEMMA VerifiedMeans ==
    ASSUME NEW s \in Snapshot, NEW at \in Nat, NEW issuedAt \in Nat,
           EvaluateCredential(s, at, issuedAt) = "verified"
    PROVE  Fresh(s, at) /\ Clean(s.content, issuedAt)
  <1>1. /\ Freshness(s, at) = "verified"
        /\ Standing(s.content.issuer) = "verified"
        /\ Standing(s.content.schema) = "verified"
        /\ KeyDecision(s.content.key, issuedAt) = "verified"
        /\ Standing(s.content.status) = "verified"
    BY DEF EvaluateCredential, EvaluateTrustSnapshot, EvaluateStatusSnapshot,
           Then
  <1>2. s.content \in Content
    BY DEF Snapshot
  <1>3. /\ s.content.issuer = "active" /\ s.content.schema = "active"
        /\ s.content.status = "valid"
    BY <1>1, <1>2 DEF Content, Standing, Standings
  <1>4. /\ s.content.key.status \in {"active", "retired"}
        /\ ~(issuedAt < s.content.key.from)
        /\ ~(s.content.key.until # None /\ issuedAt >= s.content.key.until)
    BY <1>1, <1>2 DEF Content, KeyAuthorization, KeyDecision
  <1>5. Fresh(s, at)
    BY <1>1 DEF Freshness
  <1> QED  BY <1>2, <1>3, <1>4, <1>5 DEF Clean, Content, KeyAuthorization

\* The order of snapshots is transitive.
LEMMA AtLeastTransitive ==
    ASSUME NEW r \in Snapshot, NEW s \in Snapshot, NEW t \in Snapshot,
           AtLeast(r, s), AtLeast(s, t)
    PROVE  AtLeast(r, t)
  BY DEF AtLeast, Snapshot

\* An answer stays cleared when more is published, and so does what it earned.
LEMMA ClearedStays ==
    ASSUME NEW pub, NEW more, pub \subseteq more
    PROVE  /\ \A a : Cleared(pub, a) => Cleared(more, a)
           /\ \A r : Earned(pub, r) => Earned(more, r)
  BY DEF Cleared, Earned

\* No step of the registry forgets a published snapshot.
LEMMA PublishedGrows ==
    ASSUME RegistryNext
    PROVE  published \subseteq published'
  BY DEF RegistryNext, Tick, Publish, Refresh, Prime, Invalidate, Loaded,
         LookupFailed, LookupVerified

\* Ending a call with a sound answer leaves sound answers.
LEMMA EndLookupSound ==
    ASSUME NEW c \in DOMAIN lookups, NEW decision, NEW s,
           EndLookup(c, decision, s),
           \A x \in DOMAIN answers :
              Cleared(published, answers[x]) /\ NotOlder(answers[x]),
           lookups[c].kind = "credential" =>
              LET a == [decision |-> decision, snapshot |-> s, at |-> lookups[c].at,
                        issuedAt |-> lookups[c].issuedAt,
                        stored |-> lookups[c].stored]
              IN  Cleared(published, a) /\ NotOlder(a)
    PROVE  \A x \in DOMAIN answers' :
              Cleared(published, answers'[x]) /\ NotOlder(answers'[x])
  BY DEF EndLookup, Reply, Put

\* evaluateCredential keeps the cache sound.
LEMMA AskSound ==
    ASSUME RegistryTypeOK, CacheInv, NEW c \in Callers, NEW issuedAt \in Nat,
           AskCredential(c, issuedAt)
    PROVE  CacheInv'
  <1>1. CASE entry # None /\ Fresh(entry, Clock)
    <2> DEFINE a == [decision |-> EvaluateCredential(entry, Clock, issuedAt),
                     snapshot |-> entry, at |-> Clock, issuedAt |-> issuedAt,
                     stored |-> entry]
    <2>1. entry \in Snapshot /\ entry \in published
      BY <1>1 DEF RegistryTypeOK, CacheInv
    <2>2. Cleared(published, a)
      BY <2>1, ClockTyped, VerifiedMeans DEF Cleared, Fresh
    <2>3. NotOlder(a)
      BY DEF NotOlder, AtLeast
    <2>4. answers' = Put(answers, c, a) /\ UNCHANGED <<published, entry, lookups>>
      BY <1>1 DEF AskCredential, Reply
    <2> HIDE DEF a
    <2> QED  BY <2>2, <2>3, <2>4 DEF CacheInv, Put
  <1>2. CASE ~(entry # None /\ Fresh(entry, Clock))
    <2>1. UNCHANGED <<published, entry, answers>>
      BY <1>2 DEF AskCredential
    <2>2. lookups' = Put(lookups, c,
             [kind |-> "credential", pc |-> "load", at |-> Clock,
              issuedAt |-> issuedAt, value |-> None, stored |-> entry])
      BY <1>2 DEF AskCredential, Park
    <2> QED  BY <2>1, <2>2 DEF CacheInv, Put, AtLeast
  <1> QED  BY <1>1, <1>2

\* A verified lookup stores a snapshot that is not older than the entry, nor
\* than what the entry was when any parked call was made.
LEMMA LookupVerifiedSound ==
    ASSUME RegistryTypeOK, CacheInv, NEW c \in DOMAIN lookups, LookupVerified(c)
    PROVE  CacheInv'
  <1> DEFINE l == lookups[c]
             v == l.value
             a == [decision |-> EvaluateCredential(v, l.at, l.issuedAt),
                   snapshot |-> v, at |-> l.at, issuedAt |-> l.issuedAt,
                   stored |-> l.stored]
  <1>1. v \in published /\ v \in Snapshot
    BY DEF LookupVerified, CacheInv, RegistryTypeOK
  <1>2. entry' = v /\ published' = published /\ lookups' = Drop(lookups, c)
    BY DEF LookupVerified, EndLookup
  <1>3. entry # None => entry \in Snapshot /\ AtLeast(v, entry)
    BY DEF LookupVerified, Storable, RegistryTypeOK, AtLeast
  <1>4. \A d \in DOMAIN lookups : lookups[d].stored # None =>
            AtLeast(v, lookups[d].stored)
    <2> SUFFICES ASSUME NEW d \in DOMAIN lookups, lookups[d].stored # None
                 PROVE  AtLeast(v, lookups[d].stored)
      OBVIOUS
    <2>1. lookups[d].stored \in Snapshot
      BY LookupFields
    <2>2. entry # None /\ AtLeast(entry, lookups[d].stored)
      BY DEF CacheInv
    <2> QED  BY <1>1, <1>3, <2>1, <2>2, AtLeastTransitive
  <1>5. Cleared(published, a)
    BY <1>1, LookupFields, VerifiedMeans DEF Cleared, Fresh
  <1>6. NotOlder(a)
    BY <1>4 DEF NotOlder
  <1>7. \A x \in DOMAIN answers' :
           Cleared(published, answers'[x]) /\ NotOlder(answers'[x])
    BY <1>5, <1>6, EndLookupSound DEF LookupVerified, CacheInv
  <1>8. v # None
    BY <1>1
  <1> HIDE DEF v, l
  <1> QED  BY <1>1, <1>2, <1>4, <1>7, <1>8 DEF CacheInv, Drop

\* Every step of the registry keeps the cache sound.
LEMMA CacheSound ==
    ASSUME RegistryTypeOK, CacheInv, RegistryNext
    PROVE  CacheInv'
  <1>1. CASE Tick
    BY <1>1 DEF Tick, CacheInv
  <1>2. ASSUME NEW n, NEW lifetime, NEW content, Publish(n, lifetime, content)
        PROVE  CacheInv'
    <2>1. published \subseteq published'
      BY <1>2 DEF Publish
    <2>2. UNCHANGED <<entry, lookups, answers>>
      BY <1>2 DEF Publish
    <2> QED  BY <2>1, <2>2, ClearedStays DEF CacheInv
  <1>3. ASSUME NEW c \in Maintainers, Refresh(c)
        PROVE  CacheInv'
    <2>1. UNCHANGED <<published, entry, answers>>
      BY <1>3 DEF Refresh
    <2>2. lookups' = Put(lookups, c,
             [kind |-> "refresh", pc |-> "load", at |-> Clock,
              issuedAt |-> 0, value |-> None, stored |-> entry])
      BY <1>3 DEF Refresh, Park
    <2> QED  BY <2>1, <2>2 DEF CacheInv, Put, AtLeast
  <1>4. ASSUME NEW c \in Maintainers, NEW s \in published, Prime(c, s)
        PROVE  CacheInv'
    <2>1. UNCHANGED <<published, entry, answers>>
      BY <1>4 DEF Prime
    <2>2. lookups' = Put(lookups, c,
             [kind |-> "prime", pc |-> "verify", at |-> Clock,
              issuedAt |-> 0, value |-> s, stored |-> entry])
      BY <1>4 DEF Prime, Park
    <2> QED  BY <2>1, <2>2 DEF CacheInv, Put, AtLeast
  <1>5. CASE Invalidate
    <2>1. /\ entry' = None /\ UNCHANGED <<published, answers>>
          /\ DOMAIN lookups' = DOMAIN lookups
          /\ \A c \in DOMAIN lookups :
                lookups'[c] = [lookups[c] EXCEPT !.stored = None]
      BY <1>5 DEF Invalidate
    <2>2. \A c \in DOMAIN lookups : lookups'[c].stored = None
             /\ lookups'[c].pc = lookups[c].pc
             /\ lookups'[c].value = lookups[c].value
      BY <2>1, LookupFields DEF Lookup
    <2> QED  BY <2>1, <2>2 DEF CacheInv
  <1>6. ASSUME NEW c \in DOMAIN lookups, NEW s \in published, Loaded(c, s)
        PROVE  CacheInv'
    <2>1. UNCHANGED <<published, entry, answers>>
      BY <1>6 DEF Loaded
    <2>2. /\ DOMAIN lookups' = DOMAIN lookups
          /\ \A d \in DOMAIN lookups : d # c => lookups'[d] = lookups[d]
          /\ lookups'[c].value = s /\ lookups'[c].stored = lookups[c].stored
      BY <1>6, LookupFields DEF Loaded, Lookup
    <2> QED  BY <2>1, <2>2 DEF CacheInv
  <1>7. ASSUME NEW c \in DOMAIN lookups, LookupFailed(c)
        PROVE  CacheInv'
    <2>1. /\ UNCHANGED <<published, entry>> /\ lookups' = Drop(lookups, c)
      BY <1>7 DEF LookupFailed, EndLookup
    <2>2. \A x \in DOMAIN answers' :
             Cleared(published, answers'[x]) /\ NotOlder(answers'[x])
      BY <1>7, EndLookupSound DEF LookupFailed, CacheInv, Cleared, NotOlder
    <2> QED  BY <2>1, <2>2 DEF CacheInv, Drop
  <1>8. ASSUME NEW c \in DOMAIN lookups, LookupVerified(c)
        PROVE  CacheInv'
    BY <1>8, LookupVerifiedSound
  <1> QED  BY <1>1, <1>2, <1>3, <1>4, <1>5, <1>6, <1>7, <1>8 DEF RegistryNext
-----------------------------------------------------------------------------
(* Type correctness of the verifier.                                       *)

\* The fields of a parked response.
LEMMA ResponseFields ==
    ASSUME TypeOK, NEW c \in DOMAIN responses
    PROVE  /\ c \in Callers
           /\ responses[c] \in Response
           /\ responses[c].session \in Sessions
           /\ responses[c].result \in Decisions
           /\ responses[c].presentation \in Presentation \cup {None}
           /\ responses[c].answer \in Answer \cup {None}
  BY DEF TypeOK, IsMap, Response

\* Writing a receipt keeps sessions and receipts typed.
LEMMA CompleteTyped ==
    ASSUME TypeOK, NEW rid \in Receipts, NEW s \in DOMAIN sessions,
           NEW receipt \in Receipt, Complete(rid, s, receipt)
    PROVE  /\ IsMap(sessions', Sessions, Session)
           /\ IsMap(receipts', Receipts, Receipt)
  <1> DEFINE x == [sessions[s] EXCEPT !.receipt = rid]
  <1>1. x \in Session
    BY DEF TypeOK, IsMap, Session
  <1>2. sessions' = [sessions EXCEPT ![s] = x] \/ sessions' = sessions
    BY DEF Complete
  <1>3. IsMap(sessions', Sessions, Session)
    BY <1>1, <1>2, UpdateType DEF TypeOK
  <1>4. IsMap(receipts', Receipts, Receipt)
    BY PutType DEF Complete, TypeOK
  <1> QED  BY <1>3, <1>4

\* Parking a response keeps the responses typed.
LEMMA ParkResponseTyped ==
    ASSUME TypeOK, NEW c \in Callers, NEW s \in Sessions,
           NEW pc \in {"resolve", "formats", "registry", "finish"},
           NEW p \in Presentation \cup {None}, ParkResponse(c, s, pc, p)
    PROVE  IsMap(responses', Callers, Response)
  <1> DEFINE r == [pc |-> pc, session |-> s, result |-> "rejected",
                   presentation |-> p, answer |-> None]
  <1>1. r \in Response
    BY DEF Response, Decisions
  <1> QED  BY <1>1, PutType DEF ParkResponse, TypeOK

\* So does moving it to another await.
LEMMA MoveTyped ==
    ASSUME TypeOK, NEW c \in DOMAIN responses,
           NEW pc \in {"resolve", "formats", "registry", "finish"},
           responses' = [responses EXCEPT ![c].pc = pc]
    PROVE  IsMap(responses', Callers, Response)
  <1> DEFINE r == [responses[c] EXCEPT !.pc = pc]
  <1>1. r \in Response
    BY ResponseFields DEF Response
  <1>2. responses' = [responses EXCEPT ![c] = r]
    OBVIOUS
  <1>3. IsMap([responses EXCEPT ![c] = r], Callers, Response)
    BY <1>1, UpdateType DEF TypeOK
  <1> QED  BY <1>2, <1>3

\* Every step of the verifier keeps every variable typed.
LEMMA VerifierTyped ==
    ASSUME TypeOK, CacheInv, ResponseInv, ConsumedOnce, VerifierNext
    PROVE  TypeOK'
  <1>1. ASSUME NEW s \in Sessions, CreateSession(s)
        PROVE  TypeOK'
    <2>1. [status |-> "requested", expiresAt |-> now + SessionTtl,
           receipt |-> None] \in Session
      BY DEF Session, TypeOK, RegistryTypeOK
    <2>2. IsMap(sessions', Sessions, Session)
      BY <1>1, <2>1, PutType DEF CreateSession, TypeOK
    <2> QED  BY <1>1, <2>2 DEF CreateSession, TypeOK, RegistryTypeOK, registryVars
  <1>2. ASSUME NEW s \in DOMAIN sessions, NEW rid \in Receipts,
               RespondExpired(s, rid)
        PROVE  TypeOK'
    <2>1. s \in Sessions
      BY DEF TypeOK, IsMap
    <2>2. [session |-> s, result |-> "rejected", presentation |-> None,
           answer |-> None] \in Receipt
      BY <2>1 DEF Receipt, Decisions
    <2>3. IsMap(sessions', Sessions, Session) /\ IsMap(receipts', Receipts, Receipt)
      BY <1>2, <2>2, CompleteTyped DEF RespondExpired
    <2> QED  BY <1>2, <2>3 DEF RespondExpired, TypeOK, RegistryTypeOK, registryVars
  <1>3. ASSUME NEW c \in Callers, NEW s \in DOMAIN sessions, NEW w \in BOOLEAN,
               RespondRefused(c, s, w)
        PROVE  TypeOK'
    <2>1. s \in Sessions
      BY DEF TypeOK, IsMap
    <2>2. IsMap(responses', Callers, Response)
      BY <1>3, <2>1, ParkResponseTyped DEF RespondRefused
    <2> QED  BY <1>3, <2>2 DEF RespondRefused, TypeOK, RegistryTypeOK, registryVars
  <1>4. ASSUME NEW c \in Callers, NEW s \in DOMAIN sessions,
               NEW p \in Presentations, Respond(c, s, p)
        PROVE  TypeOK'
    <2> DEFINE x == [sessions[s] EXCEPT !.status = "consumed"]
    <2>1. s \in Sessions /\ x \in Session
      BY DEF TypeOK, IsMap, Session
    <2>2. sessions' = [sessions EXCEPT ![s] = x]
      BY <1>4 DEF Respond
    <2>3. IsMap([sessions EXCEPT ![s] = x], Sessions, Session)
      BY <2>1, UpdateType DEF TypeOK
    <2>4. IsMap(responses', Callers, Response)
      BY <1>4, <2>1, ParkResponseTyped DEF Respond
    <2> QED  BY <1>4, <2>2, <2>3, <2>4
             DEF Respond, TypeOK, RegistryTypeOK, registryVars
  <1>5. ASSUME NEW c \in DOMAIN responses, Resolved(c) \/ Rejected(c)
        PROVE  TypeOK'
    <2>1. IsMap(responses', Callers, Response)
      BY <1>5, MoveTyped DEF Resolved, Rejected, Reject
    <2> QED  BY <1>5, <2>1
             DEF Resolved, Rejected, TypeOK, RegistryTypeOK, registryVars
  <1>6. ASSUME NEW c \in DOMAIN responses, Evaluate(c)
        PROVE  TypeOK'
    <2>1. IsMap(responses', Callers, Response)
      BY <1>6, MoveTyped DEF Evaluate
    <2>2. responses[c].presentation \in Presentation
      BY <1>6, ResponseFields DEF Evaluate, ResponseInv
    <2>3. c \in Callers /\ responses[c].presentation.issuedAt \in Nat
      BY <2>2, ResponseFields DEF Presentation
    <2>4. RegistryTypeOK'
      BY <1>6, <2>3, AskTyped DEF Evaluate, TypeOK
    <2> QED  BY <1>6, <2>1, <2>4 DEF Evaluate, TypeOK
  <1>7. ASSUME NEW c \in DOMAIN responses, RegistryAnswered(c)
        PROVE  TypeOK'
    <2> DEFINE r == [responses[c] EXCEPT !.pc = "finish", !.answer = answers[c],
                        !.result = IF responses[c].presentation.exact
                                   THEN answers[c].decision ELSE "rejected"]
    <2>1. answers[c] \in Answer /\ answers[c].decision \in Decisions
      BY <1>7 DEF RegistryAnswered, TypeOK, RegistryTypeOK, IsMap, Answer
    <2>2. r \in Response
      BY <2>1, ResponseFields DEF Response, Decisions
    <2>3. IsMap([responses EXCEPT ![c] = r], Callers, Response)
      BY <2>2, UpdateType DEF TypeOK
    <2>4. responses' = [responses EXCEPT ![c] = r]
      BY <1>7 DEF RegistryAnswered
    <2>5. IsMap(answers', Callers \cup Maintainers, Answer)
      BY <1>7, DropType DEF RegistryAnswered, TypeOK, RegistryTypeOK
    <2> QED  BY <1>7, <2>3, <2>4, <2>5 DEF RegistryAnswered, TypeOK, RegistryTypeOK
  <1>8. ASSUME NEW c \in DOMAIN responses, NEW rid \in Receipts, Finish(c, rid)
        PROVE  TypeOK'
    <2> DEFINE r == responses[c]
    <2>1. [session |-> r.session, result |-> r.result,
           presentation |-> r.presentation, answer |-> r.answer] \in Receipt
      BY ResponseFields DEF Receipt
    <2>2. r.session \in DOMAIN sessions
      BY DEF ConsumedOnce
    <2>3. IsMap(sessions', Sessions, Session) /\ IsMap(receipts', Receipts, Receipt)
      BY <1>8, <2>1, <2>2, CompleteTyped DEF Finish
    <2>4. IsMap(responses', Callers, Response)
      BY <1>8, DropType DEF Finish, TypeOK
    <2> QED  BY <1>8, <2>3, <2>4 DEF Finish, TypeOK, RegistryTypeOK, registryVars
  <1> QED  BY <1>1, <1>2, <1>3, <1>4, <1>5, <1>6, <1>7, <1>8 DEF VerifierNext
-----------------------------------------------------------------------------
(* The verifier keeps the invariant.                                       *)

\* Moving a response to another await changes nothing else about it.
LEMMA MoveKeeps ==
    ASSUME TypeOK, NEW c \in DOMAIN responses, NEW pc,
           responses' = [responses EXCEPT ![c].pc = pc]
    PROVE  /\ DOMAIN responses' = DOMAIN responses
           /\ \A d \in DOMAIN responses :
                 /\ responses'[d].session = responses[d].session
                 /\ responses'[d].presentation = responses[d].presentation
                 /\ responses'[d].answer = responses[d].answer
                 /\ responses'[d].result = responses[d].result
                 /\ d # c => responses'[d] = responses[d]
           /\ responses'[c].pc = pc
  BY ResponseFields DEF Response

\* Earned is about four fields only.
LEMMA EarnedFields ==
    ASSUME NEW pub, NEW r, NEW x, Earned(pub, r),
           x.session = r.session, x.presentation = r.presentation,
           x.answer = r.answer, x.result = r.result
    PROVE  Earned(pub, x)
  BY DEF Earned

\* A response that only moves on keeps what it earned.
LEMMA MoveEarned ==
    ASSUME TypeOK, ResponseInv, NEW c \in DOMAIN responses, NEW pc,
           responses' = [responses EXCEPT ![c].pc = pc]
    PROVE  Earned(published, responses'[c])
  <1>1. Earned(published, responses[c])
    BY DEF ResponseInv
  <1>2. /\ responses'[c].session = responses[c].session
        /\ responses'[c].presentation = responses[c].presentation
        /\ responses'[c].answer = responses[c].answer
        /\ responses'[c].result = responses[c].result
    BY MoveKeeps
  <1> QED  BY <1>1, <1>2, EarnedFields, Zenon

\* A rejection without an answer needs to earn nothing.
LEMMA RejectionEarned ==
    ASSUME NEW pub, NEW r, r.answer = None, r.result = "rejected"
    PROVE  Earned(pub, r)
  BY DEF Earned

\* The verifier's steps keep the cache sound.
LEMMA VerifierCache ==
    ASSUME TypeOK, CacheInv, ResponseInv, VerifierNext
    PROVE  CacheInv'
  <1>1. CASE UNCHANGED registryVars
    BY <1>1 DEF registryVars, CacheInv
  <1>2. ASSUME NEW c \in DOMAIN responses, Evaluate(c)
        PROVE  CacheInv'
    <2>1. responses[c].presentation \in Presentation
      BY <1>2, ResponseFields DEF Evaluate, ResponseInv
    <2>2. c \in Callers /\ responses[c].presentation.issuedAt \in Nat
      BY <2>1, ResponseFields DEF Presentation
    <2> QED  BY <1>2, <2>2, AskSound DEF Evaluate, TypeOK
  <1>3. ASSUME NEW c \in DOMAIN responses, RegistryAnswered(c)
        PROVE  CacheInv'
    BY <1>3 DEF RegistryAnswered, CacheInv, Drop
  <1> QED  BY <1>1, <1>2, <1>3 DEF VerifierNext, CreateSession, RespondExpired,
              RespondRefused, Respond, Resolved, Rejected, Finish

\* What evaluateCredential leaves behind for its caller: a lookup or an answer
\* about the credential, at the present time.
LEMMA AskedFor ==
    ASSUME NEW c \in Callers, NEW issuedAt, AskCredential(c, issuedAt)
    PROVE  /\ published' = published
           /\ \A d : d # c =>
                 /\ d \in DOMAIN lookups' <=> d \in DOMAIN lookups
                 /\ d \in DOMAIN answers' <=> d \in DOMAIN answers
                 /\ d \in DOMAIN lookups => lookups'[d] = lookups[d]
                 /\ d \in DOMAIN answers => answers'[d] = answers[d]
           /\ c \in DOMAIN lookups' =>
                 lookups'[c].issuedAt = issuedAt /\ lookups'[c].at = Clock
           /\ c \in DOMAIN answers' =>
                 answers'[c].issuedAt = issuedAt /\ answers'[c].at = Clock
  <1>1. CASE entry # None /\ Fresh(entry, Clock)
    BY <1>1 DEF AskCredential, Idle, Reply, Put
  <1>2. CASE ~(entry # None /\ Fresh(entry, Clock))
    BY <1>2 DEF AskCredential, Idle, Park, Put
  <1> QED  BY <1>1, <1>2

\* A new response is at the resolver, or waits to be rejected.
LEMMA ParkResponseKeeps ==
    ASSUME ResponseInv, UNCHANGED registryVars, NEW c, NEW s, NEW p,
           NEW pc \in {"resolve", "finish"}, pc = "resolve" => p # None,
           ParkResponse(c, s, pc, p)
    PROVE  ResponseInv'
  <1> DEFINE r == [pc |-> pc, session |-> s, result |-> "rejected",
                   presentation |-> p, answer |-> None]
  <1>1. responses' = Put(responses, c, r)
    BY DEF ParkResponse
  <1>2. r.pc = pc /\ r.result = "rejected" /\ r.presentation = p /\ r.answer = None
    OBVIOUS
  <1>3. Earned(published, r)
    BY <1>2, RejectionEarned
  <1> HIDE DEF r
  <1> QED  BY <1>1, <1>2, <1>3 DEF ResponseInv, Put, registryVars

\* Every step of the verifier keeps what a parked response has passed.
LEMMA VerifierResponses ==
    ASSUME TypeOK, CacheInv, ResponseInv, VerifierNext
    PROVE  ResponseInv'
  <1>1. CASE UNCHANGED <<registryVars, responses>>
    BY <1>1 DEF ResponseInv, registryVars
  <1>2. ASSUME NEW c \in Callers, NEW s, NEW w, RespondRefused(c, s, w)
        PROVE  ResponseInv'
    BY <1>2, ParkResponseKeeps DEF RespondRefused
  <1>3. ASSUME NEW c \in Callers, NEW s, NEW p \in Presentations, Respond(c, s, p)
        PROVE  ResponseInv'
    BY <1>3, ParkResponseKeeps DEF Respond
  <1>4. ASSUME NEW c \in DOMAIN responses, Resolved(c)
        PROVE  ResponseInv'
    <2>1. responses' = [responses EXCEPT ![c].pc = "formats"]
          /\ UNCHANGED registryVars
      BY <1>4 DEF Resolved
    <2>2. Earned(published, responses'[c])
      BY <2>1, MoveEarned
    <2>3. /\ responses[c].presentation # None /\ responses[c].answer = None
          /\ responses[c].result = "rejected"
          /\ responses[c].presentation.nonce = responses[c].session
      BY <1>4 DEF ResponseInv, Resolved, ResolverAccepts
    <2>4. /\ DOMAIN responses' = DOMAIN responses
          /\ responses'[c].session = responses[c].session
          /\ responses'[c].presentation = responses[c].presentation
          /\ responses'[c].answer = responses[c].answer
          /\ responses'[c].result = responses[c].result
          /\ responses'[c].pc = "formats"
          /\ \A d \in DOMAIN responses : d # c => responses'[d] = responses[d]
      BY <2>1, MoveKeeps
    <2>5. UNCHANGED <<published, lookups, answers>>
      BY <2>1 DEF registryVars
    <2> QED  BY <2>2, <2>3, <2>4, <2>5 DEF ResponseInv
  <1>5. ASSUME NEW c \in DOMAIN responses, Rejected(c)
        PROVE  ResponseInv'
    <2>1. responses' = [responses EXCEPT ![c].pc = "finish"]
          /\ UNCHANGED registryVars
      BY <1>5 DEF Rejected, Reject
    <2>2. Earned(published, responses'[c])
      BY <2>1, MoveEarned
    <2> QED  BY <2>1, <2>2, MoveKeeps DEF ResponseInv, registryVars
  <1>6. ASSUME NEW c \in DOMAIN responses, Evaluate(c)
        PROVE  ResponseInv'
    <2> DEFINE p == responses[c].presentation
    <2>1. responses' = [responses EXCEPT ![c].pc = "registry"]
      BY <1>6 DEF Evaluate
    <2>2. c \in Callers /\ AskCredential(c, p.issuedAt)
      BY <1>6, ResponseFields DEF Evaluate
    <2>3. Earned(published, responses'[c])
      BY <2>1, MoveEarned
    <2>4. /\ p # None /\ responses[c].answer = None
          /\ responses[c].result = "rejected" /\ p.nonce = responses[c].session
          /\ p.fault = "none" /\ p.issuedAt <= Clock /\ Clock < p.expiresAt
      BY <1>6 DEF ResponseInv, Evaluate, LocalChecks
    <2>5. /\ c \in DOMAIN lookups' => InForce(p, lookups'[c])
          /\ c \in DOMAIN answers' => InForce(p, answers'[c])
      BY <2>2, <2>4, AskedFor DEF InForce
    <2>6. responses'[c].presentation = p
      BY <2>1, MoveKeeps
    <2>7. \A d \in DOMAIN responses : d # c => responses'[d] = responses[d]
      BY <2>1, MoveKeeps
    <2>8. /\ published' = published
          /\ \A d : d # c =>
                /\ d \in DOMAIN lookups' <=> d \in DOMAIN lookups
                /\ d \in DOMAIN answers' <=> d \in DOMAIN answers
                /\ d \in DOMAIN lookups => lookups'[d] = lookups[d]
                /\ d \in DOMAIN answers => answers'[d] = answers[d]
      BY <2>2, AskedFor
    <2>9. /\ DOMAIN responses' = DOMAIN responses
          /\ responses'[c].session = responses[c].session
          /\ responses'[c].answer = responses[c].answer
          /\ responses'[c].result = responses[c].result
      BY <2>1, MoveKeeps
    <2> HIDE DEF p
    <2> QED  BY <2>3, <2>4, <2>5, <2>6, <2>7, <2>8, <2>9 DEF ResponseInv
  <1>7. ASSUME NEW c \in DOMAIN responses, RegistryAnswered(c)
        PROVE  ResponseInv'
    <2> DEFINE r == responses[c]
               x == [r EXCEPT !.pc = "finish", !.answer = answers[c],
                        !.result = IF r.presentation.exact
                                   THEN answers[c].decision ELSE "rejected"]
    <2>1. /\ responses' = [responses EXCEPT ![c] = x]
          /\ answers' = Drop(answers, c) /\ UNCHANGED <<published, lookups>>
      BY <1>7 DEF RegistryAnswered
    <2>2. /\ x.session = r.session /\ x.presentation = r.presentation
          /\ x.answer = answers[c] /\ x.pc = "finish"
          /\ x.result = IF r.presentation.exact
                        THEN answers[c].decision ELSE "rejected"
      BY ResponseFields DEF Response
    <2>3. /\ c \in DOMAIN answers /\ answers[c] \in Answer
          /\ r.pc = "registry"
      BY <1>7 DEF RegistryAnswered, TypeOK, RegistryTypeOK, IsMap
    <2>4. /\ r.presentation # None
          /\ r.presentation.nonce = r.session /\ r.presentation.fault = "none"
          /\ InForce(r.presentation, answers[c])
      BY <2>3 DEF ResponseInv
    <2>5. Cleared(published, answers[c]) /\ NotOlder(answers[c])
      BY <2>3 DEF CacheInv
    <2>6. r.presentation.exact \in BOOLEAN
      BY <2>4, ResponseFields DEF Presentation
    <2>7. x.result = "verified" =>
             answers[c].decision = "verified" /\ r.presentation.exact
      BY <2>2
    <2>8. Earned(published, x)
      BY <2>2, <2>3, <2>4, <2>5, <2>7 DEF Earned
    <2>9. /\ DOMAIN responses' = DOMAIN responses
          /\ responses'[c] = x
          /\ \A d \in DOMAIN responses : d # c => responses'[d] = responses[d]
      BY <2>1
    <2>10. /\ DOMAIN answers' \subseteq DOMAIN answers
           /\ \A d \in DOMAIN answers' : answers'[d] = answers[d]
      BY <2>1 DEF Drop
    <2>11. x.pc = "finish"
      BY <2>2
    <2> HIDE DEF x
    <2> QED  BY <2>1, <2>8, <2>9, <2>10, <2>11 DEF ResponseInv
  <1>8. ASSUME NEW c \in DOMAIN responses, NEW rid, Finish(c, rid)
        PROVE  ResponseInv'
    BY <1>8 DEF Finish, ResponseInv, Drop, registryVars
  <1> QED  BY <1>1, <1>2, <1>3, <1>4, <1>5, <1>6, <1>7, <1>8
           DEF VerifierNext, CreateSession, RespondExpired

\* A call that ends drops its lookup; an answer it leaves is dated like it.
LEMMA EndLookupDates ==
    ASSUME NEW c \in DOMAIN lookups, NEW decision, NEW s,
           EndLookup(c, decision, s)
    PROVE  /\ lookups' = Drop(lookups, c)
           /\ \A d : d # c =>
                 /\ d \in DOMAIN answers' <=> d \in DOMAIN answers
                 /\ d \in DOMAIN answers => answers'[d] = answers[d]
           /\ c \in DOMAIN answers' =>
                 \/ c \in DOMAIN answers /\ answers'[c] = answers[c]
                 \/ /\ answers'[c].at = lookups[c].at
                    /\ answers'[c].issuedAt = lookups[c].issuedAt
  <1>1. CASE lookups[c].kind = "credential"
    BY <1>1 DEF EndLookup, Reply, Put
  <1>2. CASE lookups[c].kind # "credential"
    BY <1>2 DEF EndLookup
  <1> QED  BY <1>1, <1>2

\* What the registry does beside it never redates a caller's question.
LEMMA RegistryDates ==
    ASSUME RegistryTypeOK, RegistryNext, NEW c \in Callers
    PROVE  /\ c \in DOMAIN lookups' =>
                 /\ c \in DOMAIN lookups
                 /\ lookups'[c].at = lookups[c].at
                 /\ lookups'[c].issuedAt = lookups[c].issuedAt
           /\ c \in DOMAIN answers' =>
                 \/ c \in DOMAIN answers /\ answers'[c] = answers[c]
                 \/ /\ c \in DOMAIN lookups
                    /\ answers'[c].at = lookups[c].at
                    /\ answers'[c].issuedAt = lookups[c].issuedAt
  <1> DEFINE Goal ==
         /\ c \in DOMAIN lookups' =>
               /\ c \in DOMAIN lookups
               /\ lookups'[c].at = lookups[c].at
               /\ lookups'[c].issuedAt = lookups[c].issuedAt
         /\ c \in DOMAIN answers' =>
               \/ c \in DOMAIN answers /\ answers'[c] = answers[c]
               \/ /\ c \in DOMAIN lookups
                  /\ answers'[c].at = lookups[c].at
                  /\ answers'[c].issuedAt = lookups[c].issuedAt
  <1>1. CASE UNCHANGED <<lookups, answers>>
    BY <1>1
  <1>2. ASSUME NEW m \in Maintainers, NEW s, Refresh(m) \/ Prime(m, s)
        PROVE  Goal
    <2>1. m # c
      OBVIOUS
    <2> QED  BY <1>2, <2>1 DEF Refresh, Prime, Park, Put
  <1>3. CASE Invalidate
    <2>1. \A d \in DOMAIN lookups :
             /\ [lookups[d] EXCEPT !.stored = None].at = lookups[d].at
             /\ [lookups[d] EXCEPT !.stored = None].issuedAt = lookups[d].issuedAt
      BY LookupFields DEF Lookup
    <2> QED  BY <1>3, <2>1 DEF Invalidate
  <1>4. ASSUME NEW d \in DOMAIN lookups, NEW s, Loaded(d, s)
        PROVE  Goal
    BY <1>4, LookupFields DEF Loaded, Lookup
  <1>5. ASSUME NEW d \in DOMAIN lookups, LookupFailed(d) \/ LookupVerified(d)
        PROVE  Goal
    <2>1. PICK decision, s : EndLookup(d, decision, s)
      BY <1>5 DEF LookupFailed, LookupVerified
    <2>2. lookups' = Drop(lookups, d)
      BY <2>1, EndLookupDates
    <2>3. c \in DOMAIN lookups' => c \in DOMAIN lookups /\ lookups'[c] = lookups[c]
      BY <2>2 DEF Drop
    <2>4. c \in DOMAIN answers' =>
             \/ c \in DOMAIN answers /\ answers'[c] = answers[c]
             \/ /\ c \in DOMAIN lookups
                /\ answers'[c].at = lookups[c].at
                /\ answers'[c].issuedAt = lookups[c].issuedAt
      BY <2>1, EndLookupDates
    <2> QED  BY <2>3, <2>4
  <1>6. Goal
    BY <1>1, <1>2, <1>3, <1>4, <1>5 DEF RegistryNext, Tick, Publish
  <1> QED  BY <1>6

\* The registry's steps keep what the parked responses have passed.
LEMMA RegistryResponses ==
    ASSUME TypeOK, ResponseInv, RegistryNext, responses' = responses
    PROVE  ResponseInv'
  <1>1. \A c \in DOMAIN responses : Earned(published', responses[c])
    BY PublishedGrows, ClearedStays DEF ResponseInv
  <1>2. \A c \in DOMAIN responses : c \in Callers
    BY ResponseFields
  <1>3. \A c \in DOMAIN responses : responses[c].pc = "registry" =>
           /\ c \in DOMAIN lookups' => InForce(responses[c].presentation, lookups'[c])
           /\ c \in DOMAIN answers' => InForce(responses[c].presentation, answers'[c])
    <2> SUFFICES ASSUME NEW c \in DOMAIN responses, responses[c].pc = "registry"
                 PROVE
           /\ c \in DOMAIN lookups' => InForce(responses[c].presentation, lookups'[c])
           /\ c \in DOMAIN answers' => InForce(responses[c].presentation, answers'[c])
      OBVIOUS
    <2>1. /\ c \in DOMAIN lookups => InForce(responses[c].presentation, lookups[c])
          /\ c \in DOMAIN answers => InForce(responses[c].presentation, answers[c])
      BY DEF ResponseInv
    <2> QED  BY <1>2, <2>1, RegistryDates DEF InForce, TypeOK
  <1> QED  BY <1>1, <1>3 DEF ResponseInv

\* A receipt that is written leaves the others, and what the sessions show,
\* as they were; the statuses of the sessions do not change.
LEMMA CompleteKeeps ==
    ASSUME TypeOK, NEW rid \in Receipts, NEW s \in DOMAIN sessions, NEW receipt,
           rid \notin DOMAIN receipts, Complete(rid, s, receipt)
    PROVE  /\ DOMAIN receipts' = DOMAIN receipts \cup {rid}
           /\ receipts'[rid] = receipt
           /\ \A x \in DOMAIN receipts : receipts'[x] = receipts[x]
           /\ DOMAIN sessions' = DOMAIN sessions
           /\ \A t \in DOMAIN sessions :
                 /\ sessions'[t].status = sessions[t].status
                 /\ sessions[t].receipt # None =>
                       sessions'[t].receipt = sessions[t].receipt
                 /\ \/ sessions'[t].receipt = sessions[t].receipt
                    \/ t = s /\ sessions'[t].receipt = rid
  <1>1. /\ DOMAIN receipts' = DOMAIN receipts \cup {rid}
        /\ receipts'[rid] = receipt
        /\ \A x \in DOMAIN receipts : receipts'[x] = receipts[x]
    BY DEF Complete, Put
  <1>2. \A t \in DOMAIN sessions : sessions[t] \in Session
    BY DEF TypeOK, IsMap
  <1>3. CASE sessions[s].status = "consumed" /\ sessions[s].receipt = None
    BY <1>1, <1>2, <1>3 DEF Complete, Session
  <1>4. CASE ~(sessions[s].status = "consumed" /\ sessions[s].receipt = None)
    BY <1>1, <1>4 DEF Complete
  <1> QED  BY <1>3, <1>4

\* Writing an earned receipt keeps ReceiptInv.
LEMMA CompleteReceipts ==
    ASSUME TypeOK, ReceiptInv, NEW rid \in Receipts, NEW s \in DOMAIN sessions,
           NEW receipt, rid \notin DOMAIN receipts, Complete(rid, s, receipt),
           published' = published, Earned(published, receipt),
           receipt.session = s
    PROVE  ReceiptInv'
  <1>1. /\ DOMAIN receipts' = DOMAIN receipts \cup {rid}
        /\ receipts'[rid] = receipt
        /\ \A x \in DOMAIN receipts : receipts'[x] = receipts[x]
    BY CompleteKeeps
  <1>2. /\ DOMAIN sessions' = DOMAIN sessions
        /\ \A t \in DOMAIN sessions :
              \/ sessions'[t].receipt = sessions[t].receipt
              \/ t = s /\ sessions'[t].receipt = rid
    <2>1. \A t \in DOMAIN sessions : sessions[t] \in Session
      BY DEF TypeOK, IsMap
    <2>2. CASE sessions' = sessions
      BY <2>2
    <2>3. CASE sessions' = [sessions EXCEPT ![s].receipt = rid]
      BY <2>1, <2>3 DEF Session
    <2> QED  BY <2>2, <2>3 DEF Complete
  <1>3. \A x \in DOMAIN receipts' : Earned(published', receipts'[x])
    <2> SUFFICES ASSUME NEW x \in DOMAIN receipts'
                 PROVE  Earned(published, receipts'[x])
      OBVIOUS
    <2>1. CASE x = rid
      BY <1>1, <2>1
    <2>2. CASE x \in DOMAIN receipts
      <3>1. Earned(published, receipts[x])
        BY <2>2 DEF ReceiptInv
      <3> QED  BY <1>1, <2>2, <3>1
    <2> QED  BY <1>1, <2>1, <2>2
  <1>4. ASSUME NEW t \in DOMAIN sessions', sessions'[t].receipt # None
        PROVE  /\ sessions'[t].receipt \in DOMAIN receipts'
               /\ receipts'[sessions'[t].receipt].session = t
    <2>1. t \in DOMAIN sessions
      BY <1>2
    <2>2. CASE sessions'[t].receipt = sessions[t].receipt
      <3>1. /\ sessions[t].receipt \in DOMAIN receipts
            /\ receipts[sessions[t].receipt].session = t
        BY <1>4, <2>1, <2>2 DEF ReceiptInv
      <3> QED  BY <2>2, <3>1, <1>1
    <2>3. CASE t = s /\ sessions'[t].receipt = rid
      BY <2>3, <1>1
    <2> QED  BY <2>1, <2>2, <2>3, <1>2
  <1> QED  BY <1>3, <1>4 DEF ReceiptInv

\* Every step of the verifier keeps the receipts earned, and shows on a
\* session only its own.
LEMMA VerifierReceipts ==
    ASSUME TypeOK, ResponseInv, ReceiptInv, ConsumedOnce, VerifierNext
    PROVE  ReceiptInv'
  <1>1. ASSUME NEW s \in Sessions, CreateSession(s)
        PROVE  ReceiptInv'
    BY <1>1 DEF CreateSession, ReceiptInv, Put, registryVars
  <1>2. ASSUME NEW s \in DOMAIN sessions, NEW rid \in Receipts,
               RespondExpired(s, rid)
        PROVE  ReceiptInv'
    <2> DEFINE r == [session |-> s, result |-> "rejected",
                     presentation |-> None, answer |-> None]
    <2>1. Earned(published, r) /\ r.session = s
      BY RejectionEarned
    <2>2. Complete(rid, s, r) /\ rid \notin DOMAIN receipts /\ published' = published
      BY <1>2 DEF RespondExpired, registryVars
    <2> HIDE DEF r
    <2> QED  BY <2>1, <2>2, CompleteReceipts
  <1>3. ASSUME NEW c \in Callers, NEW s \in DOMAIN sessions, NEW p,
               Respond(c, s, p)
        PROVE  ReceiptInv'
    <2>1. /\ DOMAIN sessions' = DOMAIN sessions
          /\ \A t \in DOMAIN sessions : sessions'[t].receipt = sessions[t].receipt
      BY <1>3 DEF Respond, TypeOK, IsMap, Session
    <2>2. UNCHANGED <<receipts, published>>
      BY <1>3 DEF Respond, registryVars
    <2> QED  BY <2>1, <2>2 DEF ReceiptInv
  <1>4. CASE UNCHANGED <<published, sessions, receipts>>
    BY <1>4 DEF ReceiptInv
  <1>5. ASSUME NEW c \in DOMAIN responses, NEW rid \in Receipts, Finish(c, rid)
        PROVE  ReceiptInv'
    <2> DEFINE r == responses[c]
               x == [session |-> r.session, result |-> r.result,
                     presentation |-> r.presentation, answer |-> r.answer]
    <2>1. Earned(published, x) /\ x.session = r.session
      BY EarnedFields DEF ResponseInv
    <2>2. Complete(rid, r.session, x) /\ rid \notin DOMAIN receipts
          /\ published' = published
      BY <1>5 DEF Finish, registryVars
    <2>3. r.session \in DOMAIN sessions
      BY DEF ConsumedOnce
    <2> HIDE DEF r, x
    <2> QED  BY <2>1, <2>2, <2>3, CompleteReceipts
  <1> QED  BY <1>1, <1>2, <1>3, <1>4, <1>5
           DEF VerifierNext, RespondRefused, Resolved, Rejected, Evaluate,
               RegistryAnswered, AskCredential, registryVars

\* Moving responses about keeps ConsumedOnce.
LEMMA MovedOnce ==
    ASSUME ConsumedOnce, UNCHANGED <<sessions, receipts>>,
           DOMAIN responses' = DOMAIN responses,
           \A d \in DOMAIN responses :
              /\ responses'[d].session = responses[d].session
              /\ responses'[d].presentation = responses[d].presentation
    PROVE  ConsumedOnce'
  <1>1. \A d \in DOMAIN responses : Holds(responses'[d]) <=> Holds(responses[d])
    BY DEF Holds
  <1> QED  BY <1>1 DEF ConsumedOnce

\* Every step of the verifier keeps a session to one evaluation.
LEMMA VerifierOnce ==
    ASSUME TypeOK, ConsumedOnce, VerifierNext
    PROVE  ConsumedOnce'
  <1>1. ASSUME NEW s \in Sessions, CreateSession(s)
        PROVE  ConsumedOnce'
    BY <1>1 DEF CreateSession, ConsumedOnce, Holds, Put
  <1>2. ASSUME NEW s \in DOMAIN sessions, NEW rid \in Receipts,
               RespondExpired(s, rid)
        PROVE  ConsumedOnce'
    <2> DEFINE r == [session |-> s, result |-> "rejected",
                     presentation |-> None, answer |-> None]
    <2>1. r.session = s /\ ~Holds(r)
      BY DEF Holds
    <2>2. /\ Complete(rid, s, r) /\ rid \notin DOMAIN receipts
          /\ responses' = responses
      BY <1>2 DEF RespondExpired
    <2> HIDE DEF r
    <2>3. /\ DOMAIN receipts' = DOMAIN receipts \cup {rid}
          /\ receipts'[rid] = r
          /\ \A x \in DOMAIN receipts : receipts'[x] = receipts[x]
          /\ DOMAIN sessions' = DOMAIN sessions
          /\ \A t \in DOMAIN sessions : sessions'[t].status = sessions[t].status
      BY <2>2, CompleteKeeps
    <2> QED  BY <2>1, <2>2, <2>3 DEF ConsumedOnce
  <1>3. ASSUME NEW c \in Callers, NEW s \in DOMAIN sessions, NEW w,
               RespondRefused(c, s, w)
        PROVE  ConsumedOnce'
    <2> DEFINE r == [pc |-> "finish", session |-> s, result |-> "rejected",
                     presentation |-> None, answer |-> None]
    <2>1. r.session = s /\ ~Holds(r)
      BY DEF Holds
    <2>2. /\ responses' = Put(responses, c, r) /\ c \notin DOMAIN responses
          /\ UNCHANGED <<sessions, receipts>>
      BY <1>3 DEF RespondRefused, ParkResponse
    <2> HIDE DEF r
    <2> QED  BY <2>1, <2>2 DEF ConsumedOnce, Put
  <1>4. ASSUME NEW c \in Callers, NEW s \in DOMAIN sessions, NEW p,
               Respond(c, s, p)
        PROVE  ConsumedOnce'
    <2> DEFINE r == [pc |-> "resolve", session |-> s, result |-> "rejected",
                     presentation |-> p, answer |-> None]
    <2>1. r.session = s
      OBVIOUS
    <2>2. /\ responses' = Put(responses, c, r) /\ c \notin DOMAIN responses
          /\ receipts' = receipts
      BY <1>4 DEF Respond, ParkResponse
    <2>3. /\ DOMAIN sessions' = DOMAIN sessions
          /\ sessions'[s].status = "consumed"
          /\ \A t \in DOMAIN sessions : t # s => sessions'[t] = sessions[t]
      BY <1>4 DEF Respond, TypeOK, IsMap, Session
    <2>4. sessions[s].status # "consumed"
      BY <1>4 DEF Respond, Consumable
    <2>5. /\ \A d \in DOMAIN responses :
                responses[d].session = s => ~Holds(responses[d])
          /\ \A x \in DOMAIN receipts :
                receipts[x].session = s => ~Holds(receipts[x])
      BY <2>4 DEF ConsumedOnce
    <2> HIDE DEF r
    <2> QED  BY <2>1, <2>2, <2>3, <2>5 DEF ConsumedOnce, Put
  <1>5. ASSUME NEW c \in DOMAIN responses,
               Resolved(c) \/ Rejected(c) \/ Evaluate(c)
        PROVE  ConsumedOnce'
    <2>1. PICK pc : responses' = [responses EXCEPT ![c].pc = pc]
      BY <1>5 DEF Resolved, Rejected, Reject, Evaluate
    <2>2. UNCHANGED <<sessions, receipts>>
      BY <1>5 DEF Resolved, Rejected, Evaluate
    <2> QED  BY <2>1, <2>2, MoveKeeps, MovedOnce
  <1>6. ASSUME NEW c \in DOMAIN responses, RegistryAnswered(c)
        PROVE  ConsumedOnce'
    <2>1. /\ DOMAIN responses' = DOMAIN responses
          /\ \A d \in DOMAIN responses :
                /\ responses'[d].session = responses[d].session
                /\ responses'[d].presentation = responses[d].presentation
      BY <1>6, ResponseFields DEF RegistryAnswered, Response
    <2> QED  BY <1>6, <2>1, MovedOnce DEF RegistryAnswered
  <1>7. ASSUME NEW c \in DOMAIN responses, NEW rid \in Receipts, Finish(c, rid)
        PROVE  ConsumedOnce'
    <2> DEFINE r == responses[c]
               x == [session |-> r.session, result |-> r.result,
                     presentation |-> r.presentation, answer |-> r.answer]
    <2>1. x.session = r.session /\ (Holds(x) <=> Holds(r))
      BY DEF Holds
    <2>2. /\ Complete(rid, r.session, x) /\ rid \notin DOMAIN receipts
          /\ responses' = Drop(responses, c)
      BY <1>7 DEF Finish
    <2>3. r.session \in DOMAIN sessions
      BY DEF ConsumedOnce
    <2> HIDE DEF x
    <2>4. /\ DOMAIN receipts' = DOMAIN receipts \cup {rid}
          /\ receipts'[rid] = x
          /\ \A y \in DOMAIN receipts : receipts'[y] = receipts[y]
          /\ DOMAIN sessions' = DOMAIN sessions
          /\ \A t \in DOMAIN sessions : sessions'[t].status = sessions[t].status
      BY <2>2, <2>3, CompleteKeeps
    <2>5. /\ DOMAIN responses' = DOMAIN responses \ {c}
          /\ \A d \in DOMAIN responses' : responses'[d] = responses[d]
      BY <2>2 DEF Drop
    <2> QED  BY <2>1, <2>3, <2>4, <2>5 DEF ConsumedOnce
  <1> QED  BY <1>1, <1>2, <1>3, <1>4, <1>5, <1>6, <1>7 DEF VerifierNext
-----------------------------------------------------------------------------
(* The theorems.                                                           *)

\* The inductive invariant holds in every reachable state.
THEOREM InductiveInvariant == Spec => []IInv
  <1>1. Init => IInv
    <2> SUFFICES ASSUME Init
                 PROVE  IInv
      OBVIOUS
    <2>1. TypeOK
      BY EmptyMapType DEF Init, RegistryInit, TypeOK, RegistryTypeOK
    <2> QED  BY <2>1 DEF Init, RegistryInit, EmptyMap, IInv, CacheInv,
                ResponseInv, ReceiptInv, ConsumedOnce
  <1>2. IInv /\ [Next]_vars => IInv'
    <2> SUFFICES ASSUME IInv, [Next]_vars
                 PROVE  IInv'
      OBVIOUS
    <2>1. CASE VerifierNext
      BY <2>1, VerifierTyped, VerifierCache, VerifierResponses,
         VerifierReceipts, VerifierOnce DEF IInv
    <2>2. CASE RegistryNext /\ UNCHANGED <<sessions, receipts, responses>>
      <3>1. TypeOK'
        BY <2>2, RegistryTyped DEF IInv, TypeOK
      <3>2. CacheInv'
        BY <2>2, CacheSound DEF IInv, TypeOK
      <3>3. ResponseInv'
        BY <2>2, RegistryResponses DEF IInv
      <3>4. ReceiptInv'
        BY <2>2, PublishedGrows, ClearedStays DEF IInv, ReceiptInv
      <3>5. ConsumedOnce'
        BY <2>2 DEF IInv, ConsumedOnce
      <3> QED  BY <3>1, <3>2, <3>3, <3>4, <3>5 DEF IInv
    <2>3. CASE UNCHANGED vars
      BY <2>3 DEF vars, registryVars, IInv, TypeOK, RegistryTypeOK, CacheInv,
         ResponseInv, ReceiptInv, ConsumedOnce
    <2> QED  BY <2>1, <2>2, <2>3 DEF Next
  <1> QED  BY <1>1, <1>2, PTL DEF Spec

\* The variables of the verifier and of the registry cache keep their types.
THEOREM TypeCorrect == Spec => []TypeOK
  <1>1. IInv => TypeOK
    BY DEF IInv
  <1> QED  BY <1>1, InductiveInvariant, PTL

\* However many responses run at once, a session has one presentation
\* evaluated at most.
THEOREM OneEvaluation == Spec => []OneEvaluationPerSession
  <1>1. IInv => OneEvaluationPerSession
    <2> SUFFICES ASSUME IInv, NEW s \in Sessions
                 PROVE  Cardinality(Evaluations(s)) <= 1
      BY DEF OneEvaluationPerSession
    <2>1. \A e, g \in Evaluations(s) : e = g
      BY DEF Evaluations, IInv, ConsumedOnce, Holds
    <2>2. CASE Evaluations(s) = {}
      BY <2>2, FS_EmptySet
    <2>3. CASE Evaluations(s) # {}
      <3>1. PICK e : Evaluations(s) = {e}
        BY <2>1, <2>3
      <3>2. Cardinality({e}) = 1
        BY FS_Singleton, Zenon
      <3> QED  BY <3>1, <3>2
    <2> QED  BY <2>2, <2>3
  <1> QED  BY <1>1, InductiveInvariant, PTL

\* A verified receipt is justified by its presentation and by one signed
\* snapshot that was fresh when the registry was asked.
THEOREM Justified == Spec => []VerifiedIsJustified
  <1>1. IInv => VerifiedIsJustified
    BY DEF IInv, ReceiptInv, Earned, InForce, Cleared, VerifiedIsJustified
  <1> QED  BY <1>1, InductiveInvariant, PTL

\* No verdict rests on a snapshot older than the one the cache held.
THEOREM NeverRolledBack == Spec => []NoRollback
  <1>1. IInv => NoRollback
    BY DEF IInv, ReceiptInv, Earned, NotOlder, AtLeast, NoRollback
  <1> QED  BY <1>1, InductiveInvariant, PTL

\* No step changes a receipt, or the receipt a session shows.
THEOREM ReceiptsAreFinal == Spec => ReceiptsStand
  <1> DEFINE Stands ==
         /\ \A rid \in DOMAIN receipts :
               rid \in DOMAIN receipts' /\ receipts'[rid] = receipts[rid]
         /\ \A s \in DOMAIN sessions :
               sessions[s].receipt # None =>
                  /\ sessions'[s].receipt = sessions[s].receipt
                  /\ receipts[sessions[s].receipt].session = s
  <1>1. ASSUME IInv, [Next]_vars
        PROVE  [Stands]_vars
    <2> USE <1>1 DEF IInv
    <2>1. \A s \in DOMAIN sessions : sessions[s].receipt # None =>
             receipts[sessions[s].receipt].session = s
      BY DEF ReceiptInv
    <2>0. ASSUME NEW rid \in Receipts, NEW s \in DOMAIN sessions, NEW receipt,
                 rid \notin DOMAIN receipts, Complete(rid, s, receipt)
          PROVE  Stands
      <3>1. /\ \A x \in DOMAIN receipts : x \in DOMAIN receipts' /\ receipts'[x] = receipts[x]
            /\ \A t \in DOMAIN sessions : sessions[t].receipt # None =>
                  sessions'[t].receipt = sessions[t].receipt
        BY <2>0, CompleteKeeps
      <3> QED  BY <2>1, <3>1
    <2>2. ASSUME NEW s \in Sessions, CreateSession(s)
          PROVE  Stands
      BY <2>1, <2>2 DEF CreateSession, Put
    <2>3. ASSUME NEW s \in DOMAIN sessions, NEW rid \in Receipts,
                 RespondExpired(s, rid)
          PROVE  Stands
      <3>1. PICK receipt : rid \notin DOMAIN receipts /\ Complete(rid, s, receipt)
        BY <2>3 DEF RespondExpired
      <3> QED  BY <2>0, <3>1
    <2>4. ASSUME NEW c \in Callers, NEW s \in DOMAIN sessions, NEW p,
                 Respond(c, s, p)
          PROVE  Stands
      <3>1. \A t \in DOMAIN sessions : sessions'[t].receipt = sessions[t].receipt
        BY <2>4 DEF Respond, TypeOK, IsMap, Session
      <3> QED  BY <2>1, <2>4, <3>1 DEF Respond
    <2>5. ASSUME NEW c \in DOMAIN responses, NEW rid \in Receipts, Finish(c, rid)
          PROVE  Stands
      <3>1. responses[c].session \in DOMAIN sessions
        BY DEF ConsumedOnce
      <3>2. PICK receipt :
                rid \notin DOMAIN receipts /\ Complete(rid, responses[c].session, receipt)
        BY <2>5 DEF Finish
      <3> QED  BY <2>0, <3>1, <3>2
    <2>6. CASE UNCHANGED <<sessions, receipts>>
      BY <2>1, <2>6
    <2> HIDE DEF Stands
    <2>7. ASSUME NEW c, NEW s, NEW wellFormed,
                 \/ RespondRefused(c, s, wellFormed) \/ Resolved(c) \/ Rejected(c)
                 \/ Evaluate(c) \/ RegistryAnswered(c)
          PROVE  UNCHANGED <<sessions, receipts>>
      <3>1. CASE RespondRefused(c, s, wellFormed)
        BY <3>1 DEF RespondRefused
      <3>2. CASE Resolved(c) \/ Rejected(c)
        BY <3>2 DEF Resolved, Rejected
      <3>3. CASE Evaluate(c) \/ RegistryAnswered(c)
        BY <3>3 DEF Evaluate, RegistryAnswered
      <3> QED  BY <2>7, <3>1, <3>2, <3>3
    <2>8. VerifierNext => Stands \/ UNCHANGED <<sessions, receipts>>
      BY <2>2, <2>3, <2>4, <2>5, <2>7, Zenon DEF VerifierNext
    <2>9. CASE RegistryNext /\ UNCHANGED <<sessions, receipts, responses>>
      BY <2>6, <2>9
    <2> QED  BY <1>1, <2>6, <2>8, <2>9 DEF Next
  <1>2. IInv /\ [Next]_vars => [Stands]_vars
    BY <1>1
  <1> QED  BY <1>2, InductiveInvariant, PTL DEF Spec, ReceiptsStand
-----------------------------------------------------------------------------
(* How far SessionShowsVerdict holds.                                      *)

\* A receipt of an evaluated presentation is the one its session shows, or the
\* session shows the rejection of a response that was not evaluated: a client
\* that queries the session may miss the verdict, but is never shown another.
ShowsVerdictOrRefusal ==
    \A rid \in DOMAIN receipts :
        LET shown == sessions[receipts[rid].session].receipt
        IN  receipts[rid].presentation # None =>
                /\ shown \in DOMAIN receipts
                /\ \/ shown = rid
                   \/ /\ receipts[shown].presentation = None
                      /\ receipts[shown].result = "rejected"

\* What was not evaluated is rejected, and a session whose evaluation is
\* finished shows a receipt.
ShownInv ==
    /\ \A c \in DOMAIN responses :
          ~Holds(responses[c]) => responses[c].result = "rejected"
    /\ \A rid \in DOMAIN receipts :
          /\ ~Holds(receipts[rid]) => receipts[rid].result = "rejected"
          /\ Holds(receipts[rid]) =>
                sessions[receipts[rid].session].receipt # None

\* Writing a receipt keeps ShownInv, if the receipt is a rejection or the
\* session it is of is consumed.
LEMMA CompleteShown ==
    ASSUME IInv, ShownInv, NEW rid \in Receipts, NEW s \in DOMAIN sessions,
           NEW receipt, rid \notin DOMAIN receipts, Complete(rid, s, receipt),
           receipt.session = s,
           ~Holds(receipt) => receipt.result = "rejected",
           Holds(receipt) => sessions[s].status = "consumed",
           \A c \in DOMAIN responses' :
              c \in DOMAIN responses /\ responses'[c] = responses[c]
    PROVE  ShownInv'
  <1>0. TypeOK
    BY DEF IInv
  <1>1. /\ DOMAIN receipts' = DOMAIN receipts \cup {rid}
        /\ receipts'[rid] = receipt
        /\ \A x \in DOMAIN receipts : receipts'[x] = receipts[x]
        /\ \A t \in DOMAIN sessions : sessions[t].receipt # None =>
              sessions'[t].receipt = sessions[t].receipt
    BY <1>0, CompleteKeeps
  <1>2. rid # None
    OBVIOUS
  <1>3. ASSUME sessions[s].status = "consumed"
        PROVE  sessions'[s].receipt # None
    <2>1. CASE sessions[s].receipt # None
      BY <1>1, <2>1
    <2>2. CASE sessions[s].receipt = None
      <3>1. sessions[s] \in Session
        BY <1>0 DEF TypeOK, IsMap
      <3>2. sessions' = [sessions EXCEPT ![s].receipt = rid]
        BY <1>3, <2>2 DEF Complete
      <3> QED  BY <1>2, <3>1, <3>2 DEF Session
    <2> QED  BY <2>1, <2>2
  <1>4. \A x \in DOMAIN receipts : receipts[x].session \in DOMAIN sessions
    BY DEF IInv, ConsumedOnce
  <1>5. ASSUME NEW x \in DOMAIN receipts'
        PROVE  /\ ~Holds(receipts'[x]) => receipts'[x].result = "rejected"
               /\ Holds(receipts'[x]) =>
                     sessions'[receipts'[x].session].receipt # None
    <2>1. CASE x = rid
      BY <1>1, <1>3, <2>1
    <2>2. CASE x \in DOMAIN receipts
      <3>1. /\ ~Holds(receipts[x]) => receipts[x].result = "rejected"
            /\ Holds(receipts[x]) =>
                  sessions[receipts[x].session].receipt # None
        BY <2>2 DEF ShownInv
      <3>2. receipts'[x] = receipts[x]
        BY <1>1, <2>2
      <3>3. sessions[receipts[x].session].receipt # None =>
               sessions'[receipts[x].session].receipt # None
        BY <1>1, <1>4, <2>2
      <3> QED  BY <3>1, <3>2, <3>3
    <2> QED  BY <1>1, <2>1, <2>2
  <1>6. \A c \in DOMAIN responses' :
           ~Holds(responses'[c]) => responses'[c].result = "rejected"
    BY DEF ShownInv
  <1> QED  BY <1>5, <1>6 DEF ShownInv

\* The receipts, and what the sessions show, stay: ShownInv is about the
\* responses.
LEMMA ResponsesShown ==
    ASSUME IInv, ShownInv, receipts' = receipts,
           \A t \in DOMAIN sessions : sessions'[t].receipt = sessions[t].receipt,
           \A c \in DOMAIN responses' :
              ~Holds(responses'[c]) => responses'[c].result = "rejected"
    PROVE  ShownInv'
  <1>1. \A x \in DOMAIN receipts : receipts[x].session \in DOMAIN sessions
    BY DEF IInv, ConsumedOnce
  <1> QED  BY <1>1 DEF ShownInv, Holds

\* Every step of the verifier keeps ShownInv.
LEMMA VerifierShown ==
    ASSUME IInv, ShownInv, VerifierNext
    PROVE  ShownInv'
  <1>0. TypeOK /\ ResponseInv /\ ConsumedOnce
    BY DEF IInv
  <1>1. ASSUME NEW s \in Sessions, CreateSession(s)
        PROVE  ShownInv'
    <2>1. \A t \in DOMAIN sessions : sessions'[t] = sessions[t]
      BY <1>1 DEF CreateSession, Put
    <2>2. UNCHANGED <<receipts, responses>>
      BY <1>1 DEF CreateSession
    <2> QED  BY <2>1, <2>2, ResponsesShown DEF ShownInv
  <1>2. ASSUME NEW s \in DOMAIN sessions, NEW rid \in Receipts,
               RespondExpired(s, rid)
        PROVE  ShownInv'
    <2> DEFINE r == [session |-> s, result |-> "rejected",
                     presentation |-> None, answer |-> None]
    <2>1. r.session = s /\ ~Holds(r) /\ r.result = "rejected"
      BY DEF Holds
    <2>2. /\ Complete(rid, s, r) /\ rid \notin DOMAIN receipts
          /\ responses' = responses
      BY <1>2 DEF RespondExpired
    <2> HIDE DEF r
    <2> QED  BY <2>1, <2>2, CompleteShown
  <1>3. ASSUME NEW c \in Callers, NEW s \in DOMAIN sessions, NEW pc, NEW p,
               ParkResponse(c, s, pc, p), receipts' = receipts,
               \A t \in DOMAIN sessions : sessions'[t].receipt = sessions[t].receipt
        PROVE  ShownInv'
    <2>1. \A d \in DOMAIN responses' :
             \/ d \in DOMAIN responses /\ responses'[d] = responses[d]
             \/ responses'[d].result = "rejected"
      BY <1>3 DEF ParkResponse, Put
    <2>2. \A d \in DOMAIN responses' :
             ~Holds(responses'[d]) => responses'[d].result = "rejected"
      BY <2>1 DEF ShownInv
    <2> QED  BY <1>3, <2>2, ResponsesShown
  <1>4. ASSUME NEW c \in Callers, NEW s \in DOMAIN sessions, NEW p,
               Respond(c, s, p)
        PROVE  ShownInv'
    <2>1. \A t \in DOMAIN sessions : sessions'[t].receipt = sessions[t].receipt
      BY <1>0, <1>4 DEF Respond, TypeOK, IsMap, Session
    <2> QED  BY <1>3, <1>4, <2>1 DEF Respond
  <1>5. ASSUME NEW c \in Callers, NEW s \in DOMAIN sessions, NEW w,
               RespondRefused(c, s, w)
        PROVE  ShownInv'
    BY <1>3, <1>5 DEF RespondRefused
  <1>6. ASSUME NEW c \in DOMAIN responses,
               Resolved(c) \/ Rejected(c) \/ Evaluate(c)
        PROVE  ShownInv'
    <2>1. PICK pc : responses' = [responses EXCEPT ![c].pc = pc]
      BY <1>6 DEF Resolved, Rejected, Reject, Evaluate
    <2>2. UNCHANGED <<sessions, receipts>>
      BY <1>6 DEF Resolved, Rejected, Evaluate
    <2>3. /\ DOMAIN responses' = DOMAIN responses
          /\ \A d \in DOMAIN responses :
                /\ Holds(responses'[d]) <=> Holds(responses[d])
                /\ responses'[d].result = responses[d].result
      BY <1>0, <2>1, MoveKeeps DEF Holds
    <2>4. \A d \in DOMAIN responses' :
             ~Holds(responses'[d]) => responses'[d].result = "rejected"
      BY <2>3 DEF ShownInv
    <2> QED  BY <2>2, <2>4, ResponsesShown
  <1>7. ASSUME NEW c \in DOMAIN responses, RegistryAnswered(c)
        PROVE  ShownInv'
    <2>1. responses[c].presentation # None
      BY <1>0, <1>7 DEF RegistryAnswered, ResponseInv
    <2>2. /\ DOMAIN responses' = DOMAIN responses
          /\ responses'[c].presentation = responses[c].presentation
          /\ \A d \in DOMAIN responses : d # c => responses'[d] = responses[d]
      BY <1>0, <1>7, ResponseFields DEF RegistryAnswered, Response
    <2>3. \A d \in DOMAIN responses' :
             ~Holds(responses'[d]) => responses'[d].result = "rejected"
      BY <2>1, <2>2 DEF ShownInv, Holds
    <2>4. UNCHANGED <<sessions, receipts>>
      BY <1>7 DEF RegistryAnswered
    <2> QED  BY <2>3, <2>4, ResponsesShown
  <1>8. ASSUME NEW c \in DOMAIN responses, NEW rid \in Receipts, Finish(c, rid)
        PROVE  ShownInv'
    <2> DEFINE r == responses[c]
               x == [session |-> r.session, result |-> r.result,
                     presentation |-> r.presentation, answer |-> r.answer]
    <2>1. x.session = r.session /\ (Holds(x) <=> Holds(r)) /\ x.result = r.result
      BY DEF Holds
    <2>2. /\ Complete(rid, r.session, x) /\ rid \notin DOMAIN receipts
          /\ responses' = Drop(responses, c)
      BY <1>8 DEF Finish
    <2>3. /\ r.session \in DOMAIN sessions
          /\ Holds(r) => sessions[r.session].status = "consumed"
      BY <1>0 DEF ConsumedOnce
    <2>4. ~Holds(r) => r.result = "rejected"
      BY DEF ShownInv
    <2>5. \A d \in DOMAIN responses' :
             d \in DOMAIN responses /\ responses'[d] = responses[d]
      BY <2>2 DEF Drop
    <2> HIDE DEF r, x
    <2> QED  BY <2>1, <2>2, <2>3, <2>4, <2>5, CompleteShown
  <1>9. ASSUME NEW c \in DOMAIN responses,
               \/ Resolved(c) \/ Rejected(c) \/ Evaluate(c) \/ RegistryAnswered(c)
               \/ \E rid \in Receipts : Finish(c, rid)
        PROVE  ShownInv'
    BY <1>6, <1>7, <1>8, <1>9
  <1> HIDE <1>6, <1>7, <1>8
  <1> QED  BY <1>1, <1>2, <1>4, <1>5, <1>9 DEF VerifierNext

\* A client that asks an ambiguous session again is shown the verdict on its
\* presentation, or the rejection of a response that was never evaluated; so
\* no verdict but the right one.
THEOREM VerdictOrRefusalShown == Spec => []ShowsVerdictOrRefusal
  <1>1. Init => ShownInv
    BY DEF Init, EmptyMap, ShownInv
  <1>2. IInv /\ ShownInv /\ [Next]_vars => ShownInv'
    <2> SUFFICES ASSUME IInv, ShownInv, [Next]_vars
                 PROVE  ShownInv'
      OBVIOUS
    <2>1. CASE VerifierNext
      BY <2>1, VerifierShown
    <2>2. CASE UNCHANGED <<sessions, receipts, responses>>
      BY <2>2 DEF ShownInv, Holds
    <2> QED  BY <2>1, <2>2 DEF Next, vars
  <1>3. IInv /\ ShownInv => ShowsVerdictOrRefusal
    <2> SUFFICES ASSUME IInv, ShownInv, NEW rid \in DOMAIN receipts, 
                        Holds(receipts[rid])
                 PROVE  LET shown == sessions[receipts[rid].session].receipt
                        IN  /\ shown \in DOMAIN receipts
                            /\ \/ shown = rid
                               \/ /\ receipts[shown].presentation = None
                                  /\ receipts[shown].result = "rejected"
      BY DEF ShowsVerdictOrRefusal, Holds
    <2> DEFINE s == receipts[rid].session
               shown == sessions[s].receipt
    <2>1. s \in DOMAIN sessions /\ shown # None
      BY DEF IInv, ConsumedOnce, ShownInv
    <2>2. shown \in DOMAIN receipts /\ receipts[shown].session = s
      BY <2>1 DEF IInv, ReceiptInv
    <2>3. Holds(receipts[shown]) => shown = rid
      BY <2>2 DEF IInv, ConsumedOnce
    <2>4. ~Holds(receipts[shown]) => receipts[shown].result = "rejected"
      BY <2>2 DEF ShownInv
    <2> QED  BY <2>2, <2>3, <2>4 DEF Holds
  <1> QED  BY <1>1, <1>2, <1>3, InductiveInvariant, PTL DEF Spec
=============================================================================
