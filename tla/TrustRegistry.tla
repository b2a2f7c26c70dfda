---------------------------- MODULE TrustRegistry ----------------------------
(***************************************************************************)
(* SignedSnapshotCache (packages/trust-registry/src/index.ts) for one      *)
(* tenant and jurisdiction: the newest signed snapshot it has seen, looked *)
(* up, refreshed and primed by concurrent calls, and what a snapshot says  *)
(* about an issuer, its schema, its key and a credential's status.         *)
(*                                                                         *)
(* `now` counts milliseconds; snapshots, keys and credentials are dated in *)
(* seconds, as the verifier asks for them.  A lookup captures its time     *)
(* before it awaits the source and the signature check, which park it in   *)
(* `lookups`; its caller finds the decision in `answers`.                  *)
(***************************************************************************)
EXTENDS FiniteSets, JsMap

CONSTANTS
    Contents,      \* what a snapshot may say, see Content
    Lifetimes,     \* lifetimes the publisher gives a snapshot, in seconds
    Callers,       \* slots for concurrent evaluateCredential calls
    Maintainers,   \* slots for concurrent refresh and prime calls
    Second,        \* milliseconds in a second
    MaxTime,       \* bound of the clock
    MaxSequence, MaxPublished,   \* bounds of the publisher
    None           \* no snapshot, or no upper bound

Standings == {"active", "suspended", "revoked", "unknown"}

KeyAuthorization ==
    [status : {"active", "retired", "revoked", "unknown"},
     from : Nat, until : Nat \cup {None}]

\* parseKey: a key's interval is not empty, and a retired key's has an end.
KeyWellFormed(key) ==
    /\ key.until # None => key.from < key.until
    /\ key.status = "retired" => key.until # None

\* validateRelations: only a listed issuer has statuses; schemas and keys are
\* part of the issuer's entry.
RelationsHold(content) ==
    content.issuer = "unknown" =>
        content.schema = "unknown" /\ content.key.status = "unknown"
            /\ content.status = "unknown"

\* The entries for the issuer, schema, key and status id asked for; one that
\* is not in the snapshot is "unknown".  parseUnsigned lets no other pass,
\* where a snapshot is signed and where it is loaded.
Content ==
    {c \in [issuer : Standings, schema : Standings, key : KeyAuthorization,
            status : {"valid", "suspended", "revoked", "unknown"}] :
        KeyWellFormed(c.key) /\ RelationsHold(c)}

Snapshot == [sequence : 1..MaxSequence, issuedAt : Nat, expiresAt : Nat,
             content : Contents]

ASSUME RegistryAssumption ==
    /\ None \notin Snapshot
    /\ Contents \subseteq Content
    /\ Callers \cap Maintainers = {}
    /\ Lifetimes \subseteq Nat \ {0}
    /\ Second \in Nat \ {0} /\ MaxTime \in Nat
    /\ MaxSequence \in Nat /\ MaxPublished \in Nat

VARIABLES
    now,        \* the clock
    published,  \* external: every snapshot the registry's operator signed
    entry,      \* the cache entry of the scope
    lookups,    \* calls parked at an await
    answers     \* decisions not yet taken up by their caller

registryVars == <<now, published, entry, lookups, answers>>
-----------------------------------------------------------------------------
Decisions == {"verified", "rejected", "indeterminate"}

\* stored is a history field: the entry when the caller asked, unless the
\* scope was invalidated since.
Lookup == [kind : {"credential", "refresh", "prime"},
           pc : {"load", "verify"}, at : Nat, issuedAt : Nat,
           value : Snapshot \cup {None}, stored : Snapshot \cup {None}]

\* at, issuedAt and stored are history fields, copied from the lookup.
Answer == [decision : Decisions, snapshot : Snapshot \cup {None}, at : Nat,
           issuedAt : Nat, stored : Snapshot \cup {None}]

RegistryInit ==
    /\ now = 0 /\ published = {} /\ entry = None
    /\ lookups = EmptyMap /\ answers = EmptyMap

Clock == now \div Second
-----------------------------------------------------------------------------
(* What a snapshot says: evaluateTrustSnapshot and evaluateStatusSnapshot. *)

Fresh(s, at) == s.issuedAt <= at /\ at < s.expiresAt

\* A check counts only when the one before it has no objection.
Then(first, second) == IF first = "verified" THEN second ELSE first

Freshness(s, at) == IF Fresh(s, at) THEN "verified" ELSE "indeterminate"

Standing(status) ==
    CASE status \in {"active", "valid"}      -> "verified"
      [] status \in {"suspended", "revoked"} -> "rejected"
      [] status = "unknown"                  -> "indeterminate"

\* A retired key stays good for what was issued while it was authorised.
KeyDecision(key, issuedAt) ==
    IF key.status = "unknown" THEN "indeterminate"
    ELSE IF \/ key.status = "revoked" \/ issuedAt < key.from
            \/ key.until # None /\ issuedAt >= key.until
    THEN "rejected"
    ELSE "verified"

EvaluateTrustSnapshot(s, at, issuedAt) ==
    Then(Freshness(s, at),
    Then(Standing(s.content.issuer),
    Then(Standing(s.content.schema), KeyDecision(s.content.key, issuedAt))))

EvaluateStatusSnapshot(s, at) ==
    Then(Freshness(s, at),
    Then(Standing(s.content.issuer), Standing(s.content.status)))

EvaluateCredential(s, at, issuedAt) ==
    Then(EvaluateTrustSnapshot(s, at, issuedAt), EvaluateStatusSnapshot(s, at))
-----------------------------------------------------------------------------
Tick ==
    /\ now < MaxTime
    /\ now' = now + 1
    /\ UNCHANGED <<published, entry, lookups, answers>>

\* External.  The operator signs snapshots with increasing sequence numbers,
\* or by mistake two different ones with the same number.
Publish(n, lifetime, content) ==
    /\ Cardinality(published) < MaxPublished
    /\ \A s \in published : s.sequence <= n
    /\ published' = published \cup
          {[sequence |-> n, issuedAt |-> Clock, expiresAt |-> Clock + lifetime,
            content |-> content]}
    /\ UNCHANGED <<now, entry, lookups, answers>>

\* Mutant of Storable: any snapshot whose signature is good replaces the entry.
StorableAlways(s) == s \in published

\* No rollback, and no second snapshot with the sequence number of the entry.
Storable(s) ==
    entry # None => s = entry \/ s.sequence > entry.sequence

Reply(c, decision, s, at, issuedAt, stored) ==
    answers' = Put(answers, c,
        [decision |-> decision, snapshot |-> s, at |-> at,
         issuedAt |-> issuedAt, stored |-> stored])

Park(c, kind, pc, issuedAt, value) ==
    lookups' = Put(lookups, c,
        [kind |-> kind, pc |-> pc, at |-> Clock, issuedAt |-> issuedAt,
         value |-> value, stored |-> entry])

Idle(c) == c \notin DOMAIN lookups \cup DOMAIN answers

\* evaluateCredential: a fresh entry answers at once, also offline.
AskCredential(c, issuedAt) ==
    /\ Idle(c)
    /\ IF entry # None /\ Fresh(entry, Clock)
       THEN /\ Reply(c, EvaluateCredential(entry, Clock, issuedAt), entry,
                     Clock, issuedAt, entry)
            /\ UNCHANGED lookups
       ELSE /\ Park(c, "credential", "load", issuedAt, None)
            /\ UNCHANGED answers
    /\ UNCHANGED <<now, published, entry>>

\* refresh asks the source whatever the entry is.  evaluateTrust and
\* evaluateStatus on an entry that is not fresh change the cache alike.
Refresh(c) ==
    /\ Idle(c)
    /\ Park(c, "refresh", "load", 0, None)
    /\ UNCHANGED <<now, published, entry, answers>>

\* prime is handed a snapshot.
Prime(c, s) ==
    /\ Idle(c)
    /\ Park(c, "prime", "verify", 0, s)
    /\ UNCHANGED <<now, published, entry, answers>>

\* The scope is forgotten, and with it the sequence number seen.
Invalidate ==
    /\ entry # None
    /\ entry' = None
    /\ lookups' = [c \in DOMAIN lookups |-> [lookups[c] EXCEPT !.stored = None]]
    /\ UNCHANGED <<now, published, answers>>

\* The source may lag: it serves any snapshot that was ever signed.
Loaded(c, s) ==
    /\ lookups[c].pc = "load"
    /\ lookups' = [lookups EXCEPT ![c].pc = "verify", ![c].value = s]
    /\ UNCHANGED <<now, published, entry, answers>>

\* The call ends; only an evaluation has a caller that reads the decision.
EndLookup(c, decision, s) ==
    /\ lookups' = Drop(lookups, c)
    /\ IF lookups[c].kind = "credential"
       THEN Reply(c, decision, s, lookups[c].at, lookups[c].issuedAt,
                  lookups[c].stored)
       ELSE UNCHANGED answers

\* Unavailable, missing, not verifiable, stale or refused by the store.
LookupFailed(c) ==
    /\ EndLookup(c, "indeterminate", None)
    /\ UNCHANGED <<now, published, entry>>

\* A lookup judges the snapshot by the time it captured, prime by the time
\* the signature check took it to.
JudgedAt(c) == IF lookups[c].kind = "prime" THEN Clock ELSE lookups[c].at

LookupVerified(c) ==
    LET l == lookups[c]
    IN  /\ l.pc = "verify"
        /\ Fresh(l.value, JudgedAt(c))
        /\ Storable(l.value)
        /\ entry' = l.value
        /\ EndLookup(c, EvaluateCredential(l.value, l.at, l.issuedAt), l.value)
        /\ UNCHANGED <<now, published>>

RegistryNext ==
    \/ Tick
    \/ \E n \in 1..MaxSequence, lifetime \in Lifetimes, content \in Contents :
          Publish(n, lifetime, content)
    \/ \E c \in Maintainers : Refresh(c) \/ \E s \in published : Prime(c, s)
    \/ Invalidate
    \/ \E c \in DOMAIN lookups :
          \/ \E s \in published : Loaded(c, s)
          \/ LookupFailed(c)
          \/ LookupVerified(c)
-----------------------------------------------------------------------------
RegistryTypeOK ==
    /\ now \in Nat
    /\ published \subseteq Snapshot
    /\ entry \in Snapshot \cup {None}
    /\ IsMap(lookups, Callers \cup Maintainers, Lookup)
    /\ IsMap(answers, Callers \cup Maintainers, Answer)
=============================================================================
