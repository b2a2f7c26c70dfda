---------------------------- MODULE PlatformStore ----------------------------
(***************************************************************************)
(* The platform store (packages/platform-store/src/index.ts): records and  *)
(* audit events per tenant, and operations that run once per idempotency   *)
(* key, in memory or in PostgreSQL.                                        *)
(*                                                                         *)
(* `ops` holds the runIdempotent calls in progress, at most one per slot.  *)
(* The operation is a put of one record, as in the wallet service.  Over   *)
(* PostgreSQL a store has one SqlTransaction, here a connection, on which  *)
(* all its concurrent calls begin, query, commit and roll back; several    *)
(* stores share the database.  The put goes through the executor `db`,     *)
(* outside any of these transactions.                                      *)
(***************************************************************************)
EXTENDS CallSlots

CONSTANTS
    Tenants, IdempotencyKeys, Hashes,
    StoreValues,   \* entities, as [kind, id, valid, content]
    AuditEvents,
    Connections    \* the SqlTransaction of every PostgresPlatformStore

\* undefined is neither an entity nor any other object.
ASSUME StoreAssumption ==
    /\ \A v \in StoreValues : v.kind \in {"wallet", "intent"}
    /\ None \notin StoreValues
    /\ None \notin [hash : Hashes, value : StoreValues]
    /\ None \notin [hash : Hashes, value : StoreValues, settled : BOOLEAN]
    /\ None \notin [key : Tenants \X IdempotencyKeys, hash : Hashes,
                    answer : StoreValues \cup {None}, refused : BOOLEAN]

VARIABLES
    backend,       \* "memory" or "postgres", fixed
    records,       \* <<tenant, kind, id>> -> entity
    idempotency,   \* <<tenant, key>> -> [hash, value, settled]
    transactions,  \* connection -> its open transaction: rows written, aborted
    locks,         \* advisory locks: <<tenant, key>> -> connection
    audits,        \* tenant -> set of event ids
    ops

sqlVars == <<transactions, locks>>
storeVars == <<backend, records, idempotency, sqlVars, audits, ops>>

\* scopedId: the identifiers of one tenant never meet those of another.
ScopedId(t, v) == <<t, v.kind, v.id>>

\* An entity the store accepts from a tenant: entityParsers and keyPattern.
Acceptable(v) == v.valid

\* shared: history, another call was in progress on the same connection.
Operation ==
    [tenant : Tenants, key : IdempotencyKeys, hash : Hashes, value : StoreValues,
     pc : {"joined", "put", "written", "failing", "lock", "select", "insert",
           "commit", "rollback", "settled", "answered", "refused"},
     connection : Connections \cup {None}, shared : BOOLEAN]

Outcomes == [hash : Hashes, value : StoreValues, settled : BOOLEAN]

StoreInit ==
    /\ backend \in {"memory", "postgres"}
    /\ records = EmptyMap /\ idempotency = EmptyMap
    /\ transactions = EmptyMap /\ locks = EmptyMap
    /\ audits = [t \in Tenants |-> {}]
    /\ ops = EmptyMap

KeyOf(o) == <<o.tenant, o.key>>

At(k, pc) == k \in DOMAIN ops /\ ops[k].pc = pc

Goto(k, pc) == ops' = [ops EXCEPT ![k].pc = pc]

WriteRecord(t, v) == records' = Put(records, ScopedId(t, v), v)

\* The call has been answered or refused and its caller goes on.
EndOperation(k) ==
    /\ k \in DOMAIN ops /\ ops[k].pc \in {"answered", "refused"}
    /\ ops' = Drop(ops, k)
-----------------------------------------------------------------------------
(* InMemoryPlatformStore                                                   *)

\* Mutant of FirstAwait: the request of the existing record is not compared.
FirstAwaitAnyRequest(existing, h, v) ==
    IF existing # None THEN "joined"
    ELSE IF ~Acceptable(v) THEN "failing"
    ELSE IF v.kind = "wallet" THEN "written" ELSE "put"

\* Where runIdempotent stands at its first await.  An operation that is not
\* joined has been started: the put of a wallet has written it already, that
\* of an intent still checks the tenant of its wallet.
FirstAwait(existing, h, v) ==
    IF existing # None
    THEN IF existing.hash = h THEN "joined" ELSE "refused"
    ELSE IF ~Acceptable(v) THEN "failing"
    ELSE IF v.kind = "wallet" THEN "written" ELSE "put"

RunInMemory(k, t, key, h, v) ==
    LET x == <<t, key>>
        existing == IF x \in DOMAIN idempotency THEN idempotency[x] ELSE None
        pc == FirstAwait(existing, h, v)
    IN  /\ backend = "memory" /\ k \notin DOMAIN ops
        /\ ops' = Put(ops, k, [tenant |-> t, key |-> key, hash |-> h,
                               value |-> v, pc |-> pc,
                               connection |-> None, shared |-> FALSE])
        /\ idempotency' = IF existing = None
              THEN Put(idempotency, x, [hash |-> h, value |-> v, settled |-> FALSE])
              ELSE idempotency
        /\ IF pc = "written" THEN WriteRecord(t, v) ELSE UNCHANGED records
        /\ UNCHANGED <<backend, sqlVars, audits>>

PutInMemory(k) ==
    /\ backend = "memory" /\ At(k, "put")
    /\ WriteRecord(ops[k].tenant, ops[k].value)
    /\ Goto(k, "written")
    /\ UNCHANGED <<backend, idempotency, sqlVars, audits>>

\* The operation's promise is fulfilled: for its caller and those that joined.
SettleInMemory(k) ==
    /\ backend = "memory" /\ At(k, "written")
    /\ idempotency' = [idempotency EXCEPT ![KeyOf(ops[k])].settled = TRUE]
    /\ Goto(k, "settled")
    /\ UNCHANGED <<backend, records, sqlVars, audits>>

JoinedBy(k) == {j \in DOMAIN ops : At(j, "joined") /\ KeyOf(ops[j]) = KeyOf(ops[k])}

\* It is rejected: the key is forgotten and everyone who joined fails as well.
FailInMemory(k) ==
    /\ backend = "memory" /\ At(k, "failing")
    /\ idempotency' = Drop(idempotency, KeyOf(ops[k]))
    /\ ops' = [j \in DOMAIN ops |->
                  IF j = k \/ j \in JoinedBy(k)
                  THEN [ops[j] EXCEPT !.pc = "refused"] ELSE ops[j]]
    /\ UNCHANGED <<backend, records, sqlVars, audits>>

AnswerJoined(k) ==
    /\ backend = "memory" /\ At(k, "joined")
    /\ KeyOf(ops[k]) \in DOMAIN idempotency /\ idempotency[KeyOf(ops[k])].settled
    /\ Goto(k, "answered")
    /\ UNCHANGED <<backend, records, idempotency, sqlVars, audits>>
-----------------------------------------------------------------------------
(* PostgresPlatformStore                                                   *)

Opened(c) == c \in DOMAIN transactions
Aborted(c) == Opened(c) /\ transactions[c].aborted
Rows(c) == IF Opened(c) THEN transactions[c].rows ELSE EmptyMap

\* BEGIN; within a transaction it does nothing but warn.
Begin(c) ==
    transactions' = IF Opened(c) THEN transactions
                    ELSE Put(transactions, c, [rows |-> EmptyMap, aborted |-> FALSE])

Unlock(c) == locks' = [x \in {y \in DOMAIN locks : locks[y] # c} |-> locks[x]]

\* A statement that the server refuses undoes what the transaction has done;
\* it stays open, and refuses all but its end.
Abort(c) ==
    /\ Opened(c)
    /\ transactions' = [transactions EXCEPT
           ![c] = [rows |-> EmptyMap, aborted |-> TRUE]]
    /\ Unlock(c)

EndTransaction(c) == transactions' = Drop(transactions, c) /\ Unlock(c)

InProgress(c) ==
    {j \in DOMAIN ops : /\ ops[j].connection = c
                       /\ ops[j].pc \notin {"answered", "refused"}}

\* BEGIN joins the transaction that other calls have open.  When it throws,
\* with effect or without, nothing is rolled back.
RunInPostgres(k, t, key, h, v) ==
    \E c \in Connections :
        LET others == InProgress(c)
            op(pc) == [tenant |-> t, key |-> key, hash |-> h, value |-> v, pc |-> pc,
                       connection |-> c, shared |-> others # {}]
        IN  /\ backend = "postgres" /\ k \notin DOMAIN ops
            /\ \/ /\ ~Aborted(c) /\ Begin(c)
                  /\ ops' = Put([j \in DOMAIN ops |->
                                    IF j \in others
                                    THEN [ops[j] EXCEPT !.shared = TRUE] ELSE ops[j]],
                                k, op("lock"))
               \/ /\ Begin(c) \/ UNCHANGED transactions
                  /\ ops' = Put(ops, k, op("refused"))
            /\ UNCHANGED <<backend, records, idempotency, locks, audits>>

\* pg_advisory_xact_lock waits for the transaction that holds the lock, unless
\* that is its own; without one it holds nothing.
Locked(k) ==
    LET x == KeyOf(ops[k])
        c == ops[k].connection
    IN  /\ At(k, "lock") /\ ~Aborted(c)
        /\ x \in DOMAIN locks => locks[x] = c
        /\ locks' = IF Opened(c) THEN Put(locks, x, c) ELSE locks
        /\ Goto(k, "select")
        /\ UNCHANGED <<backend, records, idempotency, transactions, audits>>

\* What the connection c sees under a key.
Stored(c, x) ==
    IF x \in DOMAIN idempotency THEN idempotency[x]
    ELSE IF x \in DOMAIN Rows(c) THEN Rows(c)[x] ELSE None

\* The row, if there is one, answers the call or refuses it.
Selected(k) ==
    LET found == Stored(ops[k].connection, KeyOf(ops[k]))
    IN  /\ At(k, "select") /\ ~Aborted(ops[k].connection)
        /\ Goto(k, IF found = None THEN "put"
                   ELSE IF found.hash = ops[k].hash THEN "commit" ELSE "rollback")
        /\ UNCHANGED <<backend, records, idempotency, sqlVars, audits>>

PutInPostgres(k) ==
    /\ backend = "postgres" /\ At(k, "put") /\ Acceptable(ops[k].value)
    /\ WriteRecord(ops[k].tenant, ops[k].value)
    /\ Goto(k, "insert")
    /\ UNCHANGED <<backend, idempotency, sqlVars, audits>>

\* The primary key refuses a second row, and waits for a transaction that may
\* still commit one.  Without a transaction the row is there for good.
Inserted(k) ==
    LET x == KeyOf(ops[k])
        c == ops[k].connection
        row == [hash |-> ops[k].hash, value |-> ops[k].value, settled |-> TRUE]
    IN  /\ At(k, "insert") /\ ~Aborted(c)
        /\ x \notin DOMAIN idempotency
        /\ \A d \in DOMAIN transactions : x \notin DOMAIN transactions[d].rows
        /\ IF Opened(c)
           THEN /\ transactions' = [transactions EXCEPT
                       ![c] = [rows |-> Put(Rows(c), x, row), aborted |-> FALSE]]
                /\ UNCHANGED idempotency
           ELSE /\ idempotency' = Put(idempotency, x, row)
                /\ UNCHANGED transactions
        /\ Goto(k, "commit")
        /\ UNCHANGED <<backend, records, locks, audits>>

\* COMMIT publishes every row of the transaction, whichever call wrote it.  It
\* succeeds as well when the transaction was aborted or is no longer open.
Committed(k) ==
    LET c == ops[k].connection
        rows == Rows(c)
    IN  /\ At(k, "commit")
        /\ idempotency' = [x \in DOMAIN idempotency \cup DOMAIN rows |->
                              IF x \in DOMAIN rows THEN rows[x] ELSE idempotency[x]]
        /\ EndTransaction(c)
        /\ Goto(k, "settled")
        /\ UNCHANGED <<backend, records, audits>>

AnswerSettled(k) ==
    /\ At(k, "settled")
    /\ Goto(k, "answered")
    /\ UNCHANGED <<backend, records, idempotency, sqlVars, audits>>

\* A statement or the operation throws, or the process crashes: what the put
\* wrote stays.  At "settled" COMMIT was done and only its answer is lost.
StatementFails(k) ==
    /\ backend = "postgres" /\ k \in DOMAIN ops
    /\ ops[k].pc \in {"lock", "select", "put", "insert", "commit", "settled"}
    /\ \/ ops[k].pc \in {"lock", "select", "insert"} /\ Abort(ops[k].connection)
       \/ UNCHANGED sqlVars
    /\ Goto(k, "rollback")
    /\ UNCHANGED <<backend, records, idempotency, audits>>

\* ROLLBACK ends the transaction of the connection, whoever wrote in it.  One
\* that throws has lost the connection and ends the transaction with it.
RolledBack(k) ==
    /\ At(k, "rollback")
    /\ EndTransaction(ops[k].connection)
    /\ Goto(k, "refused")
    /\ UNCHANGED <<backend, records, idempotency, audits>>
-----------------------------------------------------------------------------
RunIdempotent(k, t, key, h, v) ==
    RunInMemory(k, t, key, h, v) \/ RunInPostgres(k, t, key, h, v)

StoreStep(k) ==
    \/ PutInMemory(k) \/ SettleInMemory(k) \/ FailInMemory(k) \/ AnswerJoined(k)
    \/ Locked(k) \/ Selected(k) \/ PutInPostgres(k) \/ Inserted(k)
    \/ Committed(k) \/ AnswerSettled(k) \/ StatementFails(k) \/ RolledBack(k)

\* redactAuditEvent refuses events whose metadata or resource look sensitive;
\* that is up to the text of the identifiers.
RedactionAccepts == BOOLEAN

\* appendAudit: an event id is stored once per tenant.
AppendAudit(t, e, accepted) ==
    audits' = [audits EXCEPT ![t] = IF accepted THEN @ \cup {e} ELSE @]

GetRecord(t, kind, id) ==
    IF <<t, kind, id>> \in DOMAIN records THEN records[<<t, kind, id>>] ELSE None

StoreTypeOK ==
    /\ backend \in {"memory", "postgres"}
    /\ IsMap(records, Tenants \X {"wallet", "intent"} \X {v.id : v \in StoreValues},
             StoreValues)
    /\ IsMap(idempotency, Tenants \X IdempotencyKeys, Outcomes)
    /\ DOMAIN transactions \subseteq Connections
    /\ \A c \in DOMAIN transactions :
          /\ IsMap(transactions[c].rows, Tenants \X IdempotencyKeys, Outcomes)
          /\ transactions[c].aborted \in BOOLEAN
    /\ IsMap(locks, Tenants \X IdempotencyKeys, Connections)
    /\ audits \in [Tenants -> SUBSET AuditEvents]
    /\ IsMap(ops, Slots, Operation)
-----------------------------------------------------------------------------
(* The promise, and the mapping that shows it kept.                        *)

TenantKeys == Tenants \X IdempotencyKeys

SettledOutcome ==
    [x \in TenantKeys |->
        IF x \in DOMAIN idempotency /\ idempotency[x].settled
        THEN [hash |-> idempotency[x].hash, value |-> idempotency[x].value]
        ELSE None]

\* A caller of the memory store is answered with what its promise holds, one of
\* PostgreSQL with the response of the row.  A call that shared its connection
\* with another is promised nothing: its answer counts as a refusal.
AskedBySlot ==
    [s \in Slots |->
        IF s \notin DOMAIN ops THEN None
        ELSE [key |-> KeyOf(ops[s]), hash |-> ops[s].hash,
              answer |-> IF ops[s].pc = "answered" /\ ~ops[s].shared
                         THEN idempotency[KeyOf(ops[s])].value ELSE None,
              refused |-> \/ ops[s].pc = "refused"
                          \/ ops[s].pc = "answered" /\ ops[s].shared]]

Promise == INSTANCE IdempotentStore
    WITH Keys <- TenantKeys, Values <- StoreValues,
         outcome <- SettledOutcome, asked <- AskedBySlot
=============================================================================
