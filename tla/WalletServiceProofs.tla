------------------------- MODULE WalletServiceProofs -------------------------
(***************************************************************************)
(* Proofs about WalletService: the store implements IdempotentStore, the   *)
(* signer policy keeps its limits, and the intents stored are the ones the *)
(* policy allowed.                                                         *)
(***************************************************************************)
EXTENDS WalletService, FiniteSetTheorems, JsMapTheorems, TLAPS

ServiceRequest ==
    [caller : Callers, key : IdempotencyKeys, body : Bodies,
     pc : {"wallet", "authorize", "run", "running", "audit", "done"}]
ActionRequest == [action : Actions, pc : {"simulate", "authorizeAction", "done"}]

AskedRequests == {PolicyRequest(c, b) : c \in Callers, b \in Bodies} \cup Actions

Auth ==
    [req : AskedRequests, at : Nat,
     pc : {"session", "sessionRevoked", "policy", "policyRevoked", "stepUp", "reserve",
           "allowed", "denied"},
     session : SessionValues \cup {None}, policy : PolicyValues \cup {None},
     revoked : BOOLEAN]

Typed ==
    /\ WalletTypeOK
    /\ IsMap(requests, Slots, ServiceRequest \cup ActionRequest)
    /\ IsMap(auths, Slots, Auth)

\* The key of x is settled for the request of the operation o.
SettledFor(o) ==
    /\ KeyOf(o) \in DOMAIN idempotency /\ idempotency[KeyOf(o)].settled
    /\ idempotency[KeyOf(o)].hash = o.hash

\* In memory the key of an operation in progress has one leader, and its callers
\* wait for the outcome of their own request.
MemoryOp(k) ==
    LET x == KeyOf(ops[k])
    IN  /\ ~ops[k].shared
        /\ ops[k].pc \notin {"lock", "select", "insert", "commit", "rollback"}
        /\ ops[k].pc \in {"joined", "put", "written", "failing"} =>
              /\ x \in DOMAIN idempotency
              /\ idempotency[x].hash = ops[k].hash
        /\ ops[k].pc \in {"put", "written", "failing"} =>
              /\ ~idempotency[x].settled
              /\ \A j \in DOMAIN ops :
                    /\ ops[j].pc \in {"put", "written", "failing"}
                    /\ KeyOf(ops[j]) = x
                    => j = k

Ended(k) == ops[k].pc \in {"answered", "refused"}

\* The key is settled for the request of k, or will be with its transaction.
Held(k) ==
    \/ SettledFor(ops[k])
    \/ /\ KeyOf(ops[k]) \in DOMAIN Rows(ops[k].connection)
       /\ Rows(ops[k].connection)[KeyOf(ops[k])].hash = ops[k].hash

\* A call that has shared its connection with no other is alone on it, and finds
\* at its COMMIT what it selected or inserted.
PostgresOp(k) ==
    /\ ops[k].connection \in Connections
    /\ ops[k].pc \notin {"joined", "written", "failing"}
    /\ ~ops[k].shared /\ ~Ended(k) =>
          /\ \A j \in DOMAIN ops :
                ops[j].connection = ops[k].connection /\ ~Ended(j) => j = k
          /\ ops[k].pc = "commit" => Held(k)

\* A row that is not committed is the only one of its key, and the call that
\* inserted it has still to end the transaction.
RowInv(c, x) ==
    /\ x \notin DOMAIN idempotency /\ Rows(c)[x].settled
    /\ \A d \in Connections : x \in DOMAIN Rows(d) => d = c
    /\ \E k \in DOMAIN ops :
          /\ ops[k].connection = c /\ ops[k].pc \in {"commit", "rollback"}
          /\ KeyOf(ops[k]) = x /\ ops[k].hash = Rows(c)[x].hash

\* An operation that succeeded, alone on its connection, has settled its key.
StoreInv ==
    /\ \A k \in DOMAIN ops :
          ops[k].pc \in {"settled", "answered"} /\ ~ops[k].shared => SettledFor(ops[k])
    /\ backend = "memory" => \A k \in DOMAIN ops : MemoryOp(k)
    /\ backend = "postgres" =>
          /\ \A x \in DOMAIN idempotency : idempotency[x].settled
          /\ \A k \in DOMAIN ops : PostgresOp(k)
          /\ \A c \in Connections : \A x \in DOMAIN Rows(c) : RowInv(c, x)

\* The policies in use are valid.
PolicyInv ==
    /\ \A i \in DOMAIN policies : policies[i].windowSeconds >= 1
    /\ \A k \in DOMAIN auths :
          auths[k].pc \in {"policyRevoked", "stepUp", "reserve"} =>
              auths[k].policy \in PolicyValues /\ auths[k].policy.windowSeconds >= 1

\* Revocations are found where they are looked for.
RevokedInv ==
    /\ RevocationStopsRequests
    /\ \A k \in DOMAIN auths :
          auths[k].revoked =>
              /\ auths[k].pc \in {"session", "sessionRevoked"} =>
                    \/ auths[k].req.session \in revokedSessions
                    \/ auths[k].req.policy \in revokedPolicies
              /\ auths[k].pc \in {"policy", "policyRevoked"} =>
                    auths[k].req.policy \in revokedPolicies
              /\ auths[k].pc \notin {"stepUp", "reserve", "allowed"}

Window(rs, f, start) == {s \in rs : s.key = f /\ s.start = start}

Orderly(rs, f) == \A s \in rs : s.key = f => ~s.late

\* The usage of a key counts the reservations of its last window.
UsageInv ==
    /\ IsFiniteSet(reservations)
    /\ \A r \in reservations :
          /\ r.req.id \in consumedRequestIds /\ r.start \in Int
          /\ r.key \in DOMAIN usage
    /\ \A f \in DOMAIN usage :
          /\ usage[f].count \in Nat /\ usage[f].windowStart \in Int
          /\ Orderly(reservations, f) =>
                /\ \E r \in reservations : r.key = f /\ r.start = usage[f].windowStart
                /\ \A r \in reservations : r.key = f => r.start <= usage[f].windowStart
                /\ Cardinality(Window(reservations, f, usage[f].windowStart)) = usage[f].count

\* A request, its authorisation and its operation are about the same thing.
LinkInv ==
    \A k \in DOMAIN requests :
        LET q == requests[k]
        IN  /\ q.pc \in {"wallet", "authorize"} => q.body.entity.kind = "intent"
            /\ q.pc = "authorize" => auths[k].req = PolicyRequest(q.caller, q.body)
            /\ q.pc = "running" => /\ ops[k].tenant = q.caller.tenant
                                   /\ ops[k].value = q.body.entity

\* A transaction that was allowed and may still be written.
MayWrite(k) ==
    \/ RequestAt(k, "authorize") /\ AuthAt(k, "allowed")
    \/ /\ k \in DOMAIN requests /\ requests[k].pc \in {"run", "running"}
       /\ requests[k].body.entity.kind = "intent"
       /\ requests[k].pc = "running" => ops[k].pc \in {"lock", "select", "put"}

Authorised(id, content, tenant) ==
    \E r \in reservations :
        /\ r.req.id = id /\ r.req.content = content
        /\ \E c \in Callers : c.tenant = tenant /\ c.session = r.req.session

\* What may be written was authorised, by nothing else, and is not there yet.
GrantInv ==
    \A k \in DOMAIN requests : MayWrite(k) =>
        LET b == requests[k].body
        IN  /\ Authorised(b.entity.id, b.entity.content, requests[k].caller.tenant)
            /\ \A j \in DOMAIN requests :
                  MayWrite(j) /\ requests[j].body.entity.id = b.entity.id => j = k
            /\ \A x \in DOMAIN records : x[2] = "intent" => x[3] # b.entity.id

IInv == Typed /\ StoreInv /\ PolicyInv /\ RevokedInv /\ UsageInv /\ WindowsHold
        /\ LinkInv /\ GrantInv /\ IntentsAreAuthorised
-----------------------------------------------------------------------------
(* The store.                                                              *)

StoreOK == StoreTypeOK /\ StoreInv

TransactionsOK ==
    /\ DOMAIN transactions \subseteq Connections
    /\ \A c \in DOMAIN transactions :
          /\ IsMap(transactions[c].rows, TenantKeys, Outcomes)
          /\ transactions[c].aborted \in BOOLEAN

\* The places of a call.
OpPcs == {"joined", "put", "written", "failing", "lock", "select", "insert", "commit",
          "rollback", "settled", "answered", "refused"}

\* The fields of an operation in progress.
LEMMA OpFields ==
    ASSUME StoreTypeOK, NEW k \in DOMAIN ops
    PROVE  k \in Slots /\ ops[k] \in Operation /\ KeyOf(ops[k]) \in TenantKeys
  BY DEF StoreTypeOK, IsMap, Operation, KeyOf, TenantKeys

\* An operation that moves on changes nothing but its place.
LEMMA GotoKeeps ==
    ASSUME StoreTypeOK, NEW k \in DOMAIN ops, NEW pc \in OpPcs, Goto(k, pc)
    PROVE  /\ IsMap(ops, Slots, Operation)'
           /\ DOMAIN ops' = DOMAIN ops
           /\ ops'[k].pc = pc
           /\ \A j \in DOMAIN ops : j # k => ops'[j] = ops[j]
           /\ \A j \in DOMAIN ops :
                 /\ KeyOf(ops'[j]) = KeyOf(ops[j]) /\ ops'[j].hash = ops[j].hash
                 /\ ops'[j].value = ops[j].value /\ ops'[j].tenant = ops[j].tenant
                 /\ ops'[j].connection = ops[j].connection
                 /\ ops'[j].shared = ops[j].shared
  <1> DEFINE o == [ops[k] EXCEPT !.pc = pc]
  <1>1. IsMap(ops, Slots, Operation) /\ ops[k] \in Operation
    BY OpFields DEF StoreTypeOK
  <1>2. /\ o \in Operation /\ o.pc = pc /\ o.tenant = ops[k].tenant /\ o.key = ops[k].key
        /\ o.hash = ops[k].hash /\ o.value = ops[k].value
        /\ o.connection = ops[k].connection /\ o.shared = ops[k].shared
    BY <1>1 DEF Operation, OpPcs
  <1>3. ops' = [ops EXCEPT ![k] = o]
    BY DEF Goto
  <1> HIDE DEF o
  <1>4. IsMap([ops EXCEPT ![k] = o], Slots, Operation)
    BY <1>1, <1>2, UpdateType
  <1>5. /\ DOMAIN ops' = DOMAIN ops /\ ops'[k] = o
        /\ \A j \in DOMAIN ops : j # k => ops'[j] = ops[j]
    BY <1>1, <1>3 DEF IsMap
  <1> QED  BY <1>2, <1>3, <1>4, <1>5 DEF KeyOf

\* A key that is settled stays as it is.
LEMMA SettleTyped ==
    ASSUME StoreTypeOK, NEW x \in DOMAIN idempotency,
           idempotency' = [idempotency EXCEPT ![x].settled = TRUE]
    PROVE  /\ IsMap(idempotency, TenantKeys, Outcomes)'
           /\ DOMAIN idempotency' = DOMAIN idempotency
           /\ idempotency'[x].settled
           /\ \A y \in DOMAIN idempotency :
                 /\ idempotency'[y].hash = idempotency[y].hash
                 /\ idempotency'[y].value = idempotency[y].value
                 /\ y # x => idempotency'[y] = idempotency[y]
  <1> DEFINE o == [idempotency[x] EXCEPT !.settled = TRUE]
  <1>1. IsMap(idempotency, TenantKeys, Outcomes) /\ idempotency[x] \in Outcomes
    BY DEF StoreTypeOK, IsMap, TenantKeys, Outcomes
  <1>2. /\ o \in Outcomes /\ o.settled /\ o.hash = idempotency[x].hash
        /\ o.value = idempotency[x].value
    BY <1>1 DEF Outcomes
  <1>3. idempotency' = [idempotency EXCEPT ![x] = o]
    OBVIOUS
  <1> HIDE DEF o
  <1>4. IsMap([idempotency EXCEPT ![x] = o], TenantKeys, Outcomes)
    BY <1>1, <1>2, UpdateType
  <1>5. /\ DOMAIN idempotency' = DOMAIN idempotency /\ idempotency'[x] = o
        /\ \A y \in DOMAIN idempotency : y # x => idempotency'[y] = idempotency[y]
    BY <1>1, <1>3 DEF IsMap
  <1> QED  BY <1>2, <1>3, <1>4, <1>5

\* put stores an entity under its tenant, kind and id.
LEMMA WriteTyped ==
    ASSUME StoreTypeOK, NEW t \in Tenants, NEW v \in StoreValues, WriteRecord(t, v)
    PROVE  /\ IsMap(records, Tenants \X {"wallet", "intent"} \X {w.id : w \in StoreValues},
                    StoreValues)'
           /\ DOMAIN records' = DOMAIN records \cup {<<t, v.kind, v.id>>}
           /\ records'[<<t, v.kind, v.id>>] = v
           /\ \A x \in DOMAIN records : x # <<t, v.kind, v.id>> => records'[x] = records[x]
  <1> DEFINE K == Tenants \X {"wallet", "intent"} \X {w.id : w \in StoreValues}
  <1>1. <<t, v.kind, v.id>> \in K
    BY StoreAssumption
  <1>2. IsMap(records, K, StoreValues)
    BY DEF StoreTypeOK
  <1>3. records' = Put(records, <<t, v.kind, v.id>>, v)
    BY DEF WriteRecord, ScopedId
  <1> HIDE DEF K
  <1>4. IsMap(records, K, StoreValues)'
    BY <1>1, <1>2, <1>3, PutType
  <1> QED  BY <1>3, <1>4 DEF Put, K

\* A transaction that is undone gives up its locks.
LEMMA UnlockTyped ==
    ASSUME StoreTypeOK, NEW c, Unlock(c)
    PROVE  IsMap(locks, TenantKeys, Connections)'
  BY DEF StoreTypeOK, IsMap, Unlock, TenantKeys

\* The rows of a transaction are recorded outcomes.
LEMMA RowsTyped ==
    ASSUME StoreTypeOK, NEW c
    PROVE  IsMap(Rows(c), TenantKeys, Outcomes)
  BY EmptyMapType DEF StoreTypeOK, Rows, Opened, TenantKeys, Outcomes

\* COMMIT and ROLLBACK leave nothing of the transaction; the other connections
\* do not see them.
LEMMA EndTyped ==
    ASSUME StoreTypeOK, NEW c, EndTransaction(c)
    PROVE  /\ TransactionsOK' /\ IsMap(locks, TenantKeys, Connections)'
           /\ DOMAIN (Rows(c)') = {}
           /\ \A d \in Connections : d # c => Rows(d)' = Rows(d)
  <1>1. /\ DOMAIN transactions' = DOMAIN transactions \ {c}
        /\ \A d \in DOMAIN transactions' : transactions'[d] = transactions[d]
    BY DEF EndTransaction, Drop
  <1>2. TransactionsOK'
    BY <1>1 DEF TransactionsOK, StoreTypeOK, TenantKeys, Outcomes
  <1> QED  BY <1>1, <1>2, UnlockTyped DEF EndTransaction, Rows, Opened, EmptyMap

\* Nor does a statement that the server refuses.
LEMMA AbortTyped ==
    ASSUME StoreTypeOK, NEW c, Abort(c)
    PROVE  /\ TransactionsOK' /\ IsMap(locks, TenantKeys, Connections)'
           /\ DOMAIN (Rows(c)') = {}
           /\ \A d \in Connections : d # c => Rows(d)' = Rows(d)
  <1> DEFINE e == [rows |-> EmptyMap, aborted |-> TRUE]
  <1>1. /\ DOMAIN transactions' = DOMAIN transactions /\ c \in DOMAIN transactions
        /\ transactions'[c] = e
        /\ \A d \in DOMAIN transactions : d # c => transactions'[d] = transactions[d]
    BY DEF Abort, Opened
  <1>2. e.rows = EmptyMap /\ e.aborted = TRUE
    OBVIOUS
  <1>3. IsMap(EmptyMap, TenantKeys, Outcomes) /\ DOMAIN EmptyMap = {}
    BY EmptyMapType DEF EmptyMap
  <1> HIDE DEF e
  <1>4. TransactionsOK'
    BY <1>1, <1>2, <1>3 DEF TransactionsOK, StoreTypeOK, TenantKeys, Outcomes
  <1> QED  BY <1>1, <1>2, <1>3, <1>4, UnlockTyped DEF Abort, Rows, Opened

\* BEGIN writes nothing.
LEMMA BeginTyped ==
    ASSUME StoreTypeOK, NEW c \in Connections, Begin(c) \/ UNCHANGED transactions
    PROVE  TransactionsOK' /\ \A d \in Connections : Rows(d)' = Rows(d)
  <1> DEFINE e == [rows |-> EmptyMap, aborted |-> FALSE]
  <1>1. TransactionsOK
    BY DEF TransactionsOK, StoreTypeOK, TenantKeys, Outcomes
  <1>2. CASE UNCHANGED transactions
    BY <1>1, <1>2 DEF TransactionsOK, Rows, Opened
  <1>3. CASE c \notin DOMAIN transactions /\ transactions' = Put(transactions, c, e)
    <2>1. e.rows = EmptyMap /\ e.aborted = FALSE
      OBVIOUS
    <2>2. IsMap(EmptyMap, TenantKeys, Outcomes)
      BY EmptyMapType
    <2> HIDE DEF e
    <2>3. /\ DOMAIN transactions' = DOMAIN transactions \cup {c} /\ transactions'[c] = e
          /\ \A d \in DOMAIN transactions : transactions'[d] = transactions[d]
      BY <1>3 DEF Put
    <2>4. TransactionsOK'
      BY <1>1, <2>1, <2>2, <2>3 DEF TransactionsOK
    <2> QED  BY <1>3, <2>1, <2>3, <2>4 DEF Rows, Opened
  <1> QED  BY <1>2, <1>3 DEF Begin, Opened

\* The types of the store after a step.
LEMMA StoreTyped ==
    ASSUME StoreTypeOK, UNCHANGED <<backend, audits>>,
           UNCHANGED records \/ IsMap(records, Tenants \X {"wallet", "intent"}
                                                \X {w.id : w \in StoreValues}, StoreValues)',
           UNCHANGED idempotency \/ IsMap(idempotency, TenantKeys, Outcomes)',
           UNCHANGED transactions \/ TransactionsOK',
           UNCHANGED locks \/ IsMap(locks, TenantKeys, Connections)',
           IsMap(ops, Slots, Operation)'
    PROVE  StoreTypeOK'
  BY DEF StoreTypeOK, TransactionsOK, TenantKeys, Outcomes

\* An operation of the memory store moves on without touching the keys.
LEMMA MoveInMemory ==
    ASSUME StoreOK, backend = "memory", NEW k \in DOMAIN ops,
           NEW pc \in {"written", "answered", "refused"}, Goto(k, pc),
           UNCHANGED <<backend, idempotency>>,
           pc = "answered" => SettledFor(ops[k]),
           pc = "written" => ops[k].pc = "put"
    PROVE  StoreInv'
  <1>1. /\ DOMAIN ops' = DOMAIN ops
        /\ ops'[k].pc = pc
        /\ \A j \in DOMAIN ops : j # k => ops'[j] = ops[j]
        /\ \A j \in DOMAIN ops : /\ KeyOf(ops'[j]) = KeyOf(ops[j])
                                 /\ ops'[j].hash = ops[j].hash
                                 /\ ops'[j].shared = ops[j].shared
    BY GotoKeeps DEF StoreOK, OpPcs
  <1> QED  BY <1>1 DEF StoreOK, StoreInv, MemoryOp, SettledFor

\* The steps of the memory store.
LEMMA MemoryKeepsStore ==
    ASSUME StoreOK, NEW k \in Slots,
           PutInMemory(k) \/ SettleInMemory(k) \/ FailInMemory(k) \/ AnswerJoined(k)
    PROVE  StoreOK'
  <1> USE DEF StoreOK
  <1>1. CASE PutInMemory(k)
    <2>1. /\ backend = "memory" /\ k \in DOMAIN ops /\ ops[k].pc = "put"
          /\ WriteRecord(ops[k].tenant, ops[k].value) /\ Goto(k, "written")
          /\ UNCHANGED <<backend, idempotency, transactions, locks, audits>>
      BY <1>1 DEF PutInMemory, At, sqlVars
    <2>2. ops[k].tenant \in Tenants /\ ops[k].value \in StoreValues
      BY <2>1, OpFields DEF Operation
    <2>3. StoreTypeOK'
      BY <2>1, <2>2, WriteTyped, GotoKeeps, StoreTyped DEF OpPcs
    <2>4. StoreInv'
      BY <2>1, MoveInMemory
    <2> QED  BY <2>3, <2>4
  <1>2. CASE SettleInMemory(k)
    <2> DEFINE x == KeyOf(ops[k])
    <2>1. /\ backend = "memory" /\ k \in DOMAIN ops /\ ops[k].pc = "written"
          /\ idempotency' = [idempotency EXCEPT ![x].settled = TRUE]
          /\ Goto(k, "settled")
          /\ UNCHANGED <<backend, records, transactions, locks, audits>>
      BY <1>2 DEF SettleInMemory, At, sqlVars
    <2>2. x \in DOMAIN idempotency /\ idempotency[x].hash = ops[k].hash
      BY <2>1 DEF StoreInv, MemoryOp
    <2>3. /\ IsMap(idempotency, TenantKeys, Outcomes)'
          /\ DOMAIN idempotency' = DOMAIN idempotency
          /\ idempotency'[x].settled
          /\ \A y \in DOMAIN idempotency :
                /\ idempotency'[y].hash = idempotency[y].hash
                /\ y # x => idempotency'[y] = idempotency[y]
      BY <2>1, <2>2, SettleTyped
    <2>4. /\ IsMap(ops, Slots, Operation)'
          /\ DOMAIN ops' = DOMAIN ops
          /\ ops'[k].pc = "settled"
          /\ \A j \in DOMAIN ops : j # k => ops'[j] = ops[j]
          /\ \A j \in DOMAIN ops : /\ KeyOf(ops'[j]) = KeyOf(ops[j])
                                   /\ ops'[j].hash = ops[j].hash
                                   /\ ops'[j].shared = ops[j].shared
      BY <2>1, GotoKeeps DEF OpPcs
    <2>5. StoreTypeOK'
      BY <2>1, <2>3, <2>4, StoreTyped
    <2>6. \A j \in DOMAIN ops : j # k /\ ops[j].pc \in {"put", "written", "failing"} =>
             KeyOf(ops[j]) # x
      BY <2>1 DEF StoreInv, MemoryOp
    <2> HIDE DEF x
    <2>7. StoreInv'
      BY <2>1, <2>2, <2>3, <2>4, <2>6 DEF StoreInv, MemoryOp, SettledFor, x
    <2> QED  BY <2>5, <2>7
  <1>3. CASE FailInMemory(k)
    <2> DEFINE x == KeyOf(ops[k])
    <2>1. /\ backend = "memory" /\ k \in DOMAIN ops /\ ops[k].pc = "failing"
          /\ idempotency' = Drop(idempotency, x)
          /\ ops' = [j \in DOMAIN ops |->
                        IF j = k \/ j \in JoinedBy(k)
                        THEN [ops[j] EXCEPT !.pc = "refused"] ELSE ops[j]]
          /\ UNCHANGED <<backend, records, transactions, locks, audits>>
      BY <1>3 DEF FailInMemory, At, sqlVars
    <2>2. /\ DOMAIN idempotency' = DOMAIN idempotency \ {x}
          /\ \A y \in DOMAIN idempotency' : idempotency'[y] = idempotency[y]
      BY <2>1 DEF Drop
    <2>3. \A j \in DOMAIN ops :
             /\ [ops[j] EXCEPT !.pc = "refused"] \in Operation
             /\ [ops[j] EXCEPT !.pc = "refused"].pc = "refused"
             /\ [ops[j] EXCEPT !.pc = "refused"].shared = ops[j].shared
             /\ KeyOf([ops[j] EXCEPT !.pc = "refused"]) = KeyOf(ops[j])
      BY OpFields DEF Operation, KeyOf
    <2>4. /\ DOMAIN ops' = DOMAIN ops
          /\ \A j \in DOMAIN ops :
                /\ ops'[j] \in Operation /\ KeyOf(ops'[j]) = KeyOf(ops[j])
                /\ ops'[j].shared = ops[j].shared
                /\ \/ ops'[j].pc = "refused"
                   \/ j # k /\ j \notin JoinedBy(k) /\ ops'[j] = ops[j]
      BY <2>1, <2>3, OpFields
    <2>5. IsMap(ops, Slots, Operation)'
      BY <2>1, <2>4 DEF StoreTypeOK, IsMap
    <2>6. IsMap(idempotency, TenantKeys, Outcomes)'
      BY <2>1, DropType DEF StoreTypeOK, TenantKeys, Outcomes
    <2>7. StoreTypeOK'
      BY <2>1, <2>5, <2>6, StoreTyped
    <2>8. ASSUME NEW j \in DOMAIN ops, j # k, j \notin JoinedBy(k),
                 ops[j].pc \in {"joined", "put", "written", "failing", "settled", "answered"}
          PROVE  KeyOf(ops[j]) # x
      <3>1. ops[k].pc \in {"put", "written", "failing"} /\ ~idempotency[x].settled
        BY <2>1 DEF StoreInv, MemoryOp
      <3>2. ~ops[j].shared
        BY <2>1 DEF StoreInv, MemoryOp
      <3> QED  BY <2>1, <2>8, <3>1, <3>2 DEF StoreInv, MemoryOp, SettledFor, JoinedBy, At
    <2> HIDE DEF x
    <2>9. StoreInv'
      BY <2>1, <2>2, <2>4, <2>8 DEF StoreInv, MemoryOp, SettledFor
    <2> QED  BY <2>7, <2>9
  <1>4. CASE AnswerJoined(k)
    <2>1. /\ backend = "memory" /\ k \in DOMAIN ops /\ ops[k].pc = "joined"
          /\ KeyOf(ops[k]) \in DOMAIN idempotency /\ idempotency[KeyOf(ops[k])].settled
          /\ Goto(k, "answered")
          /\ UNCHANGED <<backend, records, idempotency, transactions, locks, audits>>
      BY <1>4 DEF AnswerJoined, At, sqlVars
    <2>2. SettledFor(ops[k])
      BY <2>1 DEF StoreInv, MemoryOp, SettledFor
    <2>3. StoreTypeOK'
      BY <2>1, GotoKeeps, StoreTyped DEF OpPcs
    <2>4. StoreInv'
      BY <2>1, <2>2, MoveInMemory
    <2> QED  BY <2>3, <2>4
  <1> QED  BY <1>1, <1>2, <1>3, <1>4

\* A call over PostgreSQL moves on: it disturbs its own transaction and adds
\* settled keys that no other transaction holds.
LEMMA PostgresStep ==
    ASSUME StoreOK, backend = "postgres", UNCHANGED backend,
           NEW k \in DOMAIN ops, ~Ended(k),
           NEW pc \in OpPcs \ {"joined", "written", "failing"}, Goto(k, pc),
           NEW c, c = ops[k].connection,
           \A d \in Connections : d # c => Rows(d)' = Rows(d),
           \A x \in DOMAIN (Rows(c)') : RowInv(c, x)',
           \A x \in DOMAIN idempotency :
              x \in DOMAIN idempotency' /\ idempotency'[x] = idempotency[x],
           \A x \in DOMAIN idempotency' : x \notin DOMAIN idempotency =>
              /\ idempotency'[x].settled
              /\ \A d \in Connections : d # c => x \notin DOMAIN Rows(d),
           ~ops[k].shared /\ pc \in {"settled", "answered"} => SettledFor(ops[k])',
           ~ops[k].shared /\ pc = "commit" => Held(k)'
    PROVE  StoreInv'
  <1>1. /\ DOMAIN ops' = DOMAIN ops
        /\ ops'[k].pc = pc
        /\ \A j \in DOMAIN ops : j # k => ops'[j] = ops[j]
        /\ \A j \in DOMAIN ops : /\ KeyOf(ops'[j]) = KeyOf(ops[j])
                                 /\ ops'[j].hash = ops[j].hash
                                 /\ ops'[j].connection = ops[j].connection
                                 /\ ops'[j].shared = ops[j].shared
    BY GotoKeeps DEF StoreOK
  <1>2. \A j \in DOMAIN ops : PostgresOp(j)
    BY DEF StoreOK, StoreInv
  <1>3. \A x \in DOMAIN idempotency : idempotency[x].settled
    BY DEF StoreOK, StoreInv
  <1>4. ASSUME NEW j \in DOMAIN ops', ops'[j].pc \in {"settled", "answered"},
               ~ops'[j].shared
        PROVE  SettledFor(ops[j])'
    <2>1. CASE j = k
      BY <1>1, <1>4, <2>1
    <2>2. CASE j # k
      BY <1>1, <1>4, <2>2 DEF StoreOK, StoreInv, SettledFor
    <2> QED  BY <2>1, <2>2
  <1>5. \A x \in DOMAIN idempotency' : idempotency'[x].settled
    BY <1>3
  <1>6. ASSUME NEW j \in DOMAIN ops'
        PROVE  PostgresOp(j)'
    <2>1. /\ ops'[j].connection \in Connections
          /\ ops'[j].pc \notin {"joined", "written", "failing"}
      BY <1>1, <1>2 DEF PostgresOp
    <2>2. ASSUME ~ops'[j].shared, ~Ended(j)',
                 NEW i \in DOMAIN ops', ops'[i].connection = ops'[j].connection, ~Ended(i)'
          PROVE  i = j
      <3>1. ~Ended(i) /\ ~Ended(j)
        BY <1>1, <2>2 DEF Ended
      <3> QED  BY <1>1, <1>2, <2>2, <3>1 DEF PostgresOp
    <2>3. ASSUME ~ops'[j].shared, ops'[j].pc = "commit"
          PROVE  Held(j)'
      <3>1. CASE j = k
        BY <1>1, <2>3, <3>1
      <3>2. CASE j # k
        <4>1. ops'[j] = ops[j] /\ ~Ended(j)
          BY <1>1, <2>3, <3>2 DEF Ended
        <4>2. PICK d \in Connections : d = ops[j].connection /\ d # c
          BY <1>1, <1>2, <2>3, <3>2, <4>1 DEF PostgresOp
        <4>3. Rows(d)' = Rows(d)
          BY <4>2
        <4>4. SettledFor(ops[j]) => SettledFor(ops[j])'
          BY <4>1 DEF SettledFor
        <4>5. Held(j)
          BY <1>1, <1>2, <2>3, <4>1 DEF PostgresOp
        <4>6. CASE SettledFor(ops[j])
          BY <4>4, <4>6 DEF Held
        <4>7. CASE /\ KeyOf(ops[j]) \in DOMAIN Rows(d)
                   /\ Rows(d)[KeyOf(ops[j])].hash = ops[j].hash
          <5>1. ops'[j].connection = d /\ KeyOf(ops'[j]) = KeyOf(ops[j])
            BY <4>1, <4>2
          <5>2. KeyOf(ops'[j]) \in DOMAIN (Rows(d)')
                /\ (Rows(d)')[KeyOf(ops'[j])].hash = ops'[j].hash
            BY <4>1, <4>3, <4>7, <5>1
          <5> QED  BY <5>1, <5>2 DEF Held, Rows, Opened
        <4> QED  BY <4>2, <4>5, <4>6, <4>7 DEF Held
      <3> QED  BY <3>1, <3>2
    <2>4. ops'[j].pc = "commit" => ~Ended(j)'
      BY DEF Ended
    <2> QED  BY <2>1, <2>2, <2>3, <2>4, Zenon DEF PostgresOp
  <1>7. ASSUME NEW d \in Connections, NEW x \in DOMAIN (Rows(d)')
        PROVE  RowInv(d, x)'
    <2>1. CASE d = c
      BY <1>7, <2>1
    <2>2. CASE d # c
      <3>1. Rows(d)' = Rows(d) /\ x \in DOMAIN Rows(d)
        BY <1>7, <2>2
      <3>2. RowInv(d, x)
        BY <3>1 DEF StoreOK, StoreInv
      <3>3. x \notin DOMAIN idempotency'
        BY <2>2, <3>1, <3>2 DEF RowInv
      <3>4. ASSUME NEW e \in Connections, x \in DOMAIN (Rows(e)')
            PROVE  e = d
        <4>1. CASE e = c
          <5>1. RowInv(c, x)'
            BY <3>4, <4>1
          <5> QED  BY <1>7, <4>1, <5>1 DEF RowInv
        <4>2. CASE e # c
          BY <3>2, <3>4, <4>2 DEF RowInv
        <4> QED  BY <4>1, <4>2
      <3>5. \E j \in DOMAIN ops' :
               /\ ops'[j].connection = d /\ ops'[j].pc \in {"commit", "rollback"}
               /\ KeyOf(ops'[j]) = x /\ ops'[j].hash = Rows(d)[x].hash
        BY <1>1, <2>2, <3>2 DEF RowInv
      <3> QED  BY <3>1, <3>2, <3>3, <3>4, <3>5 DEF RowInv
    <2> QED  BY <2>1, <2>2
  <1> QED  BY <1>4, <1>5, <1>6, <1>7 DEF StoreInv

\* It touches neither its transaction nor the keys.
LEMMA QuietStep ==
    ASSUME StoreOK, backend = "postgres", NEW k \in DOMAIN ops, ~Ended(k),
           UNCHANGED <<backend, idempotency, transactions>>,
           NEW pc \in OpPcs \ {"joined", "written", "failing"}, Goto(k, pc),
           ops[k].pc \in {"commit", "rollback"} => pc = "rollback",
           ~ops[k].shared /\ pc \in {"settled", "answered"} => SettledFor(ops[k]),
           ~ops[k].shared /\ pc = "commit" => Held(k)
    PROVE  StoreInv'
  <1>1. /\ DOMAIN ops' = DOMAIN ops
        /\ ops'[k].pc = pc
        /\ \A j \in DOMAIN ops : j # k => ops'[j] = ops[j]
        /\ \A j \in DOMAIN ops : /\ KeyOf(ops'[j]) = KeyOf(ops[j])
                                 /\ ops'[j].hash = ops[j].hash
                                 /\ ops'[j].connection = ops[j].connection
                                 /\ ops'[j].shared = ops[j].shared
    BY GotoKeeps DEF StoreOK
  <1>2. PICK c \in Connections : c = ops[k].connection
    BY DEF StoreOK, StoreInv, PostgresOp
  <1>3. \A d : Rows(d)' = Rows(d)
    BY DEF Rows, Opened
  <1>4. ASSUME NEW x \in DOMAIN (Rows(c)')
        PROVE  RowInv(c, x)'
    <2>1. RowInv(c, x)
      BY <1>3, <1>4 DEF StoreOK, StoreInv
    <2> QED  BY <1>1, <1>3, <2>1 DEF RowInv
  <1>5. SettledFor(ops[k]) => SettledFor(ops[k])'
    BY <1>1 DEF SettledFor
  <1>6. Held(k) => Held(k)'
    BY <1>1, <1>3, <1>5 DEF Held, Rows, Opened
  <1> QED  BY <1>2, <1>3, <1>4, <1>5, <1>6, PostgresStep

\* The steps of the PostgreSQL store that leave its transactions as they are.
LEMMA QuietKeepsStore ==
    ASSUME StoreOK, NEW k \in Slots,
           \/ Locked(k) \/ Selected(k) \/ PutInPostgres(k) \/ AnswerSettled(k)
           \/ StatementFails(k) /\ UNCHANGED sqlVars
    PROVE  StoreOK'
  <1> USE DEF StoreOK
  <1>1. CASE Locked(k)
    <2>1. /\ k \in DOMAIN ops /\ ops[k].pc = "lock" /\ Goto(k, "select")
          /\ locks' = IF Opened(ops[k].connection)
                      THEN Put(locks, KeyOf(ops[k]), ops[k].connection) ELSE locks
          /\ UNCHANGED <<backend, records, idempotency, transactions, audits>>
      BY <1>1 DEF Locked, At
    <2>2. backend = "postgres" /\ ~Ended(k)
      BY <2>1 DEF StoreInv, StoreTypeOK, MemoryOp, Ended
    <2>3. KeyOf(ops[k]) \in TenantKeys /\ ops[k].connection \in Connections
      BY <2>1, <2>2, OpFields DEF StoreInv, PostgresOp
    <2>4. UNCHANGED locks \/ IsMap(locks, TenantKeys, Connections)'
      BY <2>1, <2>3, PutType DEF StoreTypeOK, TenantKeys
    <2>5. StoreTypeOK'
      BY <2>1, <2>4, GotoKeeps, StoreTyped DEF OpPcs
    <2>6. StoreInv'
      BY <2>1, <2>2, QuietStep DEF OpPcs
    <2> QED  BY <2>5, <2>6
  <1>2. CASE Selected(k)
    <2> DEFINE x == KeyOf(ops[k])
               found == Stored(ops[k].connection, x)
    <2>1. /\ k \in DOMAIN ops /\ ops[k].pc = "select"
          /\ UNCHANGED <<backend, records, idempotency, transactions, locks, audits>>
      BY <1>2 DEF Selected, At, sqlVars
    <2>2. backend = "postgres" /\ ~Ended(k)
      BY <2>1 DEF StoreInv, StoreTypeOK, MemoryOp, Ended
    <2>3. PICK pc \in {"put", "commit", "rollback"} :
             /\ Goto(k, pc)
             /\ pc = "commit" => found # None /\ found.hash = ops[k].hash
      BY <1>2 DEF Selected
    <2>4. found # None /\ found.hash = ops[k].hash => Held(k)
      BY <2>1, <2>2 DEF Stored, Held, SettledFor, StoreInv
    <2>5. StoreTypeOK'
      BY <2>1, <2>3, GotoKeeps, StoreTyped DEF OpPcs
    <2>6. StoreInv'
      BY <2>1, <2>2, <2>3, <2>4, QuietStep DEF OpPcs
    <2> QED  BY <2>5, <2>6
  <1>3. CASE PutInPostgres(k)
    <2>1. /\ backend = "postgres" /\ k \in DOMAIN ops /\ ops[k].pc = "put"
          /\ WriteRecord(ops[k].tenant, ops[k].value) /\ Goto(k, "insert")
          /\ UNCHANGED <<backend, idempotency, transactions, locks, audits>>
      BY <1>3 DEF PutInPostgres, At, sqlVars
    <2>2. ops[k].tenant \in Tenants /\ ops[k].value \in StoreValues /\ ~Ended(k)
      BY <2>1, OpFields DEF Operation, Ended
    <2>3. StoreTypeOK'
      BY <2>1, <2>2, WriteTyped, GotoKeeps, StoreTyped DEF OpPcs
    <2>4. StoreInv'
      BY <2>1, <2>2, QuietStep DEF OpPcs
    <2> QED  BY <2>3, <2>4
  <1>4. CASE AnswerSettled(k)
    <2>1. /\ k \in DOMAIN ops /\ ops[k].pc = "settled" /\ Goto(k, "answered")
          /\ UNCHANGED <<backend, records, idempotency, transactions, locks, audits>>
      BY <1>4 DEF AnswerSettled, At, sqlVars
    <2>2. StoreTypeOK'
      BY <2>1, GotoKeeps, StoreTyped DEF OpPcs
    <2>3. ~Ended(k) /\ (~ops[k].shared => SettledFor(ops[k]))
      BY <2>1 DEF StoreInv, Ended
    <2>4. CASE backend = "memory"
      <3>1. ~ops[k].shared
        BY <2>1, <2>4 DEF StoreInv, MemoryOp
      <3> QED  BY <2>1, <2>2, <2>3, <2>4, <3>1, MoveInMemory
    <2>5. CASE backend = "postgres"
      <3>1. StoreInv'
        BY <2>1, <2>3, <2>5, QuietStep DEF OpPcs
      <3> QED  BY <2>2, <3>1
    <2> QED  BY <2>4, <2>5 DEF StoreTypeOK
  <1>5. CASE StatementFails(k) /\ UNCHANGED sqlVars
    <2>1. /\ backend = "postgres" /\ k \in DOMAIN ops /\ ~Ended(k) /\ Goto(k, "rollback")
          /\ UNCHANGED <<backend, records, idempotency, transactions, locks, audits>>
      BY <1>5 DEF StatementFails, sqlVars, Ended
    <2>2. StoreTypeOK'
      BY <2>1, GotoKeeps, StoreTyped DEF OpPcs
    <2>3. StoreInv'
      BY <2>1, QuietStep DEF OpPcs
    <2> QED  BY <2>2, <2>3
  <1> QED  BY <1>1, <1>2, <1>3, <1>4, <1>5

\* A statement that is refused and a ROLLBACK undo the rows of the connection.
LEMMA UndoKeepsStore ==
    ASSUME StoreOK, NEW k \in Slots,
           \/ RolledBack(k)
           \/ StatementFails(k) /\ Abort(ops[k].connection)
    PROVE  StoreOK'
  <1> USE DEF StoreOK
  <1>1. k \in DOMAIN ops /\ ~Ended(k) /\ UNCHANGED <<backend, records, idempotency, audits>>
    BY DEF RolledBack, StatementFails, At, Ended
  <1>2. backend = "postgres"
    BY DEF RolledBack, StatementFails, At, StoreInv, MemoryOp, StoreTypeOK
  <1>3. PICK pc \in {"rollback", "refused"} : Goto(k, pc)
    BY DEF RolledBack, StatementFails
  <1>4. PICK c \in Connections : c = ops[k].connection
    BY <1>1, <1>2 DEF StoreInv, PostgresOp
  <1>5. EndTransaction(c) \/ Abort(c)
    BY <1>4 DEF RolledBack
  <1>6. /\ TransactionsOK' /\ IsMap(locks, TenantKeys, Connections)'
        /\ DOMAIN (Rows(c)') = {}
        /\ \A d \in Connections : d # c => Rows(d)' = Rows(d)
    BY <1>5, EndTyped, AbortTyped
  <1>7. StoreTypeOK'
    BY <1>1, <1>3, <1>6, GotoKeeps, StoreTyped DEF OpPcs
  <1>8. StoreInv'
    BY <1>1, <1>2, <1>3, <1>4, <1>6, PostgresStep DEF OpPcs
  <1> QED  BY <1>7, <1>8

\* INSERT adds a row of a key that nobody has, or settles it at once.
LEMMA InsertedKeepsStore ==
    ASSUME StoreOK, NEW k \in Slots, Inserted(k)
    PROVE  StoreOK'
  <1> USE DEF StoreOK
  <1> DEFINE x == KeyOf(ops[k])
             row == [hash |-> ops[k].hash, value |-> ops[k].value, settled |-> TRUE]
  <1>1. /\ k \in DOMAIN ops /\ ops[k].pc = "insert" /\ Goto(k, "commit")
        /\ x \notin DOMAIN idempotency
        /\ \A d \in DOMAIN transactions : x \notin DOMAIN transactions[d].rows
        /\ UNCHANGED <<backend, records, locks, audits>>
    BY DEF Inserted, At
  <1>2. backend = "postgres" /\ ~Ended(k)
    BY <1>1 DEF StoreInv, StoreTypeOK, MemoryOp, Ended
  <1>3. PICK c \in Connections : c = ops[k].connection
    BY <1>1, <1>2 DEF StoreInv, PostgresOp
  <1>4. x \in TenantKeys /\ row \in Outcomes /\ row.hash = ops[k].hash /\ row.settled
    BY <1>1, OpFields DEF Operation, Outcomes
  <1>5. \A d : x \notin DOMAIN Rows(d)
    BY <1>1 DEF Rows, Opened, EmptyMap
  <1>6. \/ /\ Opened(c) /\ UNCHANGED idempotency
           /\ transactions' = [transactions EXCEPT
                  ![c] = [rows |-> Put(Rows(c), x, row), aborted |-> FALSE]]
        \/ UNCHANGED transactions /\ idempotency' = Put(idempotency, x, row)
    BY <1>3 DEF Inserted
  <1> HIDE DEF x, row
  <1>7. /\ IsMap(ops, Slots, Operation)'
        /\ DOMAIN ops' = DOMAIN ops
        /\ ops'[k].pc = "commit"
        /\ \A j \in DOMAIN ops : j # k => ops'[j] = ops[j]
        /\ \A j \in DOMAIN ops : /\ KeyOf(ops'[j]) = KeyOf(ops[j])
                                 /\ ops'[j].hash = ops[j].hash
                                 /\ ops'[j].connection = ops[j].connection
    BY <1>1, GotoKeeps DEF OpPcs
  <1>8. CASE /\ Opened(c) /\ UNCHANGED idempotency
             /\ transactions' = [transactions EXCEPT
                    ![c] = [rows |-> Put(Rows(c), x, row), aborted |-> FALSE]]
    <2> DEFINE e == [rows |-> Put(Rows(c), x, row), aborted |-> FALSE]
    <2>1. e.rows = Put(Rows(c), x, row) /\ e.aborted = FALSE
      OBVIOUS
    <2>2. IsMap(Put(Rows(c), x, row), TenantKeys, Outcomes)
      BY <1>4, RowsTyped, PutType
    <2> HIDE DEF e
    <2>3. /\ DOMAIN transactions' = DOMAIN transactions /\ c \in DOMAIN transactions
          /\ transactions'[c] = e
          /\ \A d \in DOMAIN transactions : d # c => transactions'[d] = transactions[d]
      BY <1>8 DEF Opened, e
    <2>4. TransactionsOK'
      BY <2>1, <2>2, <2>3 DEF TransactionsOK, StoreTypeOK, TenantKeys, Outcomes
    <2>5. Rows(c)' = Put(Rows(c), x, row) /\ \A d \in Connections : d # c => Rows(d)' = Rows(d)
      BY <2>1, <2>3 DEF Rows, Opened
    <2>6. /\ DOMAIN (Rows(c)') = DOMAIN Rows(c) \cup {x} /\ (Rows(c)')[x] = row
          /\ \A y \in DOMAIN Rows(c) : (Rows(c)')[y] = Rows(c)[y]
      BY <1>5, <2>5 DEF Put
    <2>7. StoreTypeOK'
      BY <1>1, <1>7, <1>8, <2>4, StoreTyped
    <2>8. ASSUME NEW y \in DOMAIN (Rows(c)')
          PROVE  RowInv(c, y)'
      <3>1. CASE y = x
        <4>1. y \notin DOMAIN idempotency' /\ (Rows(c)')[y].settled
          BY <1>1, <1>4, <1>8, <2>6, <3>1 DEF x
        <4>2. \A d \in Connections : y \in DOMAIN (Rows(d)') => d = c
          BY <1>5, <2>5, <3>1
        <4>3. /\ k \in DOMAIN ops' /\ ops'[k].connection = c
              /\ KeyOf(ops'[k]) = y /\ ops'[k].hash = (Rows(c)')[y].hash
          BY <1>1, <1>3, <1>4, <1>7, <2>6, <3>1 DEF x
        <4> QED  BY <1>7, <4>1, <4>2, <4>3 DEF RowInv
      <3>2. CASE y # x
        <4>1. y \in DOMAIN Rows(c) /\ RowInv(c, y)
          BY <1>2, <2>6, <2>8, <3>2 DEF StoreInv
        <4>2. \A d \in Connections : y \in DOMAIN (Rows(d)') => d = c
          BY <2>5, <4>1 DEF RowInv
        <4>3. \E j \in DOMAIN ops' :
                 /\ ops'[j].connection = c /\ ops'[j].pc \in {"commit", "rollback"}
                 /\ KeyOf(ops'[j]) = y /\ ops'[j].hash = (Rows(c)')[y].hash
          BY <1>7, <2>6, <4>1 DEF RowInv
        <4> QED  BY <1>8, <2>6, <4>1, <4>2, <4>3 DEF RowInv
      <3> QED  BY <3>1, <3>2
    <2>9. Held(k)'
      BY <1>1, <1>3, <1>4, <1>7, <2>6 DEF Held, Rows, Opened, x
    <2>10. StoreInv'
      BY <1>1, <1>2, <1>3, <1>8, <2>5, <2>8, <2>9, PostgresStep DEF OpPcs
    <2> QED  BY <2>7, <2>10
  <1>9. CASE UNCHANGED transactions /\ idempotency' = Put(idempotency, x, row)
    <2>1. /\ DOMAIN idempotency' = DOMAIN idempotency \cup {x} /\ idempotency'[x] = row
          /\ \A y \in DOMAIN idempotency : idempotency'[y] = idempotency[y]
      BY <1>1, <1>9 DEF Put, x
    <2>2. IsMap(idempotency, TenantKeys, Outcomes)'
      BY <1>4, <1>9, PutType DEF StoreTypeOK, TenantKeys, Outcomes
    <2>3. StoreTypeOK'
      BY <1>1, <1>7, <1>9, <2>2, StoreTyped
    <2>4. \A d : Rows(d)' = Rows(d)
      BY <1>9 DEF Rows, Opened
    <2>5. ASSUME NEW y \in DOMAIN (Rows(c)')
          PROVE  RowInv(c, y)'
      <3>1. RowInv(c, y) /\ y # x
        BY <1>2, <1>5, <2>4, <2>5 DEF StoreInv
      <3> QED  BY <1>7, <2>1, <2>4, <3>1 DEF RowInv
    <2>6. Held(k)'
      BY <1>1, <1>4, <1>7, <2>1 DEF Held, SettledFor, x
    <2>7. StoreInv'
      BY <1>1, <1>2, <1>3, <1>4, <1>5, <2>1, <2>4, <2>5, <2>6, PostgresStep DEF OpPcs
    <2> QED  BY <2>3, <2>7
  <1> QED  BY <1>6, <1>8, <1>9

\* What COMMIT does to the keys: it adds the rows of the transaction.
LEMMA CommitMerges ==
    ASSUME StoreOK, NEW k \in Slots, Committed(k)
    PROVE  /\ k \in DOMAIN ops /\ ops[k].pc = "commit" /\ backend = "postgres" /\ ~Ended(k)
           /\ ops[k].connection \in Connections
           /\ DOMAIN idempotency' = DOMAIN idempotency \cup DOMAIN Rows(ops[k].connection)
           /\ \A x \in DOMAIN idempotency : idempotency'[x] = idempotency[x]
           /\ \A x \in DOMAIN Rows(ops[k].connection) :
                 /\ RowInv(ops[k].connection, x)
                 /\ idempotency'[x] = Rows(ops[k].connection)[x]
  <1> DEFINE rows == Rows(ops[k].connection)
  <1>1. /\ k \in DOMAIN ops /\ ops[k].pc = "commit"
        /\ idempotency' = [x \in DOMAIN idempotency \cup DOMAIN rows |->
                              IF x \in DOMAIN rows THEN rows[x] ELSE idempotency[x]]
    BY DEF Committed, At
  <1>2. backend = "postgres" /\ ~Ended(k)
    BY <1>1 DEF StoreOK, StoreInv, StoreTypeOK, MemoryOp, Ended
  <1>3. ops[k].connection \in Connections
    BY <1>1, <1>2 DEF StoreOK, StoreInv, PostgresOp
  <1>4. \A x \in DOMAIN rows : RowInv(ops[k].connection, x)
    BY <1>2, <1>3 DEF StoreOK, StoreInv
  <1>5. \A x \in DOMAIN rows : x \notin DOMAIN idempotency
    BY <1>4 DEF RowInv
  <1> HIDE DEF rows
  <1>6. /\ DOMAIN idempotency' = DOMAIN idempotency \cup DOMAIN rows
        /\ \A x \in DOMAIN idempotency : idempotency'[x] = idempotency[x]
        /\ \A x \in DOMAIN rows : idempotency'[x] = rows[x]
    BY <1>1, <1>5
  <1> QED  BY <1>1, <1>2, <1>3, <1>4, <1>6 DEF rows

\* COMMIT settles the keys of the rows.
LEMMA CommittedKeepsStore ==
    ASSUME StoreOK, NEW k \in Slots, Committed(k)
    PROVE  StoreOK'
  <1> USE DEF StoreOK
  <1>1. /\ k \in DOMAIN ops /\ ops[k].pc = "commit" /\ backend = "postgres" /\ ~Ended(k)
        /\ Goto(k, "settled") /\ UNCHANGED <<backend, records, audits>>
    BY CommitMerges DEF Committed
  <1>2. PICK c \in Connections : c = ops[k].connection
    BY CommitMerges
  <1>3. /\ DOMAIN idempotency' = DOMAIN idempotency \cup DOMAIN Rows(c)
        /\ \A x \in DOMAIN idempotency : idempotency'[x] = idempotency[x]
        /\ \A x \in DOMAIN Rows(c) : RowInv(c, x) /\ idempotency'[x] = Rows(c)[x]
    BY <1>2, CommitMerges
  <1>4. /\ TransactionsOK' /\ IsMap(locks, TenantKeys, Connections)'
        /\ DOMAIN (Rows(c)') = {}
        /\ \A d \in Connections : d # c => Rows(d)' = Rows(d)
    BY <1>2, EndTyped DEF Committed
  <1>5. IsMap(idempotency, TenantKeys, Outcomes)'
    <2>1. IsMap(Rows(c), TenantKeys, Outcomes) /\ IsMap(idempotency, TenantKeys, Outcomes)
      BY RowsTyped DEF StoreTypeOK, TenantKeys, Outcomes
    <2>2. idempotency' = [x \in DOMAIN idempotency' |-> idempotency'[x]]
      BY DEF Committed
    <2> QED  BY <1>3, <2>1, <2>2 DEF IsMap
  <1>6. StoreTypeOK'
    BY <1>1, <1>4, <1>5, GotoKeeps, StoreTyped DEF OpPcs
  <1>7. ~ops[k].shared => SettledFor(ops[k])'
    <2>1. /\ KeyOf(ops'[k]) = KeyOf(ops[k]) /\ ops'[k].hash = ops[k].hash
      BY <1>1, GotoKeeps DEF OpPcs
    <2>2. ~ops[k].shared => Held(k)
      BY <1>1 DEF StoreInv, PostgresOp
    <2>3. CASE SettledFor(ops[k])
      BY <1>3, <2>1, <2>3 DEF SettledFor
    <2>4. CASE KeyOf(ops[k]) \in DOMAIN Rows(c) /\ Rows(c)[KeyOf(ops[k])].hash = ops[k].hash
      BY <1>3, <2>1, <2>4 DEF SettledFor, RowInv
    <2> QED  BY <1>2, <2>2, <2>3, <2>4 DEF Held
  <1>8. \A x \in DOMAIN idempotency' : x \notin DOMAIN idempotency =>
           /\ idempotency'[x].settled
           /\ \A d \in Connections : d # c => x \notin DOMAIN Rows(d)
    BY <1>3 DEF RowInv
  <1>9. StoreInv'
    BY <1>1, <1>2, <1>3, <1>4, <1>7, <1>8, PostgresStep DEF OpPcs
  <1> QED  BY <1>6, <1>9

\* Every step of a call in the PostgreSQL store, and the answer to one that
\* settled.
LEMMA PostgresKeepsStore ==
    ASSUME StoreOK, NEW k \in Slots,
           \/ Locked(k) \/ Selected(k) \/ PutInPostgres(k) \/ Inserted(k)
           \/ Committed(k) \/ AnswerSettled(k) \/ StatementFails(k) \/ RolledBack(k)
    PROVE  StoreOK'
  <1>1. CASE StatementFails(k) /\ Abort(ops[k].connection)
    BY <1>1, UndoKeepsStore
  <1>2. CASE \/ Locked(k) \/ Selected(k) \/ PutInPostgres(k) \/ AnswerSettled(k)
             \/ StatementFails(k) /\ UNCHANGED sqlVars
    BY <1>2, QuietKeepsStore
  <1>3. CASE Inserted(k)
    BY <1>3, InsertedKeepsStore
  <1>4. CASE Committed(k)
    BY <1>4, CommittedKeepsStore
  <1>5. CASE RolledBack(k)
    BY <1>5, UndoKeepsStore
  <1>6. StatementFails(k) => Abort(ops[k].connection) \/ UNCHANGED sqlVars
    BY DEF StatementFails
  <1> QED  BY <1>1, <1>2, <1>3, <1>4, <1>5, <1>6

\* What a new call over PostgreSQL changes: those in progress on its connection
\* share it from now on.
Starts(k, t, key, h, v, c, pc) ==
    /\ backend = "postgres" /\ k \notin DOMAIN ops
    /\ UNCHANGED <<backend, records, idempotency, locks, audits>>
    /\ Begin(c) \/ UNCHANGED transactions
    /\ IsMap(ops, Slots, Operation)'
    /\ DOMAIN ops' = DOMAIN ops \cup {k}
    /\ KeyOf(ops'[k]) = <<t, key>> /\ ops'[k].tenant = t
    /\ ops'[k].hash = h /\ ops'[k].value = v /\ ops'[k].pc = pc
    /\ ops'[k].connection = c /\ (ops'[k].shared <=> InProgress(c) # {})
    /\ \A j \in DOMAIN ops :
          /\ KeyOf(ops'[j]) = KeyOf(ops[j]) /\ ops'[j].hash = ops[j].hash
          /\ ops'[j].value = ops[j].value /\ ops'[j].tenant = ops[j].tenant
          /\ ops'[j].connection = ops[j].connection /\ ops'[j].pc = ops[j].pc
          /\ \/ j \notin InProgress(c) /\ ops'[j] = ops[j]
             \/ pc = "refused" /\ ops'[j] = ops[j]
             \/ j \in InProgress(c) /\ ops'[j].shared

LEMMA StartsInPostgres ==
    ASSUME StoreTypeOK, NEW k \in Slots, NEW t \in Tenants, NEW key \in IdempotencyKeys,
           NEW h \in Hashes, NEW v \in StoreValues, RunInPostgres(k, t, key, h, v)
    PROVE  \E c \in Connections, pc \in {"lock", "refused"} : Starts(k, t, key, h, v, c, pc)
  <1>1. PICK c \in Connections : RunInPostgres(k, t, key, h, v)!(c)
    BY DEF RunInPostgres
  <1> DEFINE others == InProgress(c)
             op(pc) == [tenant |-> t, key |-> key, hash |-> h, value |-> v, pc |-> pc,
                        connection |-> c, shared |-> others # {}]
             marked == [j \in DOMAIN ops |->
                           IF j \in others THEN [ops[j] EXCEPT !.shared = TRUE] ELSE ops[j]]
  <1>2. /\ backend = "postgres" /\ k \notin DOMAIN ops
        /\ UNCHANGED <<backend, records, idempotency, locks, audits>>
        /\ \/ Begin(c) /\ ops' = Put(marked, k, op("lock"))
           \/ (Begin(c) \/ UNCHANGED transactions) /\ ops' = Put(ops, k, op("refused"))
    BY <1>1
  <1>3. \A pc \in {"lock", "refused"} : op(pc) \in Operation
    BY DEF Operation
  <1>4. \A j \in DOMAIN ops :
           LET o == [ops[j] EXCEPT !.shared = TRUE]
           IN  /\ o \in Operation /\ o.shared /\ KeyOf(o) = KeyOf(ops[j])
               /\ o.hash = ops[j].hash /\ o.value = ops[j].value
               /\ o.tenant = ops[j].tenant /\ o.connection = ops[j].connection
               /\ o.pc = ops[j].pc
    BY OpFields DEF Operation, KeyOf
  <1>5. /\ IsMap(marked, Slots, Operation) /\ DOMAIN marked = DOMAIN ops
        /\ \A j \in DOMAIN ops :
              /\ KeyOf(marked[j]) = KeyOf(ops[j]) /\ marked[j].hash = ops[j].hash
              /\ marked[j].value = ops[j].value /\ marked[j].tenant = ops[j].tenant
              /\ marked[j].connection = ops[j].connection /\ marked[j].pc = ops[j].pc
              /\ \/ j \notin others /\ marked[j] = ops[j]
                 \/ j \in others /\ marked[j].shared
    BY <1>4, OpFields DEF IsMap
  <1>6. \A pc : /\ KeyOf(op(pc)) = <<t, key>> /\ op(pc).tenant = t
                /\ op(pc).hash = h /\ op(pc).value = v /\ op(pc).pc = pc
                /\ op(pc).connection = c /\ (op(pc).shared <=> InProgress(c) # {})
    BY DEF KeyOf
  <1> HIDE DEF others, op, marked
  <1>7. CASE Begin(c) /\ ops' = Put(marked, k, op("lock"))
    <2>1. IsMap(ops, Slots, Operation)'
      BY <1>3, <1>5, <1>7, PutType
    <2>2. /\ DOMAIN ops' = DOMAIN ops \cup {k} /\ ops'[k] = op("lock")
          /\ \A j \in DOMAIN ops : ops'[j] = marked[j]
      BY <1>2, <1>5, <1>7 DEF Put
    <2>3. /\ KeyOf(op("lock")) = <<t, key>> /\ op("lock").tenant = t
          /\ op("lock").hash = h /\ op("lock").value = v /\ op("lock").pc = "lock"
          /\ op("lock").connection = c /\ (op("lock").shared <=> InProgress(c) # {})
      BY <1>6
    <2> QED  BY <1>2, <1>5, <1>7, <2>1, <2>2, <2>3 DEF others, Starts
  <1>8. CASE (Begin(c) \/ UNCHANGED transactions) /\ ops' = Put(ops, k, op("refused"))
    <2>1. IsMap(ops, Slots, Operation)'
      BY <1>3, <1>8, PutType DEF StoreTypeOK
    <2>2. /\ DOMAIN ops' = DOMAIN ops \cup {k} /\ ops'[k] = op("refused")
          /\ \A j \in DOMAIN ops : ops'[j] = ops[j]
      BY <1>2, <1>8 DEF Put
    <2>3. /\ KeyOf(op("refused")) = <<t, key>> /\ op("refused").tenant = t
          /\ op("refused").hash = h /\ op("refused").value = v /\ op("refused").pc = "refused"
          /\ op("refused").connection = c /\ (op("refused").shared <=> InProgress(c) # {})
      BY <1>6
    <2> QED  BY <1>2, <1>8, <2>1, <2>2, <2>3 DEF Starts
  <1> QED  BY <1>2, <1>7, <1>8

\* A call joins the transaction of its connection, if there is one.
LEMMA RunInPostgresKeepsStore ==
    ASSUME StoreOK, NEW k \in Slots, NEW t \in Tenants, NEW key \in IdempotencyKeys,
           NEW h \in Hashes, NEW v \in StoreValues, RunInPostgres(k, t, key, h, v)
    PROVE  StoreOK'
  <1> USE DEF StoreOK
  <1>1. PICK c \in Connections, pc \in {"lock", "refused"} : Starts(k, t, key, h, v, c, pc)
    BY StartsInPostgres
  <1>2. /\ TransactionsOK' /\ \A d \in Connections : Rows(d)' = Rows(d)
    BY <1>1, BeginTyped DEF Starts
  <1>3. StoreTypeOK'
    BY <1>1, <1>2, StoreTyped DEF Starts
  <1>4. /\ ops'[k].pc = pc /\ ops'[k].connection = c
        /\ ops'[k].shared <=> InProgress(c) # {}
    BY <1>1 DEF Starts
  <1>5. ASSUME NEW j \in DOMAIN ops', ops'[j].pc \in {"settled", "answered"},
               ~ops'[j].shared
        PROVE  SettledFor(ops[j])'
    <2>1. j \in DOMAIN ops /\ ops'[j] = ops[j]
      BY <1>1, <1>4, <1>5 DEF Starts
    <2> QED  BY <1>1, <1>5, <2>1 DEF Starts, StoreInv, SettledFor
  <1>6. ASSUME NEW j \in DOMAIN ops'
        PROVE  PostgresOp(j)'
    <2>1. CASE j = k
      <3>1. ASSUME ~ops'[k].shared, pc = "lock",
                   NEW i \in DOMAIN ops', ops'[i].connection = c, ~Ended(i)'
            PROVE  i = k
        BY <1>1, <1>4, <3>1 DEF Starts, InProgress, Ended
      <3>2. pc = "refused" => Ended(k)'
        BY <1>4 DEF Ended
      <3> QED  BY <1>4, <2>1, <3>1, <3>2 DEF PostgresOp
    <2>2. CASE j # k
      <3>1. j \in DOMAIN ops /\ PostgresOp(j)
        BY <1>1, <2>2 DEF Starts, StoreInv
      <3>2. ops'[j].connection = ops[j].connection /\ ops'[j].pc = ops[j].pc
            /\ (Ended(j)' <=> Ended(j))
        BY <1>1, <3>1 DEF Starts, Ended
      <3>3. ASSUME ~ops'[j].shared, ~Ended(j)'
            PROVE  ops'[j] = ops[j] /\ (pc = "lock" => ops[j].connection # c)
        BY <1>1, <3>1, <3>2, <3>3 DEF Starts, InProgress, Ended
      <3>4. ASSUME ~ops'[j].shared, ~Ended(j)',
                   NEW i \in DOMAIN ops', ops'[i].connection = ops'[j].connection, ~Ended(i)'
            PROVE  i = j
        <4>1. i # k
          BY <1>4, <3>2, <3>3, <3>4 DEF Ended
        <4>2. i \in DOMAIN ops /\ ops[i].connection = ops[j].connection /\ ~Ended(i)
          BY <1>1, <3>2, <3>4, <4>1 DEF Starts, Ended
        <4> QED  BY <3>1, <3>2, <3>3, <3>4, <4>2 DEF PostgresOp
      <3>5. Held(j) => Held(j)'
        <4>1. PICK d \in Connections : d = ops[j].connection
          BY <3>1 DEF PostgresOp
        <4>2. Rows(d)' = Rows(d) /\ ops'[j].connection = d
          BY <1>2, <3>2, <4>1
        <4>3. KeyOf(ops'[j]) = KeyOf(ops[j]) /\ ops'[j].hash = ops[j].hash
          BY <1>1, <3>1 DEF Starts
        <4> QED  BY <1>1, <4>1, <4>2, <4>3 DEF Starts, Held, SettledFor, Rows, Opened
      <3>6. ~ops'[j].shared /\ ~Ended(j)' => ~ops[j].shared /\ ~Ended(j)
        BY <3>2, <3>3
      <3> QED  BY <3>1, <3>2, <3>4, <3>5, <3>6 DEF PostgresOp
    <2> QED  BY <2>1, <2>2
  <1>7. ASSUME NEW d \in Connections, NEW x \in DOMAIN (Rows(d)')
        PROVE  RowInv(d, x)'
    <2>1. RowInv(d, x)
      BY <1>1, <1>2, <1>7 DEF Starts, StoreInv
    <2> QED  BY <1>1, <1>2, <2>1 DEF Starts, RowInv
  <1>8. \A x \in DOMAIN idempotency' : idempotency'[x].settled
    BY <1>1 DEF Starts, StoreInv
  <1>9. StoreInv'
    BY <1>1, <1>5, <1>6, <1>7, <1>8 DEF Starts, StoreInv
  <1> QED  BY <1>3, <1>9

\* A call of the memory store up to its first await.
LEMMA RunInMemoryKeepsStore ==
    ASSUME StoreOK, NEW k \in Slots, NEW t \in Tenants, NEW key \in IdempotencyKeys,
           NEW h \in Hashes, NEW v \in StoreValues, RunInMemory(k, t, key, h, v)
    PROVE  StoreOK'
  <1> USE DEF StoreOK
  <1> DEFINE x == <<t, key>>
             existing == IF x \in DOMAIN idempotency THEN idempotency[x] ELSE None
             pc == FirstAwait(existing, h, v)
             o == [hash |-> h, value |-> v, settled |-> FALSE]
             op == [tenant |-> t, key |-> key, hash |-> h, value |-> v, pc |-> pc,
                    connection |-> None, shared |-> FALSE]
  <1>1. /\ backend = "memory" /\ k \notin DOMAIN ops /\ ops' = Put(ops, k, op)
        /\ idempotency' = IF existing = None THEN Put(idempotency, x, o) ELSE idempotency
        /\ IF pc = "written" THEN WriteRecord(t, v) ELSE UNCHANGED records
        /\ UNCHANGED <<backend, transactions, locks, audits>>
    BY DEF RunInMemory, sqlVars
  <1>2. x \in DOMAIN idempotency => existing # None
    BY StoreAssumption DEF StoreTypeOK, IsMap, Outcomes
  <1>3. pc \in {"joined", "put", "written", "failing", "refused"}
    BY DEF FirstAwait
  <1>4. /\ x \in DOMAIN idempotency => pc \in {"joined", "refused"}
        /\ x \in DOMAIN idempotency /\ pc = "joined" => idempotency[x].hash = h
        /\ x \notin DOMAIN idempotency => pc # "joined"
    BY <1>2 DEF FirstAwait
  <1>5. o \in Outcomes /\ o.hash = h /\ ~o.settled /\ x \in TenantKeys
    BY DEF Outcomes, TenantKeys
  <1>6. \/ x \in DOMAIN idempotency /\ UNCHANGED idempotency
        \/ x \notin DOMAIN idempotency /\ idempotency' = Put(idempotency, x, o)
    BY <1>1, <1>2
  <1> HIDE DEF existing, pc
  <1>7. op \in Operation /\ KeyOf(op) = x /\ op.hash = h /\ op.pc = pc /\ op.shared = FALSE
    BY <1>3 DEF Operation, KeyOf
  <1> HIDE DEF o, x, op
  <1>8. /\ IsMap(ops, Slots, Operation)'
        /\ DOMAIN ops' = DOMAIN ops \cup {k} /\ ops'[k] = op
        /\ \A j \in DOMAIN ops : ops'[j] = ops[j]
    <2>1. IsMap(ops, Slots, Operation)'
      BY <1>1, <1>7, PutType DEF StoreTypeOK
    <2> QED  BY <1>1, <2>1 DEF Put
  <1>9. /\ IsMap(idempotency, TenantKeys, Outcomes)'
        /\ DOMAIN idempotency' = DOMAIN idempotency \cup {x}
        /\ \A y \in DOMAIN idempotency : idempotency'[y] = idempotency[y]
        /\ x \notin DOMAIN idempotency => idempotency'[x] = o
    <2>1. IsMap(idempotency, TenantKeys, Outcomes)
      BY DEF StoreTypeOK, TenantKeys, Outcomes
    <2>2. CASE UNCHANGED idempotency /\ x \in DOMAIN idempotency
      BY <2>1, <2>2
    <2>3. CASE x \notin DOMAIN idempotency /\ idempotency' = Put(idempotency, x, o)
      <3>1. IsMap(idempotency, TenantKeys, Outcomes)'
        BY <1>5, <2>1, <2>3, PutType
      <3> QED  BY <2>3, <3>1 DEF Put
    <2> QED  BY <1>6, <2>2, <2>3
  <1>10. StoreTypeOK'
    BY <1>1, <1>8, <1>9, WriteTyped, StoreTyped
  <1>11. StoreInv'
    BY <1>1, <1>3, <1>4, <1>5, <1>7, <1>8, <1>9 DEF StoreInv, MemoryOp, SettledFor
  <1> QED  BY <1>10, <1>11

\* runIdempotent up to its first await.
LEMMA RunKeepsStore ==
    ASSUME StoreOK, NEW k \in Slots, NEW t \in Tenants, NEW key \in IdempotencyKeys,
           NEW h \in Hashes, NEW v \in StoreValues, RunIdempotent(k, t, key, h, v)
    PROVE  StoreOK'
  BY RunInMemoryKeepsStore, RunInPostgresKeepsStore DEF RunIdempotent

\* What runIdempotent does to the calls, in either store.
Started(k, t, key, h, v) ==
    /\ k \notin DOMAIN ops /\ DOMAIN ops' = DOMAIN ops \cup {k}
    /\ KeyOf(ops'[k]) = <<t, key>> /\ ops'[k].tenant = t
    /\ ops'[k].hash = h /\ ops'[k].value = v /\ ops'[k].pc # "answered"
    /\ \A j \in DOMAIN ops :
          /\ KeyOf(ops'[j]) = KeyOf(ops[j]) /\ ops'[j].hash = ops[j].hash
          /\ ops'[j].value = ops[j].value /\ ops'[j].tenant = ops[j].tenant
          /\ ops'[j].pc = ops[j].pc
          /\ ops'[j] = ops[j] \/ ~Ended(j)

LEMMA RunStarts ==
    ASSUME StoreTypeOK, NEW k \in Slots, NEW t \in Tenants, NEW key \in IdempotencyKeys,
           NEW h \in Hashes, NEW v \in StoreValues, RunIdempotent(k, t, key, h, v)
    PROVE  Started(k, t, key, h, v)
  <1>1. CASE RunInPostgres(k, t, key, h, v)
    <2>1. PICK c \in Connections, pc \in {"lock", "refused"} : Starts(k, t, key, h, v, c, pc)
      BY <1>1, StartsInPostgres
    <2> QED  BY <2>1 DEF Starts, Started, InProgress, Ended
  <1>2. CASE RunInMemory(k, t, key, h, v)
    <2>1. PICK pc \in {"joined", "put", "written", "failing", "refused"} :
             ops' = Put(ops, k, [tenant |-> t, key |-> key, hash |-> h, value |-> v,
                                 pc |-> pc, connection |-> None, shared |-> FALSE])
      BY <1>2 DEF RunInMemory, FirstAwait
    <2> DEFINE o == [tenant |-> t, key |-> key, hash |-> h, value |-> v,
                     pc |-> pc, connection |-> None, shared |-> FALSE]
    <2>2. /\ KeyOf(o) = <<t, key>> /\ o.tenant = t /\ o.hash = h /\ o.value = v
          /\ o.pc # "answered"
      BY <2>1 DEF KeyOf
    <2>3. k \notin DOMAIN ops /\ ops' = Put(ops, k, o)
      BY <1>2, <2>1 DEF RunInMemory
    <2> HIDE DEF o
    <2> QED  BY <2>2, <2>3 DEF Put, Started
  <1> QED  BY <1>1, <1>2 DEF RunIdempotent

\* A call that was answered or refused ends.
LEMMA EndKeepsStore ==
    ASSUME StoreOK, NEW k \in Slots, EndOperation(k),
           UNCHANGED <<backend, records, idempotency, sqlVars, audits>>
    PROVE  StoreOK'
  <1> USE DEF StoreOK, sqlVars
  <1>1. /\ k \in DOMAIN ops /\ Ended(k)
        /\ DOMAIN ops' = DOMAIN ops \ {k} /\ \A j \in DOMAIN ops' : ops'[j] = ops[j]
        /\ IsMap(ops, Slots, Operation)'
    BY DropType DEF EndOperation, Drop, StoreTypeOK, Ended
  <1>2. StoreTypeOK'
    BY <1>1, StoreTyped
  <1>3. \A d : Rows(d)' = Rows(d)
    BY DEF Rows, Opened
  <1>4. backend = "memory" => \A j \in DOMAIN ops' : MemoryOp(j)'
    BY <1>1 DEF StoreInv, MemoryOp
  <1>5. ASSUME backend = "postgres", NEW j \in DOMAIN ops'
        PROVE  PostgresOp(j)'
    <2>1. PostgresOp(j) /\ j \in DOMAIN ops /\ ops'[j] = ops[j]
      BY <1>1, <1>5 DEF StoreInv
    <2>2. Held(j) => Held(j)'
      BY <2>1 DEF Held, SettledFor, Rows, Opened
    <2> QED  BY <1>1, <2>1, <2>2 DEF PostgresOp, Ended
  <1>6. ASSUME backend = "postgres", NEW d \in Connections, NEW x \in DOMAIN (Rows(d)')
        PROVE  RowInv(d, x)'
    <2>1. RowInv(d, x)
      BY <1>3, <1>6 DEF StoreInv
    <2> QED  BY <1>1, <1>3, <2>1 DEF RowInv, Ended
  <1>7. StoreInv'
    BY <1>1, <1>4, <1>5, <1>6 DEF StoreInv, SettledFor
  <1> QED  BY <1>2, <1>7
-----------------------------------------------------------------------------
(* The store implements IdempotentStore.                                   *)

\* What a call tells its caller, and whether it counts as refused.
Told(o) ==
    IF o.pc = "answered" /\ ~o.shared THEN idempotency[KeyOf(o)].value ELSE None
Refused(o) == \/ o.pc = "refused"
              \/ o.pc = "answered" /\ o.shared

Asking(o) == [key |-> KeyOf(o), hash |-> o.hash, answer |-> Told(o), refused |-> Refused(o)]

\* What a call looks like before and after a step.
LEMMA AskedNow ==
    ASSUME NEW s \in Slots
    PROVE  /\ s \notin DOMAIN ops => AskedBySlot[s] = None
           /\ s \in DOMAIN ops => AskedBySlot[s] = Asking(ops[s])
           /\ s \notin DOMAIN ops' => AskedBySlot'[s] = None
           /\ s \in DOMAIN ops' => AskedBySlot'[s] = Asking(ops[s])'
  BY DEF AskedBySlot, Asking, Told, Refused

\* The fields of a question.
LEMMA AskingFields ==
    ASSUME NEW o
    PROVE  /\ Asking(o).key = KeyOf(o) /\ Asking(o).hash = o.hash
           /\ Asking(o).answer = Told(o) /\ (Asking(o).refused <=> Refused(o))
  <1> DEFINE x == KeyOf(o)
             h == o.hash
             a == Told(o)
             r == Refused(o)
             q == [key |-> x, hash |-> h, answer |-> a, refused |-> r]
  <1>1. q.key = x /\ q.hash = h /\ q.answer = a /\ q.refused = r
    <2> HIDE DEF x, h, a, r
    <2> QED  OBVIOUS
  <1> HIDE DEF x, h, a, r
  <1>2. Asking(o) = q
    BY Zenon DEF Asking, x, h, a, r
  <1> QED  BY <1>1, <1>2, Zenon DEF x, h, a, r

\* What a call in progress looks like to its caller.
LEMMA AskedFields ==
    ASSUME StoreOK, NEW s \in DOMAIN ops
    PROVE  /\ s \in Slots /\ AskedBySlot[s] # None
           /\ AskedBySlot[s].key = KeyOf(ops[s]) /\ AskedBySlot[s].hash = ops[s].hash
           /\ Promise!Open(s) <=> ~Ended(s)
  <1> DEFINE o == ops[s]
  <1>1. s \in Slots /\ KeyOf(o) \in TenantKeys /\ o.hash \in Hashes
    BY OpFields DEF StoreOK, Operation
  <1>2. o.pc = "answered" /\ ~o.shared => idempotency[KeyOf(o)].value \in StoreValues
    BY DEF StoreOK, StoreInv, SettledFor, StoreTypeOK, IsMap, Outcomes
  <1>3. /\ Told(o) \in StoreValues \cup {None}
        /\ Told(o) = None <=> ~(o.pc = "answered" /\ ~o.shared)
    BY <1>2, StoreAssumption DEF Told
  <1>4. AskedBySlot[s] = Asking(o)
    BY <1>1, AskedNow
  <1>5. Asking(o) # None
    <2> DEFINE r == Refused(o)
               q == [key |-> KeyOf(o), hash |-> o.hash, answer |-> Told(o), refused |-> r]
    <2>1. r \in BOOLEAN
      BY DEF Refused
    <2> HIDE DEF r, o
    <2>2. q \in [key : TenantKeys, hash : Hashes, answer : StoreValues \cup {None},
                 refused : BOOLEAN]
      BY <1>1, <1>3, <2>1 DEF o
    <2>3. q # None
      BY <2>2, StoreAssumption DEF TenantKeys
    <2>4. Asking(o) = q
      BY Zenon DEF Asking, r
    <2> QED  BY <2>3, <2>4
  <1>6. Promise!Open(s) <=> Asking(o).answer = None /\ ~Asking(o).refused
    BY <1>4, <1>5, Zenon DEF Promise!Open
  <1>7. Promise!Open(s) <=> ~Ended(s)
    BY <1>3, <1>6, AskingFields DEF Refused, Ended
  <1> QED  BY <1>1, <1>4, <1>5, <1>7, AskingFields

\* A slot sees nothing of a step that leaves its call where it is, or moves it
\* from one place of an open call to another.
LEMMA AskedSame ==
    ASSUME NEW s \in Slots,
           s \in DOMAIN ops' <=> s \in DOMAIN ops,
           s \in DOMAIN ops =>
              /\ KeyOf(ops'[s]) = KeyOf(ops[s]) /\ ops'[s].hash = ops[s].hash
              /\ \/ ops'[s].pc = ops[s].pc /\ (ops'[s].shared <=> ops[s].shared)
                 \/ ~Ended(s) /\ ~Ended(s)'
              /\ ops[s].pc = "answered" /\ ~ops[s].shared =>
                    idempotency'[KeyOf(ops[s])].value = idempotency[KeyOf(ops[s])].value
    PROVE  AskedBySlot'[s] = AskedBySlot[s]
  <1>1. CASE s \notin DOMAIN ops
    BY <1>1, AskedNow
  <1>2. CASE s \in DOMAIN ops
    <2>1. /\ ops'[s].pc = "answered" /\ ~ops'[s].shared <=>
                ops[s].pc = "answered" /\ ~ops[s].shared
          /\ Refused(ops[s])' <=> Refused(ops[s])
      BY <1>2 DEF Ended, Refused
    <2>2. Told(ops[s])' = Told(ops[s])
      BY <1>2, <2>1 DEF Told
    <2>3. Refused(ops[s])' = Refused(ops[s])
      BY <2>1 DEF Refused
    <2>4. Asking(ops[s])' = Asking(ops[s])
      BY <1>2, <2>2, <2>3, Zenon DEF Asking
    <2> QED  BY <1>2, <2>4, AskedNow
  <1> QED  BY <1>1, <1>2

\* What the slots see is a function of the slots.
LEMMA AskedIsFunction ==
    /\ AskedBySlot = [s \in Slots |-> AskedBySlot[s]]
    /\ AskedBySlot' = [s \in Slots |-> AskedBySlot'[s]]
  BY Zenon DEF AskedBySlot

\* No slot sees anything.
LEMMA NobodySees ==
    ASSUME \A s \in Slots : AskedBySlot'[s] = AskedBySlot[s]
    PROVE  AskedBySlot' = AskedBySlot
  BY AskedIsFunction, Zenon

\* Only the slot k sees something.
LEMMA OnlyOneSees ==
    ASSUME NEW k \in Slots, \A s \in Slots : s # k => AskedBySlot'[s] = AskedBySlot[s]
    PROVE  AskedBySlot' = [AskedBySlot EXCEPT ![k] = AskedBySlot'[k]]
  BY AskedIsFunction, SMT

\* Outcomes that stay.
LEMMA OutcomesSame ==
    ASSUME \A x \in TenantKeys :
              (x \in DOMAIN idempotency' /\ idempotency'[x].settled)
                 <=> (x \in DOMAIN idempotency /\ idempotency[x].settled),
           \A x \in DOMAIN idempotency :
              idempotency[x].settled => /\ idempotency'[x].hash = idempotency[x].hash
                                        /\ idempotency'[x].value = idempotency[x].value
    PROVE  SettledOutcome' = SettledOutcome
  BY DEF SettledOutcome

\* The value of every settled key stays: those that were answered keep their answer.
SettledStay ==
    \A x \in DOMAIN idempotency :
        idempotency[x].settled =>
            /\ x \in DOMAIN idempotency' /\ idempotency'[x].settled
            /\ idempotency'[x].hash = idempotency[x].hash
            /\ idempotency'[x].value = idempotency[x].value

LEMMA AnswersStay ==
    ASSUME StoreOK, SettledStay, NEW s \in DOMAIN ops,
           ops[s].pc = "answered", ~ops[s].shared
    PROVE  idempotency'[KeyOf(ops[s])].value = idempotency[KeyOf(ops[s])].value
  BY DEF StoreOK, StoreInv, SettledFor, SettledStay

\* An open call moves on and stays open: nobody sees it.
LEMMA OpenMove ==
    ASSUME StoreOK, SettledStay, NEW k \in DOMAIN ops, ~Ended(k),
           NEW pc \in OpPcs \ {"answered", "refused"}, Goto(k, pc)
    PROVE  AskedBySlot' = AskedBySlot
  <1>1. /\ DOMAIN ops' = DOMAIN ops /\ ops'[k].pc = pc
        /\ \A j \in DOMAIN ops : j # k => ops'[j] = ops[j]
        /\ \A j \in DOMAIN ops : KeyOf(ops'[j]) = KeyOf(ops[j]) /\ ops'[j].hash = ops[j].hash
    BY GotoKeeps DEF StoreOK
  <1>2. ~Ended(k)'
    BY <1>1 DEF Ended
  <1>3. ASSUME NEW s \in Slots
        PROVE  AskedBySlot'[s] = AskedBySlot[s]
    <2>1. CASE s \in DOMAIN ops
      <3>1. \/ ops'[s].pc = ops[s].pc /\ (ops'[s].shared <=> ops[s].shared)
            \/ ~Ended(s) /\ ~Ended(s)'
        BY <1>1, <1>2, <2>1
      <3> QED  BY <1>1, <2>1, <3>1, AskedSame, AnswersStay
    <2>2. CASE s \notin DOMAIN ops
      BY <1>1, <2>2, AskedSame
    <2> QED  BY <2>1, <2>2
  <1> QED  BY <1>3, NobodySees

\* A call is answered with the outcome of its key.
LEMMA AnswerStep ==
    ASSUME StoreOK, NEW k \in DOMAIN ops, ~Ended(k), Goto(k, "answered"),
           ~ops[k].shared, UNCHANGED idempotency, SettledFor(ops[k])
    PROVE  Promise!Answer(k)
  <1> DEFINE x == KeyOf(ops[k])
             v == idempotency[x].value
             h == ops[k].hash
             no == FALSE
             a == [key |-> x, hash |-> h, answer |-> None, refused |-> no]
             b == [key |-> x, hash |-> h, answer |-> v, refused |-> no]
  <1>1. /\ DOMAIN ops' = DOMAIN ops /\ ops'[k].pc = "answered"
        /\ \A j \in DOMAIN ops : j # k => ops'[j] = ops[j]
        /\ \A j \in DOMAIN ops : /\ KeyOf(ops'[j]) = KeyOf(ops[j])
                                 /\ ops'[j].hash = ops[j].hash
                                 /\ ops'[j].shared = ops[j].shared
    BY GotoKeeps DEF StoreOK, OpPcs
  <1>2. k \in Slots /\ x \in TenantKeys
    BY OpFields DEF StoreOK
  <1>3. AskedBySlot[k] = a /\ Promise!Open(k)
    <2>1. Told(ops[k]) = None /\ Refused(ops[k]) = no
      BY DEF Told, Refused, Ended
    <2> HIDE DEF x, h, no
    <2>2. Asking(ops[k]) = a
      BY <2>1 DEF Asking, x, h
    <2> QED  BY <1>2, <2>2, AskedNow, AskedFields
  <1>4. AskedBySlot'[k] = b
    <2>1. Told(ops[k])' = v /\ Refused(ops[k])' = no
      BY <1>1 DEF Told, Refused
    <2>2. KeyOf(ops[k])' = x /\ ops'[k].hash = h
      BY <1>1
    <2> HIDE DEF x, h, no, v
    <2>3. Asking(ops[k])' = b
      BY <2>1, <2>2, Zenon DEF Asking
    <2> QED  BY <1>1, <1>2, <2>3, AskedNow
  <1>5. b = [a EXCEPT !.answer = v] /\ a.key = x /\ a.hash = ops[k].hash
    <2> HIDE DEF x, v, no
    <2> QED  OBVIOUS
  <1>6. \A s \in Slots : s # k => AskedBySlot'[s] = AskedBySlot[s]
    BY <1>1, AskedSame
  <1>7. AskedBySlot' = [AskedBySlot EXCEPT ![k] = b]
    BY <1>2, <1>4, <1>6, OnlyOneSees
  <1>8. SettledOutcome[x] = [hash |-> ops[k].hash, value |-> v]
    BY <1>2 DEF SettledOutcome, SettledFor
  <1>9. v \in StoreValues /\ ops[k].hash \in Hashes
    BY OpFields DEF StoreOK, StoreTypeOK, IsMap, Operation, Outcomes, SettledFor
  <1>10. SettledOutcome[x] # None /\ SettledOutcome[x].hash = ops[k].hash
         /\ SettledOutcome[x].value = v
    BY <1>8, <1>9, StoreAssumption
  <1>11. SettledOutcome' = SettledOutcome
    BY OutcomesSame
  <1> HIDE DEF a, b, x, v, h, no
  <1> QED  BY <1>3, <1>5, <1>7, <1>10, <1>11 DEF Promise!Answer

\* Calls are refused.
LEMMA RefuseStep ==
    ASSUME StoreOK, NEW calls \in SUBSET DOMAIN ops, \A s \in calls : ~Ended(s),
           DOMAIN ops' = DOMAIN ops,
           \A s \in DOMAIN ops : KeyOf(ops'[s]) = KeyOf(ops[s]) /\ ops'[s].hash = ops[s].hash,
           \A s \in calls : Refused(ops[s])',
           \A s \in DOMAIN ops : s \notin calls => ops'[s] = ops[s],
           SettledStay, SettledOutcome' = SettledOutcome
    PROVE  Promise!Next
  <1>1. \A s \in calls : s \in Slots /\ Promise!Open(s)
    BY AskedFields
  <1>2. ASSUME NEW s \in Slots, s \notin calls
        PROVE  AskedBySlot'[s] = AskedBySlot[s]
    <2>1. CASE s \in DOMAIN ops
      BY <1>2, <2>1, AskedSame, AnswersStay
    <2>2. CASE s \notin DOMAIN ops
      BY <2>2, AskedSame
    <2> QED  BY <2>1, <2>2
  <1>3. ASSUME NEW s \in calls
        PROVE  AskedBySlot'[s] = [AskedBySlot[s] EXCEPT !.refused = TRUE]
    <2> DEFINE x == KeyOf(ops[s])
               h == ops[s].hash
               no == FALSE
               yes == TRUE
    <2>1. Told(ops[s]) = None /\ Refused(ops[s]) = no
      BY <1>3 DEF Told, Refused, Ended
    <2>2. Told(ops[s])' = None /\ Refused(ops[s])' = yes
      BY <1>3 DEF Told, Refused
    <2>3. KeyOf(ops[s])' = x /\ ops'[s].hash = h
      BY <1>3
    <2> HIDE DEF x, h, no, yes
    <2>4. Asking(ops[s]) = [key |-> x, hash |-> h, answer |-> None, refused |-> no]
      BY <2>1, Zenon DEF Asking, x, h
    <2>5. Asking(ops[s])' = [key |-> x, hash |-> h, answer |-> None, refused |-> yes]
      BY <2>2, <2>3, Zenon DEF Asking
    <2>6. [[key |-> x, hash |-> h, answer |-> None, refused |-> no] EXCEPT !.refused = yes]
          = [key |-> x, hash |-> h, answer |-> None, refused |-> yes]
      OBVIOUS
    <2>7. AskedBySlot[s] = Asking(ops[s]) /\ AskedBySlot'[s] = Asking(ops[s])'
      BY <1>1, <1>3, AskedNow
    <2> QED  BY <2>4, <2>5, <2>6, <2>7, Zenon DEF yes
  <1>4. AskedBySlot' = [s \in Slots |-> IF s \in calls
                                       THEN [AskedBySlot[s] EXCEPT !.refused = TRUE]
                                       ELSE AskedBySlot[s]]
    BY <1>2, <1>3, AskedIsFunction, Zenon
  <1>5. Promise!Refuse(calls)
    BY <1>4 DEF Promise!Refuse
  <1> QED  BY <1>1, <1>5 DEF Promise!Next

\* Keys get their outcomes from open calls, and nobody sees it.
LEMMA RecordStep ==
    ASSUME StoreOK, StoreTypeOK', AskedBySlot' = AskedBySlot, SettledStay,
           \A x \in DOMAIN idempotency' :
              \/ ~idempotency'[x].settled
              \/ x \in DOMAIN idempotency /\ idempotency[x].settled
              \/ \E s \in DOMAIN ops : /\ ~Ended(s) /\ KeyOf(ops[s]) = x
                                       /\ ops[s].hash = idempotency'[x].hash
    PROVE  Promise!Next
  <1>1. /\ IsMap(idempotency, TenantKeys, Outcomes)
        /\ IsMap(idempotency, TenantKeys, Outcomes)'
    BY DEF StoreOK, StoreTypeOK, TenantKeys, Outcomes
  <1>2. SettledOutcome' \in [TenantKeys -> Promise!Outcome \cup {None}]
    BY <1>1 DEF SettledOutcome, Promise!Outcome, IsMap, Outcomes
  <1>3. ASSUME NEW x \in TenantKeys, SettledOutcome'[x] # SettledOutcome[x]
        PROVE  /\ SettledOutcome[x] = None /\ SettledOutcome'[x] # None
               /\ \E s \in Slots : /\ Promise!Open(s) /\ AskedBySlot[s].key = x
                                   /\ SettledOutcome'[x].hash = AskedBySlot[s].hash
    <2>1. ~(x \in DOMAIN idempotency /\ idempotency[x].settled)
      BY <1>3 DEF SettledOutcome, SettledStay
    <2>2. SettledOutcome[x] = None
      BY <2>1 DEF SettledOutcome
    <2>3. x \in DOMAIN idempotency' /\ idempotency'[x].settled
      BY <1>3, <2>2 DEF SettledOutcome
    <2>4. SettledOutcome'[x] = [hash |-> idempotency'[x].hash, value |-> idempotency'[x].value]
      BY <2>3 DEF SettledOutcome
    <2>5. PICK s \in DOMAIN ops : /\ ~Ended(s) /\ KeyOf(ops[s]) = x
                                  /\ ops[s].hash = idempotency'[x].hash
      BY <2>1, <2>3
    <2>6. /\ s \in Slots /\ Promise!Open(s) /\ AskedBySlot[s].key = x
          /\ SettledOutcome'[x].hash = AskedBySlot[s].hash
      BY <2>4, <2>5, AskedFields
    <2> QED  BY <1>3, <2>2, <2>6
  <1>4. Promise!Record
    BY <1>2, <1>3 DEF Promise!Record
  <1> QED  BY <1>4 DEF Promise!Next

\* A call is made; others may find their connection shared.
LEMMA AskStep ==
    ASSUME StoreOK, NEW k \in Slots, k \notin DOMAIN ops,
           DOMAIN ops' = DOMAIN ops \cup {k},
           KeyOf(ops'[k]) \in TenantKeys, ops'[k].hash \in Hashes, ops'[k].pc # "answered",
           \A j \in DOMAIN ops :
              /\ KeyOf(ops'[j]) = KeyOf(ops[j]) /\ ops'[j].hash = ops[j].hash
              /\ ops'[j].pc = ops[j].pc
              /\ ops'[j] = ops[j] \/ ~Ended(j),
           SettledStay, SettledOutcome' = SettledOutcome
    PROVE  Promise!Next
  <1> DEFINE x == KeyOf(ops'[k])
             h == ops'[k].hash
             r == Refused(ops'[k])
             a == [key |-> x, hash |-> h, answer |-> None, refused |-> r]
  <1>1. ASSUME NEW s \in Slots, s # k
        PROVE  AskedBySlot'[s] = AskedBySlot[s]
    <2>1. CASE s \in DOMAIN ops
      <3>1. \/ ops'[s].pc = ops[s].pc /\ (ops'[s].shared <=> ops[s].shared)
            \/ ~Ended(s) /\ ~Ended(s)'
        BY <2>1 DEF Ended
      <3> QED  BY <1>1, <2>1, <3>1, AskedSame, AnswersStay
    <2>2. CASE s \notin DOMAIN ops
      BY <1>1, <2>2, AskedSame
    <2> QED  BY <2>1, <2>2
  <1>2. AskedBySlot'[k] = a
    <2>1. Told(ops[k])' = None /\ Refused(ops[k])' = r
      BY DEF Told, Refused
    <2>2. Asking(ops[k])' = a
      BY <2>1, Zenon DEF Asking
    <2> QED  BY <2>2, AskedNow
  <1>3. AskedBySlot[k] = None
    BY AskedNow
  <1>4. a \in Promise!Question /\ a.answer = None
    <2>1. r \in BOOLEAN
      BY DEF Refused
    <2> HIDE DEF r, x, h
    <2> QED  BY <2>1 DEF Promise!Question, x, h
  <1> HIDE DEF a
  <1>5. AskedBySlot' = [AskedBySlot EXCEPT ![k] = AskedBySlot'[k]]
    BY <1>1, OnlyOneSees
  <1>6. Promise!Ask(k)
    BY <1>2, <1>3, <1>4, <1>5 DEF Promise!Ask
  <1> QED  BY <1>6 DEF Promise!Next

\* A caller that was answered or refused goes on.
LEMMA LeaveStep ==
    ASSUME StoreOK, NEW k \in Slots, EndOperation(k), UNCHANGED idempotency
    PROVE  Promise!Next
  <1>1. /\ k \in DOMAIN ops /\ Ended(k)
        /\ DOMAIN ops' = DOMAIN ops \ {k} /\ \A j \in DOMAIN ops' : ops'[j] = ops[j]
    BY DEF EndOperation, Drop, Ended
  <1>2. AskedBySlot[k] # None /\ ~Promise!Open(k)
    BY <1>1, AskedFields
  <1>3. \A s \in Slots : s # k => AskedBySlot'[s] = AskedBySlot[s]
    BY <1>1, AskedSame
  <1>4. AskedBySlot'[k] = None
    BY <1>1, AskedNow
  <1>5. AskedBySlot' = [AskedBySlot EXCEPT ![k] = None]
    BY <1>3, <1>4, OnlyOneSees
  <1>6. SettledOutcome' = SettledOutcome
    BY OutcomesSame
  <1>7. Promise!Leave(k)
    BY <1>2, <1>5, <1>6 DEF Promise!Leave
  <1> QED  BY <1>7 DEF Promise!Next

PromiseStep == Promise!Next \/ UNCHANGED <<SettledOutcome, AskedBySlot>>

\* A single open call is refused, or answered after it shared its connection.
LEMMA RefuseOne ==
    ASSUME StoreOK, NEW k \in DOMAIN ops, ~Ended(k), UNCHANGED idempotency,
           \/ Goto(k, "refused")
           \/ Goto(k, "answered") /\ ops[k].shared
    PROVE  PromiseStep
  <1>1. /\ DOMAIN ops' = DOMAIN ops
        /\ \A j \in DOMAIN ops : j # k => ops'[j] = ops[j]
        /\ \A j \in DOMAIN ops : /\ KeyOf(ops'[j]) = KeyOf(ops[j])
                                 /\ ops'[j].hash = ops[j].hash
                                 /\ ops'[j].shared = ops[j].shared
        /\ \/ ops'[k].pc = "refused"
           \/ ops'[k].pc = "answered" /\ ops[k].shared
    <2>1. CASE Goto(k, "refused")
      BY <2>1, GotoKeeps DEF StoreOK, OpPcs
    <2>2. CASE Goto(k, "answered") /\ ops[k].shared
      BY <2>2, GotoKeeps DEF StoreOK, OpPcs
    <2> QED  BY <2>1, <2>2
  <1>2. \A s \in {k} : Refused(ops[s])'
    BY <1>1 DEF Refused
  <1>3. SettledStay /\ SettledOutcome' = SettledOutcome
    BY OutcomesSame DEF SettledStay
  <1>4. {k} \in SUBSET DOMAIN ops /\ \A s \in {k} : ~Ended(s)
    OBVIOUS
  <1>5. Promise!Next
    BY <1>1, <1>2, <1>3, <1>4, RefuseStep
  <1> QED  BY <1>5 DEF PromiseStep

\* An open call moves on and the keys stay.
LEMMA OpenStep ==
    ASSUME StoreOK, NEW k \in DOMAIN ops, ~Ended(k), UNCHANGED idempotency,
           NEW pc \in OpPcs \ {"answered", "refused"}, Goto(k, pc)
    PROVE  PromiseStep
  <1>1. SettledStay /\ SettledOutcome' = SettledOutcome
    BY OutcomesSame DEF SettledStay
  <1> QED  BY <1>1, OpenMove DEF PromiseStep

\* A call is answered with what its key holds.
LEMMA AnsweredStep ==
    ASSUME StoreOK, NEW k \in Slots, AnswerJoined(k) \/ AnswerSettled(k)
    PROVE  PromiseStep
  <1>1. k \in DOMAIN ops /\ ~Ended(k) /\ Goto(k, "answered") /\ UNCHANGED idempotency
    BY DEF AnswerJoined, AnswerSettled, At, Ended
  <1>2. CASE ops[k].shared
    BY <1>1, <1>2, RefuseOne
  <1>3. CASE ~ops[k].shared
    <2>1. SettledFor(ops[k])
      BY <1>3 DEF AnswerJoined, AnswerSettled, At, StoreOK, StoreInv, MemoryOp, SettledFor
    <2>2. Promise!Answer(k)
      BY <1>1, <1>3, <2>1, AnswerStep
    <2> QED  BY <2>2 DEF PromiseStep, Promise!Next
  <1> QED  BY <1>2, <1>3

\* The operation of a key is fulfilled in memory.
LEMMA SettledStep ==
    ASSUME StoreOK, NEW k \in Slots, SettleInMemory(k)
    PROVE  PromiseStep
  <1> DEFINE x == KeyOf(ops[k])
  <1>1. /\ k \in DOMAIN ops /\ ops[k].pc = "written" /\ ~Ended(k) /\ Goto(k, "settled")
        /\ idempotency' = [idempotency EXCEPT ![x].settled = TRUE] /\ backend = "memory"
    BY DEF SettleInMemory, At, Ended
  <1>2. x \in DOMAIN idempotency /\ idempotency[x].hash = ops[k].hash
    BY <1>1 DEF StoreOK, StoreInv, MemoryOp
  <1>3. /\ DOMAIN idempotency' = DOMAIN idempotency
        /\ idempotency'[x].settled
        /\ \A y \in DOMAIN idempotency :
              /\ idempotency'[y].hash = idempotency[y].hash
              /\ idempotency'[y].value = idempotency[y].value
              /\ y # x => idempotency'[y] = idempotency[y]
    BY <1>1, <1>2, SettleTyped DEF StoreOK
  <1>4. StoreTypeOK'
    BY MemoryKeepsStore DEF StoreOK
  <1> HIDE DEF x
  <1>5. SettledStay
    BY <1>3 DEF SettledStay
  <1>6. AskedBySlot' = AskedBySlot
    BY <1>1, <1>5, OpenMove DEF OpPcs
  <1>7. Promise!Next
    BY <1>1, <1>2, <1>3, <1>4, <1>5, <1>6, RecordStep DEF x
  <1> QED  BY <1>7 DEF PromiseStep

\* The operation of a key fails in memory, and everyone who waited for it.
LEMMA FailedStep ==
    ASSUME StoreOK, NEW k \in Slots, FailInMemory(k)
    PROVE  PromiseStep
  <1> DEFINE x == KeyOf(ops[k])
             calls == {k} \cup JoinedBy(k)
  <1>1. /\ k \in DOMAIN ops /\ ops[k].pc = "failing" /\ backend = "memory"
        /\ idempotency' = Drop(idempotency, x)
        /\ ops' = [j \in DOMAIN ops |->
                      IF j = k \/ j \in JoinedBy(k)
                      THEN [ops[j] EXCEPT !.pc = "refused"] ELSE ops[j]]
    BY DEF FailInMemory, At
  <1>2. ~idempotency[x].settled
    BY <1>1 DEF StoreOK, StoreInv, MemoryOp
  <1>3. /\ DOMAIN idempotency' = DOMAIN idempotency \ {x}
        /\ \A y \in DOMAIN idempotency' : idempotency'[y] = idempotency[y]
    BY <1>1 DEF Drop
  <1>4. SettledOutcome' = SettledOutcome
    BY <1>2, <1>3, OutcomesSame
  <1>5. SettledStay
    BY <1>2, <1>3 DEF SettledStay
  <1>6. calls \in SUBSET DOMAIN ops /\ \A s \in calls : ~Ended(s)
    BY <1>1 DEF JoinedBy, At, Ended
  <1>7. \A j \in DOMAIN ops :
           /\ [ops[j] EXCEPT !.pc = "refused"].pc = "refused"
           /\ KeyOf([ops[j] EXCEPT !.pc = "refused"]) = KeyOf(ops[j])
           /\ [ops[j] EXCEPT !.pc = "refused"].hash = ops[j].hash
    BY OpFields DEF StoreOK, Operation, KeyOf
  <1>8. /\ DOMAIN ops' = DOMAIN ops
        /\ \A s \in DOMAIN ops : KeyOf(ops'[s]) = KeyOf(ops[s]) /\ ops'[s].hash = ops[s].hash
        /\ \A s \in calls : ops'[s].pc = "refused"
        /\ \A s \in DOMAIN ops : s \notin calls => ops'[s] = ops[s]
    BY <1>1, <1>6, <1>7
  <1>9. \A s \in calls : Refused(ops[s])'
    BY <1>8 DEF Refused
  <1> HIDE DEF calls
  <1>10. Promise!Next
    BY <1>4, <1>5, <1>6, <1>8, <1>9, RefuseStep
  <1> QED  BY <1>10 DEF PromiseStep

\* A row that is there at once, without a transaction, is an outcome.
LEMMA InsertedStep ==
    ASSUME StoreOK, NEW k \in Slots, Inserted(k)
    PROVE  PromiseStep
  <1> DEFINE x == KeyOf(ops[k])
             row == [hash |-> ops[k].hash, value |-> ops[k].value, settled |-> TRUE]
  <1>1. /\ k \in DOMAIN ops /\ ~Ended(k) /\ Goto(k, "commit") /\ x \notin DOMAIN idempotency
        /\ UNCHANGED idempotency \/ idempotency' = Put(idempotency, x, row)
    BY DEF Inserted, At, Ended
  <1>2. CASE UNCHANGED idempotency
    BY <1>1, <1>2, OpenStep DEF OpPcs
  <1>3. CASE idempotency' = Put(idempotency, x, row)
    <2>1. row.hash = ops[k].hash /\ row.settled
      OBVIOUS
    <2> HIDE DEF x, row
    <2>2. /\ DOMAIN idempotency' = DOMAIN idempotency \cup {x} /\ idempotency'[x] = row
          /\ \A y \in DOMAIN idempotency : idempotency'[y] = idempotency[y]
      BY <1>1, <1>3 DEF Put
    <2>3. SettledStay
      BY <2>2 DEF SettledStay
    <2>4. AskedBySlot' = AskedBySlot
      BY <1>1, <2>3, OpenMove DEF OpPcs
    <2>5. StoreTypeOK'
      BY InsertedKeepsStore DEF StoreOK
    <2>6. \A y \in DOMAIN idempotency' :
             \/ ~idempotency'[y].settled
             \/ y \in DOMAIN idempotency /\ idempotency[y].settled
             \/ \E s \in DOMAIN ops : /\ ~Ended(s) /\ KeyOf(ops[s]) = y
                                      /\ ops[s].hash = idempotency'[y].hash
      BY <1>1, <2>1, <2>2 DEF x
    <2>7. Promise!Next
      BY <2>3, <2>4, <2>5, <2>6, RecordStep
    <2> QED  BY <2>7 DEF PromiseStep
  <1> QED  BY <1>1, <1>2, <1>3

\* The rows of a transaction are outcomes of the calls that have inserted them.
LEMMA CommittedStep ==
    ASSUME StoreOK, NEW k \in Slots, Committed(k)
    PROVE  PromiseStep
  <1>1. PICK c \in Connections :
           /\ k \in DOMAIN ops /\ ~Ended(k)
           /\ DOMAIN idempotency' = DOMAIN idempotency \cup DOMAIN Rows(c)
           /\ \A x \in DOMAIN idempotency : idempotency'[x] = idempotency[x]
           /\ \A x \in DOMAIN Rows(c) : RowInv(c, x) /\ idempotency'[x] = Rows(c)[x]
    BY CommitMerges
  <1>2. SettledStay
    BY <1>1 DEF SettledStay
  <1>3. AskedBySlot' = AskedBySlot
    BY <1>1, <1>2, OpenMove DEF Committed, OpPcs
  <1>4. StoreTypeOK'
    BY CommittedKeepsStore DEF StoreOK
  <1>5. ASSUME NEW x \in DOMAIN idempotency', idempotency'[x].settled,
               ~(x \in DOMAIN idempotency /\ idempotency[x].settled)
        PROVE  \E s \in DOMAIN ops : /\ ~Ended(s) /\ KeyOf(ops[s]) = x
                                     /\ ops[s].hash = idempotency'[x].hash
    BY <1>1, <1>5 DEF RowInv, Ended
  <1>6. Promise!Next
    BY <1>2, <1>3, <1>4, <1>5, RecordStep
  <1> QED  BY <1>6 DEF PromiseStep

\* The steps of the store keep the promise.
LEMMA StepKeepsPromise ==
    ASSUME StoreOK, NEW k \in Slots, StoreStep(k)
    PROVE  PromiseStep
  <1>1. CASE \/ PutInMemory(k) \/ Locked(k) \/ Selected(k) \/ PutInPostgres(k)
             \/ StatementFails(k)
    <2>1. k \in DOMAIN ops /\ ~Ended(k) /\ UNCHANGED idempotency
      BY <1>1 DEF PutInMemory, Locked, Selected, PutInPostgres, StatementFails, At, Ended
    <2>2. \E pc \in {"written", "select", "put", "commit", "rollback", "insert"} : Goto(k, pc)
      BY <1>1 DEF PutInMemory, Locked, Selected, PutInPostgres, StatementFails
    <2> QED  BY <2>1, <2>2, OpenStep DEF OpPcs
  <1>2. CASE RolledBack(k)
    <2>1. k \in DOMAIN ops /\ ~Ended(k) /\ Goto(k, "refused") /\ UNCHANGED idempotency
      BY <1>2 DEF RolledBack, At, Ended
    <2> QED  BY <2>1, RefuseOne
  <1>3. CASE AnswerJoined(k) \/ AnswerSettled(k)
    BY <1>3, AnsweredStep
  <1> QED  BY <1>1, <1>2, <1>3, SettledStep, FailedStep, InsertedStep, CommittedStep
              DEF StoreStep

\* runIdempotent starts a call.
LEMMA RunKeepsPromise ==
    ASSUME StoreOK, NEW k \in Slots, NEW t \in Tenants, NEW key \in IdempotencyKeys,
           NEW h \in Hashes, NEW v \in StoreValues, RunIdempotent(k, t, key, h, v)
    PROVE  PromiseStep
  <1> DEFINE x == <<t, key>>
             o == [hash |-> h, value |-> v, settled |-> FALSE]
  <1>1. \/ UNCHANGED idempotency
        \/ x \notin DOMAIN idempotency /\ idempotency' = Put(idempotency, x, o)
    <2>1. x \in DOMAIN idempotency => idempotency[x] # None
      BY StoreAssumption DEF StoreOK, StoreTypeOK, IsMap, Outcomes
    <2> QED  BY <2>1 DEF RunIdempotent, RunInMemory, RunInPostgres
  <1>2. ~o.settled /\ x \in TenantKeys
    BY DEF TenantKeys
  <1> HIDE DEF o, x
  <1>3. /\ \A y \in DOMAIN idempotency : y \in DOMAIN idempotency' /\ idempotency'[y] = idempotency[y]
        /\ \A y \in DOMAIN idempotency' : y \notin DOMAIN idempotency => ~idempotency'[y].settled
    BY <1>1, <1>2 DEF Put
  <1>4. SettledStay /\ SettledOutcome' = SettledOutcome
    BY <1>3, OutcomesSame DEF SettledStay
  <1>5. /\ k \notin DOMAIN ops /\ DOMAIN ops' = DOMAIN ops \cup {k}
        /\ KeyOf(ops'[k]) = x /\ ops'[k].hash = h /\ ops'[k].pc # "answered"
        /\ \A j \in DOMAIN ops :
              /\ KeyOf(ops'[j]) = KeyOf(ops[j]) /\ ops'[j].hash = ops[j].hash
              /\ ops'[j].pc = ops[j].pc
              /\ ops'[j] = ops[j] \/ ~Ended(j)
    BY RunStarts DEF x, Started, StoreOK
  <1>6. Promise!Next
    BY <1>2, <1>4, <1>5, AskStep
  <1> QED  BY <1>6 DEF PromiseStep

\* What a step of the store does to the calls and to the records.
LEMMA StoreStepView ==
    ASSUME StoreOK, NEW k \in Slots, StoreStep(k)
    PROVE  /\ DOMAIN ops' = DOMAIN ops
           /\ \A j \in DOMAIN ops :
                 /\ ops'[j].tenant = ops[j].tenant /\ ops'[j].value = ops[j].value
                 /\ ops'[j].pc \in {"lock", "select", "put"} =>
                       ops[j].pc \in {"lock", "select", "put"}
           /\ \/ UNCHANGED records
              \/ /\ k \in DOMAIN ops /\ ops[k].pc = "put"
                 /\ WriteRecord(ops[k].tenant, ops[k].value)
                 /\ ops'[k].pc \notin {"lock", "select", "put"}
  <1>1. ASSUME k \in DOMAIN ops, NEW pc \in OpPcs, Goto(k, pc),
               pc # "lock", pc \in {"select", "put"} => ops[k].pc \in {"lock", "select"}
        PROVE  /\ DOMAIN ops' = DOMAIN ops /\ ops'[k].pc = pc
               /\ \A j \in DOMAIN ops :
                     /\ ops'[j].tenant = ops[j].tenant /\ ops'[j].value = ops[j].value
                     /\ ops'[j].pc \in {"lock", "select", "put"} =>
                           ops[j].pc \in {"lock", "select", "put"}
    <2>1. /\ DOMAIN ops' = DOMAIN ops /\ ops'[k].pc = pc
          /\ \A j \in DOMAIN ops : j # k => ops'[j] = ops[j]
          /\ \A j \in DOMAIN ops :
                ops'[j].tenant = ops[j].tenant /\ ops'[j].value = ops[j].value
      BY <1>1, GotoKeeps DEF StoreOK
    <2> QED  BY <1>1, <2>1
  <1>2. CASE PutInMemory(k) \/ PutInPostgres(k)
    <2>1. /\ k \in DOMAIN ops /\ ops[k].pc = "put"
          /\ WriteRecord(ops[k].tenant, ops[k].value)
          /\ Goto(k, "written") \/ Goto(k, "insert")
      BY <1>2 DEF PutInMemory, PutInPostgres, At
    <2> QED  BY <1>1, <2>1 DEF OpPcs
  <1>3. CASE FailInMemory(k)
    <2>1. /\ ops' = [j \in DOMAIN ops |->
                        IF j = k \/ j \in JoinedBy(k)
                        THEN [ops[j] EXCEPT !.pc = "refused"] ELSE ops[j]]
          /\ UNCHANGED records
      BY <1>3 DEF FailInMemory
    <2>2. \A j \in DOMAIN ops :
             /\ [ops[j] EXCEPT !.pc = "refused"].pc = "refused"
             /\ [ops[j] EXCEPT !.pc = "refused"].tenant = ops[j].tenant
             /\ [ops[j] EXCEPT !.pc = "refused"].value = ops[j].value
      BY OpFields DEF StoreOK, Operation
    <2> QED  BY <2>1, <2>2
  <1>4. CASE \/ SettleInMemory(k) \/ AnswerJoined(k) \/ Locked(k) \/ Selected(k)
             \/ Inserted(k) \/ Committed(k) \/ AnswerSettled(k) \/ StatementFails(k)
             \/ RolledBack(k)
    <2>1. k \in DOMAIN ops /\ UNCHANGED records
      BY <1>4 DEF SettleInMemory, AnswerJoined, Locked, Selected, Inserted, Committed,
                  AnswerSettled, StatementFails, RolledBack, At
    <2>2. \E pc \in {"settled", "answered", "select", "put", "commit", "rollback", "refused"} :
             Goto(k, pc) /\ (pc \in {"select", "put"} => ops[k].pc \in {"lock", "select"})
      BY <1>4 DEF SettleInMemory, AnswerJoined, Locked, Selected, Inserted, Committed,
                  AnswerSettled, StatementFails, RolledBack, At
    <2> QED  BY <1>1, <2>1, <2>2 DEF OpPcs
  <1> QED  BY <1>2, <1>3, <1>4 DEF StoreStep
-----------------------------------------------------------------------------
(* The requests.                                                           *)

ServicePcs == {"wallet", "authorize", "run", "running", "audit", "done"}
ActionPcs == {"simulate", "authorizeAction", "done"}

\* The fields of a request in progress.
LEMMA RequestFields ==
    ASSUME Typed, NEW k \in DOMAIN requests
    PROVE  /\ k \in Slots
           /\ requests[k].pc \in ServicePcs \cup ActionPcs
           /\ requests[k].pc \in ServicePcs \ {"done"} =>
                 /\ requests[k] \in ServiceRequest
                 /\ requests[k].caller \in Callers /\ requests[k].caller.tenant \in Tenants
                 /\ requests[k].key \in IdempotencyKeys /\ requests[k].body \in Bodies
                 /\ requests[k].body.hash \in Hashes
                 /\ requests[k].body.entity \in StoreValues
           /\ requests[k].pc \in ActionPcs \ {"done"} =>
                 requests[k] \in ActionRequest /\ requests[k].action \in Actions
  <1>1. k \in Slots /\ requests[k] \in ServiceRequest \cup ActionRequest
    BY DEF Typed, IsMap
  <1>2. CASE requests[k] \in ServiceRequest
    BY <1>1, <1>2, WalletAssumption DEF ServiceRequest, ServicePcs, ActionPcs
  <1>3. CASE requests[k] \in ActionRequest
    BY <1>1, <1>3 DEF ActionRequest, ServicePcs, ActionPcs
  <1> QED  BY <1>1, <1>2, <1>3

\* A request moves on and keeps its caller, its key and its body.
LEMMA MoveKeeps ==
    ASSUME Typed, NEW k \in DOMAIN requests, NEW pc,
           \/ requests[k].pc \in ServicePcs \ {"done"} /\ pc \in ServicePcs
           \/ requests[k].pc \in ActionPcs \ {"done"} /\ pc \in ActionPcs,
           MoveRequest(k, pc)
    PROVE  /\ IsMap(requests, Slots, ServiceRequest \cup ActionRequest)'
           /\ DOMAIN requests' = DOMAIN requests
           /\ requests'[k].pc = pc
           /\ requests[k].pc \in ServicePcs \ {"done"} =>
                 /\ requests'[k].caller = requests[k].caller
                 /\ requests'[k].body = requests[k].body
           /\ \A j \in DOMAIN requests : j # k => requests'[j] = requests[j]
  <1> DEFINE q == [requests[k] EXCEPT !.pc = pc]
             R == ServiceRequest \cup ActionRequest
  <1>1. IsMap(requests, Slots, R) /\ k \in Slots
    BY RequestFields DEF Typed
  <1>2. /\ q \in R /\ q.pc = pc
        /\ requests[k].pc \in ServicePcs \ {"done"} =>
              q.caller = requests[k].caller /\ q.body = requests[k].body
    <2>1. CASE requests[k].pc \in ServicePcs \ {"done"} /\ pc \in ServicePcs
      BY <2>1, RequestFields DEF ServiceRequest, ServicePcs
    <2>2. CASE requests[k].pc \in ActionPcs \ {"done"} /\ pc \in ActionPcs
      BY <2>2, RequestFields DEF ActionRequest, ServicePcs, ActionPcs
    <2> QED  BY <2>1, <2>2
  <1>3. requests' = [requests EXCEPT ![k] = q]
    BY DEF MoveRequest
  <1> HIDE DEF q, R
  <1>4. IsMap([requests EXCEPT ![k] = q], Slots, R)
    BY <1>1, <1>2, UpdateType
  <1>5. /\ DOMAIN requests' = DOMAIN requests /\ requests'[k] = q
        /\ \A j \in DOMAIN requests : j # k => requests'[j] = requests[j]
    BY <1>1, <1>3 DEF IsMap
  <1> QED  BY <1>2, <1>3, <1>4, <1>5 DEF R
-----------------------------------------------------------------------------
(* The signer policy.                                                      *)

AuthPcs == {"session", "sessionRevoked", "policy", "policyRevoked", "stepUp", "reserve",
            "allowed", "denied"}

\* The fields of an authorisation in progress.
LEMMA AuthFields ==
    ASSUME Typed, NEW k \in DOMAIN auths
    PROVE  /\ k \in Slots /\ auths[k] \in Auth
           /\ auths[k].req \in AskedRequests /\ auths[k].at \in Nat
           /\ auths[k].pc \in AuthPcs /\ auths[k].revoked \in BOOLEAN
  BY DEF Typed, IsMap, Auth, AuthPcs

\* An authorisation is replaced by one of the same request.
LEMMA AuthKeeps ==
    ASSUME Typed, NEW k \in DOMAIN auths, NEW a \in Auth,
           auths' = [auths EXCEPT ![k] = a]
    PROVE  /\ IsMap(auths, Slots, Auth)' /\ DOMAIN auths' = DOMAIN auths
           /\ auths'[k] = a
           /\ \A j \in DOMAIN auths : j # k => auths'[j] = auths[j]
  <1>1. IsMap([auths EXCEPT ![k] = a], Slots, Auth)
    BY UpdateType DEF Typed
  <1> QED  BY <1>1 DEF Typed, IsMap

\* The authorisation k goes on to pc, for the same request.
SameRequest(k, pc) ==
    /\ k \in DOMAIN auths /\ IsMap(auths, Slots, Auth)' /\ DOMAIN auths' = DOMAIN auths
    /\ auths'[k].req = auths[k].req /\ auths'[k].at = auths[k].at
    /\ auths'[k].revoked = auths[k].revoked
    /\ auths'[k].pc = pc
    /\ \A j \in DOMAIN auths : j # k => auths'[j] = auths[j]

\* Its place alone changes.
LEMMA PlaceChanges ==
    ASSUME Typed, NEW k \in DOMAIN auths, NEW pc \in AuthPcs,
           auths' = [auths EXCEPT ![k].pc = pc]
    PROVE  SameRequest(k, pc) /\ auths'[k].policy = auths[k].policy
  <1> DEFINE a == [auths[k] EXCEPT !.pc = pc]
  <1>1. /\ a \in Auth /\ a.pc = pc /\ a.req = auths[k].req /\ a.at = auths[k].at
        /\ a.policy = auths[k].policy
    BY AuthFields DEF Auth, AuthPcs
  <1>2. a.revoked = auths[k].revoked
    BY AuthFields, Zenon DEF Auth
  <1>3. auths' = [auths EXCEPT ![k] = a]
    OBVIOUS
  <1> HIDE DEF a
  <1> QED  BY <1>1, <1>2, <1>3, AuthKeeps DEF SameRequest

\* Its session is read, or its policy.
LEMMA SessionRead ==
    ASSUME Typed, NEW k \in DOMAIN auths, NEW pc \in AuthPcs,
           NEW s \in SessionValues \cup {None},
           auths' = [auths EXCEPT ![k].pc = pc, ![k].session = s]
    PROVE  SameRequest(k, pc)
  <1> DEFINE a == [auths[k] EXCEPT !.pc = pc, !.session = s]
  <1>1. a \in Auth /\ a.pc = pc /\ a.req = auths[k].req /\ a.at = auths[k].at
    BY AuthFields DEF Auth, AuthPcs
  <1>2. a.revoked = auths[k].revoked
    BY AuthFields, Zenon DEF Auth
  <1>3. auths' = [auths EXCEPT ![k] = a]
    BY DEF Typed, IsMap
  <1> HIDE DEF a
  <1> QED  BY <1>1, <1>2, <1>3, AuthKeeps DEF SameRequest

LEMMA PolicyRead ==
    ASSUME Typed, NEW k \in DOMAIN auths, NEW pc \in AuthPcs,
           NEW p \in PolicyValues \cup {None},
           auths' = [auths EXCEPT ![k].pc = pc, ![k].policy = p]
    PROVE  SameRequest(k, pc) /\ auths'[k].policy = p
  <1> DEFINE a == [auths[k] EXCEPT !.pc = pc, !.policy = p]
  <1>1. /\ a \in Auth /\ a.pc = pc /\ a.req = auths[k].req /\ a.at = auths[k].at
        /\ a.policy = p
    BY AuthFields DEF Auth, AuthPcs
  <1>2. a.revoked = auths[k].revoked
    BY AuthFields, Zenon DEF Auth
  <1>3. auths' = [auths EXCEPT ![k] = a]
    BY DEF Typed, IsMap
  <1> HIDE DEF a
  <1> QED  BY <1>1, <1>2, <1>3, AuthKeeps DEF SameRequest

\* Where an authorisation goes, and what it has seen by then.
AuthMoves(k) ==
    \/ SameRequest(k, "denied") /\ auths[k].pc \notin {"allowed", "denied"}
    \/ auths[k].pc = "session" /\ SameRequest(k, "sessionRevoked")
    \/ /\ auths[k].pc = "sessionRevoked" /\ SameRequest(k, "policy")
       /\ auths[k].req.session \notin revokedSessions
    \/ /\ auths[k].pc = "policy" /\ SameRequest(k, "policyRevoked")
       /\ \E i \in DOMAIN policies : auths'[k].policy = policies[i]
    \/ /\ auths[k].pc = "policyRevoked"
       /\ SameRequest(k, "stepUp") \/ SameRequest(k, "reserve")
       /\ auths'[k].policy = auths[k].policy
       /\ auths[k].req.policy \notin revokedPolicies
    \/ /\ auths[k].pc = "stepUp" /\ SameRequest(k, "reserve")
       /\ auths'[k].policy = auths[k].policy

LEMMA AuthorizeMoves ==
    ASSUME Typed, NEW k \in Slots,
           \/ GetSession(k) \/ IsSessionRevoked(k) \/ GetPolicy(k) \/ IsPolicyRevoked(k)
           \/ StepUpVerified(k) \/ StoreUnavailable(k)
    PROVE  AuthMoves(k) /\ UNCHANGED <<now, policyVars, usageVars>>
  <1>1. CASE GetSession(k)
    <2>1. /\ k \in DOMAIN auths /\ auths[k].pc = "session"
          /\ UNCHANGED <<now, policyVars, usageVars>>
      BY <1>1 DEF GetSession, AuthAt
    <2>2. \E pc \in {"sessionRevoked", "denied"}, s \in SessionValues \cup {None} :
             auths' = [auths EXCEPT ![k].pc = pc, ![k].session = s]
      <3>1. CASE auths[k].req.session \in DOMAIN sessions
        BY <1>1, <3>1 DEF GetSession, Typed, WalletTypeOK, IsMap
      <3>2. CASE auths[k].req.session \notin DOMAIN sessions
        BY <1>1, <3>2 DEF GetSession
      <3> QED  BY <3>1, <3>2
    <2>3. SameRequest(k, "sessionRevoked") \/ SameRequest(k, "denied")
      BY <2>1, <2>2, SessionRead DEF AuthPcs
    <2> QED  BY <2>1, <2>3 DEF AuthMoves
  <1>2. CASE IsSessionRevoked(k)
    <2>1. /\ k \in DOMAIN auths /\ auths[k].pc = "sessionRevoked"
          /\ UNCHANGED <<now, policyVars, usageVars>>
      BY <1>2 DEF IsSessionRevoked, AuthAt, Continue
    <2>2. \/ auths' = [auths EXCEPT ![k].pc = "denied"]
          \/ /\ auths' = [auths EXCEPT ![k].pc = "policy"]
             /\ auths[k].req.session \notin revokedSessions
      BY <1>2 DEF IsSessionRevoked, Continue
    <2> QED  BY <2>1, <2>2, PlaceChanges DEF AuthMoves, AuthPcs
  <1>3. CASE GetPolicy(k)
    <2>1. /\ k \in DOMAIN auths /\ auths[k].pc = "policy"
          /\ UNCHANGED <<now, policyVars, usageVars>>
      BY <1>3 DEF GetPolicy, AuthAt
    <2>2. CASE auths[k].req.policy \in DOMAIN policies
      <3> DEFINE p == policies[auths[k].req.policy]
      <3>1. /\ auths' = [auths EXCEPT ![k].pc = "policyRevoked", ![k].policy = p]
            /\ p \in PolicyValues
        BY <1>3, <2>2 DEF GetPolicy, Typed, WalletTypeOK, IsMap
      <3>2. SameRequest(k, "policyRevoked") /\ auths'[k].policy = p
        BY <2>1, <3>1, PolicyRead DEF AuthPcs
      <3> QED  BY <2>1, <2>2, <3>2 DEF AuthMoves
    <2>3. CASE auths[k].req.policy \notin DOMAIN policies
      <3>1. auths' = [auths EXCEPT ![k].pc = "denied", ![k].policy = None]
        BY <1>3, <2>3 DEF GetPolicy
      <3>2. SameRequest(k, "denied")
        BY <2>1, <3>1, PolicyRead DEF AuthPcs
      <3> QED  BY <2>1, <3>2 DEF AuthMoves
    <2> QED  BY <2>2, <2>3
  <1>4. CASE IsPolicyRevoked(k)
    <2>1. /\ k \in DOMAIN auths /\ auths[k].pc = "policyRevoked"
          /\ UNCHANGED <<now, policyVars, usageVars>>
      BY <1>4 DEF IsPolicyRevoked, AuthAt, Continue
    <2>2. \/ auths' = [auths EXCEPT ![k].pc = "denied"]
          \/ /\ \/ auths' = [auths EXCEPT ![k].pc = "stepUp"]
                \/ auths' = [auths EXCEPT ![k].pc = "reserve"]
             /\ auths[k].req.policy \notin revokedPolicies
      BY <1>4 DEF IsPolicyRevoked, Continue
    <2> QED  BY <2>1, <2>2, PlaceChanges DEF AuthMoves, AuthPcs
  <1>5. CASE StepUpVerified(k)
    <2>1. /\ k \in DOMAIN auths /\ auths[k].pc = "stepUp"
          /\ UNCHANGED <<now, policyVars, usageVars>>
      BY <1>5 DEF StepUpVerified, AuthAt, Continue
    <2>2. \/ auths' = [auths EXCEPT ![k].pc = "denied"]
          \/ auths' = [auths EXCEPT ![k].pc = "reserve"]
      BY <1>5 DEF StepUpVerified, Continue
    <2> QED  BY <2>1, <2>2, PlaceChanges DEF AuthMoves, AuthPcs
  <1>6. CASE StoreUnavailable(k)
    <2>1. /\ k \in DOMAIN auths /\ auths[k].pc \notin {"allowed", "denied"}
          /\ auths' = [auths EXCEPT ![k].pc = "denied"]
          /\ UNCHANGED <<now, policyVars, usageVars>>
      BY <1>6 DEF StoreUnavailable, Continue
    <2> QED  BY <2>1, PlaceChanges DEF AuthMoves, AuthPcs
  <1> QED  BY <1>1, <1>2, <1>3, <1>4, <1>5, <1>6

\* The window of the authorisation k, its usage, and the reservation it makes.
KeyAt(k) == FrequencyKey(auths[k].req)
StartAt(k) == WindowStart(auths[k].policy, auths[k].at)
CountAt(k) == UsageAt(KeyAt(k), StartAt(k)).count
AmountAt(k) == UsageAt(KeyAt(k), StartAt(k)).amount
Reservation(k) ==
    [req |-> auths[k].req, key |-> KeyAt(k), start |-> StartAt(k),
     late |-> \E r \in reservations : r.key = KeyAt(k) /\ r.start > StartAt(k),
     revoked |-> auths[k].revoked]
Granted(k) ==
    /\ auths[k].req.id \notin consumedRequestIds
    /\ CountAt(k) < auths[k].policy.maxOperations
    /\ consumedRequestIds' = consumedRequestIds \cup {auths[k].req.id}
    /\ reservations' = reservations \cup {Reservation(k)}
    /\ usage' = Put(usage, KeyAt(k), [windowStart |-> StartAt(k), count |-> CountAt(k) + 1,
                                      amount |-> AmountAt(k) + auths[k].req.amount])

\* The usage is consulted, and the request is reserved or not.
LEMMA ReserveMoves ==
    ASSUME Typed, NEW k \in Slots, Reserve(k)
    PROVE  /\ k \in DOMAIN auths /\ auths[k].pc = "reserve" /\ UNCHANGED <<now, policyVars>>
           /\ \/ SameRequest(k, "denied") /\ UNCHANGED usageVars
              \/ SameRequest(k, "allowed") /\ Granted(k)
  <1> DEFINE a == auths[k]
             f == FrequencyKey(a.req)
             start == WindowStart(a.policy, a.at)
             u == UsageAt(f, start)
             granted == Unused(a.req.id) /\ WithinFrequency(a.policy, u, a.req.amount)
  <1>1. k \in DOMAIN auths /\ a.pc = "reserve" /\ UNCHANGED <<now, policyVars>>
    BY DEF Reserve, AuthAt
  <1>2. CASE ~granted
    <2>1. auths' = [auths EXCEPT ![k].pc = "denied"] /\ UNCHANGED usageVars
      BY <1>2, Zenon DEF Reserve
    <2> QED  BY <1>1, <2>1, PlaceChanges DEF AuthPcs
  <1>3. CASE granted
    <2>1. /\ auths' = [auths EXCEPT ![k].pc = "allowed"]
          /\ usage' = Put(usage, f, [windowStart |-> start, count |-> u.count + 1,
                                     amount |-> u.amount + a.req.amount])
          /\ consumedRequestIds' = consumedRequestIds \cup {a.req.id}
          /\ reservations' = reservations \cup
                {[req |-> a.req, key |-> f, start |-> start,
                  late |-> \E r \in reservations : r.key = f /\ r.start > start,
                  revoked |-> a.revoked]}
      BY <1>3, Zenon DEF Reserve
    <2>2. a.req.id \notin consumedRequestIds /\ u.count < a.policy.maxOperations
      BY <1>3, Zenon DEF Unused, WithinFrequency
    <2>3. Granted(k)
      BY <2>1, <2>2, Zenon DEF Granted, KeyAt, StartAt, CountAt, AmountAt, Reservation
    <2> QED  BY <1>1, <2>1, <2>3, PlaceChanges DEF AuthPcs
  <1> QED  BY <1>2, <1>3

\* The usage is kept, and so are the limits, when a request is reserved.
LEMMA GrantKeepsUsage ==
    ASSUME Typed, PolicyInv, UsageInv, WindowsHold, NEW k \in DOMAIN auths,
           auths[k].pc = "reserve", Granted(k)
    PROVE  UsageInv' /\ WindowsHold'
  <1> DEFINE f == KeyAt(k)
             start == StartAt(k)
             count == CountAt(k)
             late == \E r \in reservations : r.key = f /\ r.start > start
             new == Reservation(k)
             u == [windowStart |-> start, count |-> count + 1,
                   amount |-> AmountAt(k) + auths[k].req.amount]
  <1>1. /\ auths[k].policy \in PolicyValues /\ auths[k].policy.windowSeconds \in Int
        /\ auths[k].policy.windowSeconds >= 1 /\ auths[k].policy.maxOperations \in Int
        /\ auths[k].at \in Nat
    BY AuthFields, SignerPolicyAssumption DEF PolicyInv
  <1>2. start \in Int
    BY <1>1 DEF StartAt, WindowStart
  <1>3. /\ reservations' = reservations \cup {new} /\ usage' = Put(usage, f, u)
        /\ auths[k].req.id \notin consumedRequestIds
        /\ consumedRequestIds' = consumedRequestIds \cup {auths[k].req.id}
        /\ count < auths[k].policy.maxOperations
    BY DEF Granted
  <1>4. /\ new.key = f /\ new.start = start /\ new.req = auths[k].req
        /\ new.late <=> late
    BY Zenon DEF Reservation
  <1>5. new \notin reservations
    BY <1>3, <1>4 DEF UsageInv
  <1>6. u.windowStart = start /\ u.count = count + 1
    OBVIOUS
  <1>7. /\ ~(f \in DOMAIN usage /\ usage[f].windowStart = start) => count = 0
        /\ f \in DOMAIN usage /\ usage[f].windowStart = start => count = usage[f].count
    BY DEF CountAt, UsageAt
  <1>8. count \in Nat
    BY <1>7 DEF UsageInv
  <1> HIDE DEF f, start, count, new, u
  <1>9. /\ DOMAIN usage' = DOMAIN usage \cup {f} /\ usage'[f] = u
        /\ \A g \in DOMAIN usage : g # f => usage'[g] = usage[g]
    BY <1>3 DEF Put
  <1>10. IsFiniteSet(reservations')
    BY <1>3, FS_AddElement DEF UsageInv
  <1>11. \A g : Orderly(reservations', g) => Orderly(reservations, g)
    BY <1>3 DEF Orderly
  <1>12. \A g, t : g # f \/ t # start => Window(reservations', g, t) = Window(reservations, g, t)
    BY <1>3, <1>4 DEF Window
  <1>13. ASSUME Orderly(reservations', f)
         PROVE  /\ \A r \in reservations : r.key = f => r.start <= start
                /\ Cardinality(Window(reservations', f, start)) = count + 1
    <2>1. ~late
      BY <1>3, <1>4, <1>13 DEF Orderly
    <2>2. \A r \in reservations : r.start \in Int
      BY DEF UsageInv
    <2>3. \A r \in reservations : r.key = f => r.start <= start
      BY <1>2, <2>1, <2>2
    <2>4. Orderly(reservations, f)
      BY <1>11, <1>13
    <2>5. IsFiniteSet(Window(reservations, f, start))
      BY FS_Subset DEF Window, UsageInv
    <2>6. Cardinality(Window(reservations, f, start)) = count
      <3>1. CASE f \in DOMAIN usage /\ usage[f].windowStart = start
        BY <1>7, <2>4, <3>1 DEF UsageInv
      <3>2. CASE ~(f \in DOMAIN usage /\ usage[f].windowStart = start)
        <4>1. ASSUME NEW r \in reservations, r.key = f, r.start = start
              PROVE  FALSE
          <5>1. f \in DOMAIN usage /\ usage[f].windowStart # start
            BY <3>2, <4>1 DEF UsageInv
          <5>2. /\ start <= usage[f].windowStart /\ usage[f].windowStart \in Int
                /\ \E s \in reservations : s.key = f /\ s.start = usage[f].windowStart
            BY <2>4, <4>1, <5>1 DEF UsageInv
          <5> QED  BY <1>2, <2>3, <5>1, <5>2
        <4>2. Window(reservations, f, start) = {}
          BY <4>1 DEF Window
        <4> QED  BY <1>7, <3>2, <4>2, FS_EmptySet
      <3> QED  BY <3>1, <3>2
    <2>7. Window(reservations', f, start) = Window(reservations, f, start) \cup {new}
      BY <1>3, <1>4 DEF Window
    <2>8. new \notin Window(reservations, f, start)
      BY <1>5 DEF Window
    <2>9. Cardinality(Window(reservations, f, start) \cup {new}) = Cardinality(Window(reservations, f, start)) + 1
      BY <2>5, <2>8, FS_AddElement
    <2> QED  BY <2>3, <2>6, <2>7, <2>9
  <1>14. UsageInv'
    <2>1. \A r \in reservations' :
             /\ r.req.id \in consumedRequestIds' /\ r.start \in Int
             /\ r.key \in DOMAIN usage'
      BY <1>2, <1>3, <1>4, <1>9 DEF UsageInv
    <2>2. ASSUME NEW g \in DOMAIN usage'
          PROVE  /\ usage'[g].count \in Nat /\ usage'[g].windowStart \in Int
                 /\ Orderly(reservations', g) =>
                       /\ \E r \in reservations' : r.key = g /\ r.start = usage'[g].windowStart
                       /\ \A r \in reservations' : r.key = g => r.start <= usage'[g].windowStart
                       /\ Cardinality(Window(reservations', g, usage'[g].windowStart)) = usage'[g].count
      <3>1. CASE g = f
        BY <1>2, <1>3, <1>4, <1>6, <1>8, <1>9, <1>13, <3>1
      <3>2. CASE g # f
        <4>1. g \in DOMAIN usage /\ usage'[g] = usage[g]
          BY <1>9, <3>2
        <4>2. /\ usage[g].count \in Nat /\ usage[g].windowStart \in Int
              /\ Orderly(reservations, g) =>
                    /\ \E r \in reservations : r.key = g /\ r.start = usage[g].windowStart
                    /\ \A r \in reservations : r.key = g => r.start <= usage[g].windowStart
                    /\ Cardinality(Window(reservations, g, usage[g].windowStart))
                       = usage[g].count
          BY <4>1 DEF UsageInv
        <4>3. Window(reservations', g, usage[g].windowStart)
              = Window(reservations, g, usage[g].windowStart)
          BY <1>12, <3>2
        <4>4. ASSUME Orderly(reservations', g)
              PROVE  /\ \E r \in reservations' : r.key = g /\ r.start = usage[g].windowStart
                     /\ \A r \in reservations' : r.key = g => r.start <= usage[g].windowStart
          BY <1>3, <1>4, <1>11, <3>2, <4>2, <4>4
        <4> QED  BY <1>11, <4>1, <4>2, <4>3, <4>4
      <3> QED  BY <3>1, <3>2
    <2> QED  BY <1>10, <2>1, <2>2 DEF UsageInv
  <1>15. WindowsHold'
    <2>1. ASSUME NEW r \in reservations', \A s \in reservations' : s.key = r.key => ~s.late
          PROVE  \E p \in PolicyValues :
                    Cardinality({s \in reservations' : s.key = r.key /\ s.start = r.start})
                    <= p.maxOperations
      <3>1. Orderly(reservations', r.key)
        BY <2>1 DEF Orderly
      <3>2. CASE r.key = f /\ r.start = start
        <4>1. Cardinality({s \in reservations' : s.key = f /\ s.start = start}) = count + 1
          BY <1>13, <3>1, <3>2 DEF Window
        <4>2. count + 1 <= auths[k].policy.maxOperations
          BY <1>1, <1>3, <1>8
        <4>3. {s \in reservations' : s.key = r.key /\ s.start = r.start}
              = {s \in reservations' : s.key = f /\ s.start = start}
          BY <3>2
        <4> QED  BY <1>1, <4>1, <4>2, <4>3
      <3>3. CASE ~(r.key = f /\ r.start = start)
        <4>1. r \in reservations
          BY <1>3, <1>4, <3>3
        <4>2. {s \in reservations' : s.key = r.key /\ s.start = r.start}
              = {s \in reservations : s.key = r.key /\ s.start = r.start}
          BY <1>12, <3>3 DEF Window
        <4>3. Orderly(reservations, r.key)
          BY <1>11, <3>1
        <4> QED  BY <4>1, <4>2, <4>3 DEF WindowsHold, Orderly
      <3> QED  BY <3>2, <3>3
    <2> QED  BY <2>1 DEF WindowsHold
  <1> QED  BY <1>14, <1>15

SignerOK == PolicyInv /\ RevokedInv /\ UsageInv /\ WindowsHold

SignerTyped ==
    /\ now \in 0 .. MaxTime
    /\ IsMap(policies, Policies, PolicyValues) /\ IsMap(sessions, Sessions, SessionValues)
    /\ revokedPolicies \subseteq Policies /\ revokedSessions \subseteq Sessions
    /\ IsMap(auths, Slots, Auth)

\* What is reserved is not touched.
LEMMA UsageStays ==
    ASSUME UsageInv, WindowsHold, UNCHANGED usageVars
    PROVE  UsageInv' /\ WindowsHold'
  <1>1. UNCHANGED <<usage, consumedRequestIds, reservations>>
    BY DEF usageVars
  <1>2. UsageInv'
    BY <1>1, Zenon DEF UsageInv
  <1>3. WindowsHold'
    BY <1>1, Zenon DEF WindowsHold
  <1> QED  BY <1>2, <1>3

\* An authorisation begins.
LEMMA AuthorizeKeeps ==
    ASSUME Typed, SignerOK, NEW k \in Slots, NEW r \in AskedRequests, NEW at \in Nat,
           Authorize(k, r, at)
    PROVE  /\ SignerTyped' /\ SignerOK'
           /\ DOMAIN auths' = DOMAIN auths \cup {k}
           /\ auths'[k].req = r /\ auths'[k].pc = "session"
           /\ \A j \in DOMAIN auths : auths'[j] = auths[j]
  <1> DEFINE revoked == r.session \in revokedSessions \/ r.policy \in revokedPolicies
             a == [req |-> r, at |-> at, pc |-> "session", session |-> None,
                   policy |-> None, revoked |-> revoked]
  <1>1. /\ auths' = Put(auths, k, a) /\ k \notin DOMAIN auths
        /\ UNCHANGED <<now, policyVars, usageVars>>
    BY Zenon DEF Authorize
  <1>2. revoked \in BOOLEAN
    OBVIOUS
  <1>3. a \in Auth /\ a.req = r /\ a.pc = "session" /\ a.revoked = revoked
    <2> HIDE DEF revoked
    <2> QED  BY <1>2 DEF Auth
  <1>4. a.revoked => r.session \in revokedSessions \/ r.policy \in revokedPolicies
    BY <1>3
  <1> HIDE DEF a, revoked
  <1>5. /\ DOMAIN auths' = DOMAIN auths \cup {k} /\ auths'[k] = a
        /\ \A j \in DOMAIN auths : auths'[j] = auths[j]
    BY <1>1 DEF Put
  <1>6. SignerTyped'
    BY <1>1, <1>3, PutType DEF Typed, WalletTypeOK, SignerTyped, policyVars
  <1>7. PolicyInv'
    BY <1>1, <1>3, <1>5 DEF SignerOK, PolicyInv, policyVars
  <1>8. RevokedInv'
    BY <1>1, <1>3, <1>4, <1>5
       DEF SignerOK, RevokedInv, RevocationStopsRequests, policyVars, usageVars
  <1> QED  BY <1>1, <1>3, <1>5, <1>6, <1>7, <1>8, UsageStays DEF SignerOK

\* An authorisation ends.
LEMMA EndAuthorizationKeeps ==
    ASSUME Typed, SignerOK, NEW k \in Slots, EndAuthorization(k),
           UNCHANGED <<now, policyVars, usageVars>>
    PROVE  /\ SignerTyped' /\ SignerOK'
           /\ DOMAIN auths' = DOMAIN auths \ {k}
           /\ \A j \in DOMAIN auths' : auths'[j] = auths[j]
  <1>1. /\ DOMAIN auths' = DOMAIN auths \ {k} /\ \A j \in DOMAIN auths' : auths'[j] = auths[j]
    BY DEF EndAuthorization, Drop
  <1>2. SignerTyped'
    BY DropType DEF EndAuthorization, Typed, WalletTypeOK, SignerTyped, policyVars
  <1>3. PolicyInv'
    BY <1>1 DEF SignerOK, PolicyInv, policyVars
  <1>4. RevokedInv'
    BY <1>1 DEF SignerOK, RevokedInv, RevocationStopsRequests, policyVars, usageVars
  <1> QED  BY <1>1, <1>2, <1>3, <1>4, UsageStays DEF SignerOK

\* An authorisation goes on.
LEMMA AuthorizeStepKeeps ==
    ASSUME Typed, SignerOK, NEW k \in Slots, AuthorizeStep(k)
    PROVE  /\ SignerTyped' /\ SignerOK' /\ UNCHANGED now
           /\ \E pc \in AuthPcs :
                 /\ SameRequest(k, pc)
                 /\ \/ pc # "allowed" /\ UNCHANGED usageVars
                    \/ pc = "allowed" /\ Granted(k)
  <1>1. CASE \/ GetSession(k) \/ IsSessionRevoked(k) \/ GetPolicy(k) \/ IsPolicyRevoked(k)
             \/ StepUpVerified(k) \/ StoreUnavailable(k)
    <2>1. AuthMoves(k) /\ UNCHANGED <<now, policyVars, usageVars>>
      BY <1>1, AuthorizeMoves
    <2>2. \E pc \in AuthPcs : SameRequest(k, pc) /\ pc # "allowed"
      BY <2>1 DEF AuthMoves, AuthPcs
    <2>3. SignerTyped'
      BY <2>1, <2>2 DEF SameRequest, SignerTyped, Typed, WalletTypeOK, policyVars
    <2>4. PolicyInv'
      <3>1. \A i \in DOMAIN policies : policies[i] \in PolicyValues
        BY DEF Typed, WalletTypeOK, IsMap
      <3> QED  BY <2>1, <3>1 DEF AuthMoves, SameRequest, SignerOK, PolicyInv, policyVars
    <2>5. RevokedInv'
      BY <2>1 DEF AuthMoves, SameRequest, SignerOK, RevokedInv, RevocationStopsRequests,
                  policyVars, usageVars
    <2> QED  BY <2>1, <2>2, <2>3, <2>4, <2>5, UsageStays DEF SignerOK
  <1>2. CASE Reserve(k)
    <2>1. /\ k \in DOMAIN auths /\ auths[k].pc = "reserve" /\ UNCHANGED <<now, policyVars>>
          /\ \/ SameRequest(k, "denied") /\ UNCHANGED usageVars
             \/ SameRequest(k, "allowed") /\ Granted(k)
      BY <1>2, ReserveMoves
    <2>2. SignerTyped'
      BY <2>1 DEF SameRequest, SignerTyped, Typed, WalletTypeOK, policyVars
    <2>3. PolicyInv'
      BY <2>1 DEF SameRequest, SignerOK, PolicyInv, policyVars
    <2>4. UsageInv' /\ WindowsHold'
      BY <2>1, UsageStays, GrantKeepsUsage DEF SignerOK
    <2>5. ~auths[k].revoked
      BY <2>1 DEF SignerOK, RevokedInv
    <2>6. RevocationStopsRequests'
      <3>1. CASE UNCHANGED usageVars
        BY <3>1 DEF SignerOK, RevokedInv, RevocationStopsRequests, usageVars
      <3>2. CASE Granted(k)
        <4>1. Reservation(k).revoked = auths[k].revoked
          BY Zenon DEF Reservation
        <4>2. reservations' = reservations \cup {Reservation(k)}
          BY <3>2 DEF Granted
        <4> QED  BY <2>5, <4>1, <4>2 DEF SignerOK, RevokedInv, RevocationStopsRequests
      <3> QED  BY <2>1, <3>1, <3>2
    <2>7. RevokedInv'
      BY <2>1, <2>5, <2>6 DEF SameRequest, SignerOK, RevokedInv, policyVars
    <2> QED  BY <2>1, <2>2, <2>3, <2>4, <2>7 DEF SignerOK, AuthPcs
  <1> QED  BY <1>1, <1>2 DEF AuthorizeStep

\* Policies and sessions are put and revoked, and time passes.
LEMMA AdministerKeeps ==
    ASSUME Typed, SignerOK, Administer \/ Tick
    PROVE  SignerTyped' /\ SignerOK' /\ UNCHANGED <<auths, usageVars>>
  <1>1. UNCHANGED <<auths, usageVars>>
    BY DEF Administer, Tick, RevokePolicy, PutPolicy, RevokeSession, PutSession
  <1>2. now' \in 0 .. MaxTime
    BY SignerPolicyAssumption DEF Typed, WalletTypeOK, Administer, Tick, RevokePolicy,
          PutPolicy, RevokeSession, PutSession
  <1>3. revokedPolicies' \subseteq Policies /\ revokedSessions' \subseteq Sessions
    BY DEF Typed, WalletTypeOK, Administer, Tick, RevokePolicy,
          PutPolicy, RevokeSession, PutSession, policyVars
  <1>4. IsMap(sessions, Sessions, SessionValues)'
    BY PutType DEF Typed, WalletTypeOK, Administer, Tick, RevokePolicy,
          PutPolicy, RevokeSession, PutSession, policyVars
  <1>5. \/ UNCHANGED policies
        \/ \E i \in Policies, p \in PolicyValues : ValidPolicy(p) /\ policies' = Put(policies, i, p)
    BY DEF Administer, Tick, RevokePolicy, PutPolicy, RevokeSession, PutSession, policyVars
  <1>6. /\ IsMap(policies, Policies, PolicyValues)'
        /\ \A i \in DOMAIN policies' : policies'[i].windowSeconds >= 1
    <2>1. CASE UNCHANGED policies
      BY <2>1 DEF Typed, WalletTypeOK, SignerOK, PolicyInv
    <2>2. ASSUME NEW i \in Policies, NEW p \in PolicyValues, ValidPolicy(p),
                 policies' = Put(policies, i, p)
          PROVE  /\ IsMap(policies, Policies, PolicyValues)'
                 /\ \A j \in DOMAIN policies' : policies'[j].windowSeconds >= 1
      <3>1. IsMap(policies, Policies, PolicyValues)'
        BY <2>2, PutType DEF Typed, WalletTypeOK
      <3>2. p.windowSeconds >= 1
        BY <2>2 DEF ValidPolicy
      <3> QED  BY <2>2, <3>1, <3>2 DEF Put, SignerOK, PolicyInv
    <2> QED  BY <1>5, <2>1, <2>2
  <1>7. PolicyInv'
    BY <1>1, <1>6 DEF SignerOK, PolicyInv
  <1>8. revokedPolicies \subseteq revokedPolicies' /\ revokedSessions \subseteq revokedSessions'
    BY DEF Administer, Tick, RevokePolicy, PutPolicy, RevokeSession, PutSession, policyVars
  <1>9. RevokedInv'
    BY <1>1, <1>8 DEF SignerOK, RevokedInv, RevocationStopsRequests, usageVars
  <1>10. SignerTyped'
    BY <1>1, <1>2, <1>3, <1>4, <1>6 DEF SignerTyped, Typed
  <1> QED  BY <1>1, <1>7, <1>9, <1>10, UsageStays DEF SignerOK
-----------------------------------------------------------------------------
(* The service.                                                            *)

ServiceOK == LinkInv /\ GrantInv /\ IntentsAreAuthorised

\* The intents stored stay as they are.
IntentsStay ==
    \A x \in DOMAIN records :
        x[2] = "intent" => x \in DOMAIN records' /\ records'[x] = records[x]

\* What every step keeps.
Keeps == Typed' /\ StoreInv' /\ SignerOK' /\ ServiceOK' /\ PromiseStep /\ IntentsStay

\* The domains of the calls in progress.
Linked ==
    /\ DOMAIN ops \cup DOMAIN auths \subseteq DOMAIN requests
    /\ DOMAIN requests \subseteq Slots
    /\ \A k \in DOMAIN requests :
           /\ k \in DOMAIN ops <=> requests[k].pc = "running"
           /\ k \in DOMAIN auths <=> requests[k].pc \in {"authorize", "authorizeAction"}

LEMMA TypedParts ==
    Typed <=> /\ StoreTypeOK /\ SignerTyped /\ Linked
              /\ IsMap(requests, Slots, ServiceRequest \cup ActionRequest)
  BY DEF Typed, WalletTypeOK, SignerTyped, Linked, RequestAt

LEMMA TypedPartsNext ==
    ASSUME StoreTypeOK', SignerTyped', Linked',
           IsMap(requests, Slots, ServiceRequest \cup ActionRequest)'
    PROVE  Typed'
  BY DEF Typed, WalletTypeOK, SignerTyped, Linked, RequestAt

LEMMA StoreInvStays ==
    ASSUME StoreInv, UNCHANGED <<backend, idempotency, transactions, ops>>
    PROVE  StoreInv'
  <1> USE DEF SettledFor, Rows, Opened
  <1>1. \A k \in DOMAIN ops : MemoryOp(k) => MemoryOp(k)'
    BY DEF MemoryOp
  <1>2. \A k \in DOMAIN ops : PostgresOp(k) => PostgresOp(k)'
    BY DEF PostgresOp, Held, Ended
  <1>3. \A c, x : RowInv(c, x) => RowInv(c, x)'
    BY DEF RowInv
  <1> QED  BY <1>1, <1>2, <1>3 DEF StoreInv

\* The store is not involved.
LEMMA StoreStays ==
    ASSUME StoreOK, UNCHANGED storeVars
    PROVE  StoreOK' /\ PromiseStep /\ IntentsStay
  <1>1. UNCHANGED <<backend, records, idempotency, transactions, locks, audits, ops>>
    BY DEF storeVars, sqlVars
  <1>2. StoreTypeOK'
    BY <1>1 DEF StoreOK, StoreTypeOK
  <1>3. StoreInv'
    BY <1>1, StoreInvStays DEF StoreOK
  <1>4. UNCHANGED <<SettledOutcome, AskedBySlot>>
    BY <1>1, Zenon DEF SettledOutcome, AskedBySlot
  <1> QED  BY <1>1, <1>2, <1>3, <1>4 DEF StoreOK, PromiseStep, IntentsStay

\* The signer policy is not involved.
LEMMA SignerStays ==
    ASSUME Typed, SignerOK, UNCHANGED signerVars
    PROVE  SignerTyped' /\ SignerOK' /\ UNCHANGED <<now, auths, usageVars>>
  <1>1. UNCHANGED <<now, policies, sessions, revokedPolicies, revokedSessions, usage,
                    consumedRequestIds, auths, reservations>>
    BY DEF signerVars
  <1>2. SignerTyped'
    BY <1>1, TypedParts DEF SignerTyped
  <1>3. PolicyInv' /\ RevokedInv'
    BY <1>1 DEF SignerOK, PolicyInv, RevokedInv, RevocationStopsRequests
  <1>4. UNCHANGED usageVars
    BY <1>1 DEF usageVars
  <1> QED  BY <1>1, <1>2, <1>3, <1>4, UsageStays DEF SignerOK

\* No request becomes one that may write, and no intent is written.
LEMMA NothingGranted ==
    ASSUME GrantInv, IntentsAreAuthorised, IntentsStay,
           reservations \subseteq reservations',
           \A j \in DOMAIN requests' : MayWrite(j)' =>
              /\ j \in DOMAIN requests /\ MayWrite(j)
              /\ requests'[j].body = requests[j].body
              /\ requests'[j].caller = requests[j].caller,
           \A x \in DOMAIN records' : x[2] = "intent" => x \in DOMAIN records
    PROVE  GrantInv' /\ IntentsAreAuthorised'
  <1>1. \A id, content, tenant : Authorised(id, content, tenant) =>
           \E r \in reservations' :
              /\ r.req.id = id /\ r.req.content = content
              /\ \E c \in Callers : c.tenant = tenant /\ c.session = r.req.session
    BY DEF Authorised
  <1>2. GrantInv'
    <2> SUFFICES ASSUME NEW k \in DOMAIN requests', MayWrite(k)'
                 PROVE  (LET b == requests[k].body
                         IN  /\ Authorised(b.entity.id, b.entity.content,
                                           requests[k].caller.tenant)
                             /\ \A j \in DOMAIN requests :
                                   MayWrite(j) /\ requests[j].body.entity.id = b.entity.id
                                   => j = k
                             /\ \A x \in DOMAIN records :
                                   x[2] = "intent" => x[3] # b.entity.id)'
      BY DEF GrantInv
    <2>1. /\ k \in DOMAIN requests /\ MayWrite(k) /\ requests'[k].body = requests[k].body
          /\ requests'[k].caller = requests[k].caller
      OBVIOUS
    <2> DEFINE b == requests[k].body
    <2>2. /\ Authorised(b.entity.id, b.entity.content, requests[k].caller.tenant)
          /\ \A j \in DOMAIN requests :
                MayWrite(j) /\ requests[j].body.entity.id = b.entity.id => j = k
          /\ \A x \in DOMAIN records : x[2] = "intent" => x[3] # b.entity.id
      BY <2>1 DEF GrantInv
    <2>3. Authorised(requests[k].body.entity.id, requests[k].body.entity.content,
                     requests[k].caller.tenant)'
      BY <1>1, <2>1, <2>2 DEF Authorised
    <2>4. \A j \in DOMAIN requests' :
             MayWrite(j)' /\ requests'[j].body.entity.id = b.entity.id => j = k
      BY <2>1, <2>2
    <2>5. \A x \in DOMAIN records' : x[2] = "intent" => x[3] # b.entity.id
      BY <2>2
    <2> HIDE DEF b
    <2> QED  BY <2>1, <2>3, <2>4, <2>5 DEF b
  <1>3. IntentsAreAuthorised'
    <2> SUFFICES ASSUME NEW x \in DOMAIN records', x[2] = "intent"
                 PROVE  \E r \in reservations' :
                           /\ r.req.id = x[3] /\ r.req.content = records'[x].content
                           /\ \E c \in Callers : c.tenant = x[1] /\ c.session = r.req.session
      BY DEF IntentsAreAuthorised
    <2>1. x \in DOMAIN records /\ records'[x] = records[x]
      BY DEF IntentsStay
    <2> QED  BY <2>1 DEF IntentsAreAuthorised
  <1> QED  BY <1>2, <1>3

OK == Typed /\ StoreInv /\ SignerOK /\ ServiceOK

\* A request comes in.
LEMMA NewRequestKeeps ==
    ASSUME OK, NEW k \in Slots, Requests(k)
    PROVE  Keeps
  <1>1. PICK q \in ServiceRequest \cup ActionRequest :
           /\ requests' = Put(requests, k, q)
           /\ q.pc \in {"run", "wallet", "simulate"}
           /\ q.pc = "run" => q.body.entity.kind = "wallet"
           /\ q.pc = "wallet" => q.body.entity.kind = "intent"
    <2>1. CASE \E r \in Actions : ProposeAction(k, r)
      <3>1. PICK r \in Actions : ProposeAction(k, r)
        BY <2>1
      <3> DEFINE q == [action |-> r, pc |-> "simulate"]
      <3>2. q \in ActionRequest /\ q.pc = "simulate" /\ requests' = Put(requests, k, q)
        BY <3>1 DEF ActionRequest, ProposeAction
      <3> HIDE DEF q
      <3> QED  BY <3>2
    <2>2. CASE \E c \in Callers, key \in IdempotencyKeys, b \in Bodies :
                  CreateWallet(k, c, key, b) \/ CreateTransaction(k, c, key, b)
      <3>1. PICK c \in Callers, key \in IdempotencyKeys, b \in Bodies :
               CreateWallet(k, c, key, b) \/ CreateTransaction(k, c, key, b)
        BY <2>2
      <3>2. PICK pc \in {"run", "wallet"} :
               /\ Accept(k, c, key, b, pc)
               /\ pc = "run" => b.entity.kind = "wallet"
               /\ pc = "wallet" => b.entity.kind = "intent"
        <4>1. CASE CreateWallet(k, c, key, b)
          <5>1. Accept(k, c, key, b, "run") /\ b.entity.kind = "wallet"
            BY <4>1 DEF CreateWallet
          <5> QED  BY <5>1
        <4>2. CASE CreateTransaction(k, c, key, b)
          <5>1. Accept(k, c, key, b, "wallet") /\ b.entity.kind = "intent"
            BY <4>2 DEF CreateTransaction
          <5> QED  BY <5>1
        <4> QED  BY <3>1, <4>1, <4>2
      <3> DEFINE q == [caller |-> c, key |-> key, body |-> b, pc |-> pc]
      <3>3. q \in ServiceRequest /\ q.pc = pc /\ q.body = b /\ requests' = Put(requests, k, q)
        BY <3>2 DEF ServiceRequest, Accept
      <3> HIDE DEF q
      <3> QED  BY <3>2, <3>3
    <2> QED  BY <2>1, <2>2 DEF Requests
  <1>2. k \notin DOMAIN requests /\ UNCHANGED <<storeVars, signerVars>>
    BY DEF Requests, CreateWallet, CreateTransaction, Accept, ProposeAction
  <1>3. StoreOK' /\ PromiseStep /\ IntentsStay
    BY <1>2, StoreStays, TypedParts DEF OK, StoreOK
  <1>4. SignerTyped' /\ SignerOK' /\ UNCHANGED <<now, auths, usageVars>>
    BY <1>2, SignerStays DEF OK
  <1>5. /\ DOMAIN requests' = DOMAIN requests \cup {k} /\ requests'[k] = q
        /\ \A j \in DOMAIN requests : requests'[j] = requests[j]
    BY <1>1, <1>2 DEF Put
  <1>6. UNCHANGED <<ops, auths, records, reservations>>
    BY <1>2 DEF storeVars, signerVars
  <1>7. Linked /\ IsMap(requests, Slots, ServiceRequest \cup ActionRequest)
    BY TypedParts DEF OK
  <1>8. IsMap(requests, Slots, ServiceRequest \cup ActionRequest)'
    BY <1>1, <1>7, PutType
  <1>9. Linked'
    BY <1>1, <1>2, <1>5, <1>6, <1>7 DEF Linked
  <1>10. Typed'
    BY <1>3, <1>4, <1>8, <1>9, TypedPartsNext DEF StoreOK
  <1>11. LinkInv'
    BY <1>1, <1>5, <1>6, <1>7 DEF OK, ServiceOK, LinkInv, Linked
  <1>12. ASSUME NEW j \in DOMAIN requests', MayWrite(j)'
         PROVE  j \in DOMAIN requests /\ MayWrite(j) /\ requests'[j] = requests[j]
    BY <1>1, <1>5, <1>6, <1>12 DEF MayWrite, RequestAt, AuthAt
  <1>13. GrantInv' /\ IntentsAreAuthorised'
    BY <1>3, <1>6, <1>12, NothingGranted DEF OK, ServiceOK
  <1> QED  BY <1>3, <1>4, <1>10, <1>11, <1>13 DEF Keeps, StoreOK, ServiceOK

\* A request is answered and only it changes.
LEMMA RespondKeeps ==
    ASSUME OK, NEW k \in DOMAIN requests, requests[k].pc \in {"wallet", "simulate"},
           Respond(k), UNCHANGED <<storeVars, signerVars>>
    PROVE  Keeps
  <1>1. /\ IsMap(requests, Slots, ServiceRequest \cup ActionRequest)'
        /\ DOMAIN requests' = DOMAIN requests /\ requests'[k].pc = "done"
        /\ \A j \in DOMAIN requests : j # k => requests'[j] = requests[j]
    BY MoveKeeps DEF OK, Respond, ServicePcs, ActionPcs
  <1>2. StoreOK' /\ PromiseStep /\ IntentsStay
    BY StoreStays, TypedParts DEF OK, StoreOK
  <1>3. SignerTyped' /\ SignerOK' /\ UNCHANGED <<now, auths, usageVars>>
    BY SignerStays DEF OK
  <1>4. UNCHANGED <<ops, auths, records, reservations>>
    BY DEF storeVars, signerVars
  <1>5. Linked'
    BY <1>1, <1>4, TypedParts DEF OK, Linked
  <1>6. Typed'
    BY <1>1, <1>2, <1>3, <1>5, TypedPartsNext DEF StoreOK
  <1>7. LinkInv'
    BY <1>1, <1>4 DEF OK, ServiceOK, LinkInv
  <1>8. ASSUME NEW j \in DOMAIN requests', MayWrite(j)'
        PROVE  j \in DOMAIN requests /\ MayWrite(j) /\ requests'[j] = requests[j]
    BY <1>1, <1>4, <1>8 DEF MayWrite, RequestAt, AuthAt
  <1>9. GrantInv' /\ IntentsAreAuthorised'
    BY <1>2, <1>4, <1>8, NothingGranted DEF OK, ServiceOK
  <1> QED  BY <1>2, <1>3, <1>6, <1>7, <1>9 DEF Keeps, StoreOK, ServiceOK

\* The policy is asked about the request r of k.
LEMMA AskKeeps ==
    ASSUME OK, NEW k \in DOMAIN requests, NEW pc \in {"authorize", "authorizeAction"},
           NEW r \in AskedRequests,
           \/ pc = "authorize" /\ requests[k].pc = "wallet"
              /\ r = PolicyRequest(requests[k].caller, requests[k].body)
           \/ pc = "authorizeAction" /\ requests[k].pc = "simulate",
           MoveRequest(k, pc), Authorize(k, r, now), UNCHANGED storeVars
    PROVE  Keeps
  <1>1. /\ IsMap(requests, Slots, ServiceRequest \cup ActionRequest)'
        /\ DOMAIN requests' = DOMAIN requests /\ requests'[k].pc = pc
        /\ pc = "authorize" => /\ requests'[k].caller = requests[k].caller
                               /\ requests'[k].body = requests[k].body
        /\ \A j \in DOMAIN requests : j # k => requests'[j] = requests[j]
    BY MoveKeeps DEF OK, ServicePcs, ActionPcs
  <1>2. StoreOK' /\ PromiseStep /\ IntentsStay
    BY StoreStays, TypedParts DEF OK, StoreOK
  <1>3. k \in Slots /\ now \in Nat
    BY RequestFields DEF OK, Typed, WalletTypeOK
  <1>4. /\ SignerTyped' /\ SignerOK'
        /\ DOMAIN auths' = DOMAIN auths \cup {k}
        /\ auths'[k].req = r /\ auths'[k].pc = "session"
        /\ \A j \in DOMAIN auths : auths'[j] = auths[j]
    BY <1>3, AuthorizeKeeps DEF OK
  <1>5. UNCHANGED <<ops, records, reservations>>
    BY DEF storeVars, Authorize, usageVars
  <1>6. Linked
    BY TypedParts DEF OK
  <1>7. Linked'
    BY <1>1, <1>4, <1>5, <1>6 DEF Linked
  <1>8. Typed'
    BY <1>1, <1>2, <1>4, <1>7, TypedPartsNext DEF StoreOK
  <1>9. LinkInv'
    BY <1>1, <1>4, <1>5, <1>6 DEF OK, ServiceOK, LinkInv, Linked
  <1>10. ASSUME NEW j \in DOMAIN requests', MayWrite(j)'
         PROVE  j \in DOMAIN requests /\ MayWrite(j) /\ requests'[j] = requests[j]
    <2>1. j # k
      BY <1>1, <1>4, <1>10 DEF MayWrite, RequestAt, AuthAt
    <2> QED  BY <1>1, <1>4, <1>5, <1>6, <1>10, <2>1 DEF MayWrite, RequestAt, AuthAt, Linked
  <1>11. GrantInv' /\ IntentsAreAuthorised'
    BY <1>2, <1>5, <1>10, NothingGranted DEF OK, ServiceOK
  <1> QED  BY <1>2, <1>4, <1>8, <1>9, <1>11 DEF Keeps, StoreOK, ServiceOK

\* The decision of the policy is there.
LEMMA DecidedKeeps ==
    ASSUME OK, NEW k \in Slots, Decided(k) \/ ActionDecided(k)
    PROVE  Keeps
  <1>1. /\ k \in DOMAIN requests /\ requests[k].pc \in {"authorize", "authorizeAction"}
        /\ EndAuthorization(k) /\ UNCHANGED <<storeVars, now, policyVars, usageVars>>
    BY DEF Decided, ActionDecided, RequestAt
  <1>2. PICK pc \in {"run", "done"} :
           /\ MoveRequest(k, pc)
           /\ pc = "run" => requests[k].pc = "authorize" /\ AuthAt(k, "allowed")
    BY DEF Decided, ActionDecided, RequestAt, Respond
  <1>3. /\ IsMap(requests, Slots, ServiceRequest \cup ActionRequest)'
        /\ DOMAIN requests' = DOMAIN requests /\ requests'[k].pc = pc
        /\ pc = "run" => /\ requests'[k].caller = requests[k].caller
                         /\ requests'[k].body = requests[k].body
        /\ \A j \in DOMAIN requests : j # k => requests'[j] = requests[j]
    BY <1>1, <1>2, MoveKeeps DEF OK, ServicePcs, ActionPcs
  <1>4. StoreOK' /\ PromiseStep /\ IntentsStay
    BY <1>1, StoreStays, TypedParts DEF OK, StoreOK
  <1>5. /\ SignerTyped' /\ SignerOK'
        /\ DOMAIN auths' = DOMAIN auths \ {k}
        /\ \A j \in DOMAIN auths' : auths'[j] = auths[j]
    BY <1>1, EndAuthorizationKeeps DEF OK
  <1>6. UNCHANGED <<ops, records, reservations>>
    BY <1>1 DEF storeVars, usageVars
  <1>7. Linked
    BY TypedParts DEF OK
  <1>8. Linked'
    BY <1>1, <1>3, <1>5, <1>6, <1>7 DEF Linked
  <1>9. Typed'
    BY <1>3, <1>4, <1>5, <1>8, TypedPartsNext DEF StoreOK
  <1>10. LinkInv'
    BY <1>3, <1>5, <1>6, <1>7 DEF OK, ServiceOK, LinkInv, Linked
  <1>11. ASSUME NEW j \in DOMAIN requests', MayWrite(j)'
         PROVE  /\ j \in DOMAIN requests /\ MayWrite(j)
                /\ requests'[j].body = requests[j].body
                /\ requests'[j].caller = requests[j].caller
    <2>1. CASE j = k
      <3>1. pc = "run"
        BY <1>3, <1>11, <2>1 DEF MayWrite, RequestAt
      <3> QED  BY <1>1, <1>2, <1>3, <2>1, <3>1 DEF MayWrite, RequestAt
    <2>2. CASE j # k
      BY <1>3, <1>5, <1>6, <1>7, <1>11, <2>2 DEF MayWrite, RequestAt, AuthAt, Linked
    <2> QED  BY <2>1, <2>2
  <1>12. GrantInv' /\ IntentsAreAuthorised'
    BY <1>4, <1>6, <1>11, NothingGranted DEF OK, ServiceOK
  <1> QED  BY <1>4, <1>5, <1>9, <1>10, <1>12 DEF Keeps, StoreOK, ServiceOK

\* runIdempotent writes no intent before its first await.
LEMMA RunView ==
    ASSUME StoreOK, NEW k \in Slots, NEW t \in Tenants, NEW key \in IdempotencyKeys,
           NEW h \in Hashes, NEW v \in StoreValues, RunIdempotent(k, t, key, h, v)
    PROVE  /\ Started(k, t, key, h, v)
           /\ IntentsStay
           /\ \A x \in DOMAIN records' : x[2] = "intent" => x \in DOMAIN records
  <1>1. Started(k, t, key, h, v)
    BY RunStarts DEF StoreOK
  <1>2. UNCHANGED records \/ (WriteRecord(t, v) /\ v.kind = "wallet")
    BY DEF RunIdempotent, RunInMemory, RunInPostgres, FirstAwait
  <1>3. CASE UNCHANGED records
    BY <1>1, <1>3 DEF IntentsStay
  <1>4. CASE WriteRecord(t, v) /\ v.kind = "wallet"
    <2>1. /\ DOMAIN records' = DOMAIN records \cup {<<t, v.kind, v.id>>}
          /\ \A x \in DOMAIN records : x # <<t, v.kind, v.id>> => records'[x] = records[x]
      BY <1>4, WriteTyped DEF StoreOK
    <2>2. <<t, v.kind, v.id>>[2] = "wallet"
      BY <1>4
    <2> QED  BY <1>1, <2>1, <2>2 DEF IntentsStay
  <1> QED  BY <1>2, <1>3, <1>4

\* The operation of a request begins.
LEMMA RunKeeps ==
    ASSUME OK, NEW k \in Slots, Run(k)
    PROVE  Keeps
  <1> DEFINE q == requests[k]
  <1>1. /\ k \in DOMAIN requests /\ q.pc = "run" /\ MoveRequest(k, "running")
        /\ RunIdempotent(k, q.caller.tenant, q.key, q.body.hash, q.body.entity)
        /\ UNCHANGED signerVars
    BY DEF Run, RequestAt
  <1>2. /\ q.caller.tenant \in Tenants /\ q.key \in IdempotencyKeys
        /\ q.body.hash \in Hashes /\ q.body.entity \in StoreValues
    BY <1>1, RequestFields DEF OK, ServicePcs
  <1>3. /\ IsMap(requests, Slots, ServiceRequest \cup ActionRequest)'
        /\ DOMAIN requests' = DOMAIN requests /\ requests'[k].pc = "running"
        /\ requests'[k].caller = requests[k].caller /\ requests'[k].body = requests[k].body
        /\ \A j \in DOMAIN requests : j # k => requests'[j] = requests[j]
    BY <1>1, MoveKeeps DEF OK, ServicePcs, ActionPcs
  <1>4. StoreOK
    BY TypedParts DEF OK, StoreOK
  <1>5. StoreOK' /\ PromiseStep
    BY <1>1, <1>2, <1>4, RunKeepsStore, RunKeepsPromise
  <1>6. /\ k \notin DOMAIN ops /\ DOMAIN ops' = DOMAIN ops \cup {k}
        /\ ops'[k].tenant = q.caller.tenant /\ ops'[k].value = q.body.entity
        /\ \A j \in DOMAIN ops : /\ ops'[j].tenant = ops[j].tenant
                                 /\ ops'[j].value = ops[j].value /\ ops'[j].pc = ops[j].pc
        /\ IntentsStay
        /\ \A x \in DOMAIN records' : x[2] = "intent" => x \in DOMAIN records
    BY <1>1, <1>2, <1>4, RunView DEF Started
  <1>7. SignerTyped' /\ SignerOK' /\ UNCHANGED <<now, auths, usageVars>>
    BY <1>1, SignerStays DEF OK
  <1>8. UNCHANGED <<auths, reservations>>
    BY <1>1 DEF signerVars
  <1>9. Linked
    BY TypedParts DEF OK
  <1>10. Linked'
    BY <1>1, <1>3, <1>6, <1>8, <1>9 DEF Linked
  <1>11. Typed'
    BY <1>3, <1>5, <1>7, <1>10, TypedPartsNext DEF StoreOK
  <1>12. LinkInv'
    BY <1>3, <1>6, <1>8, <1>9 DEF OK, ServiceOK, LinkInv, Linked
  <1>13. ASSUME NEW j \in DOMAIN requests', MayWrite(j)'
         PROVE  /\ j \in DOMAIN requests /\ MayWrite(j)
                /\ requests'[j].body = requests[j].body
                /\ requests'[j].caller = requests[j].caller
    <2>1. CASE j = k
      BY <1>1, <1>3, <1>13, <2>1 DEF MayWrite, RequestAt
    <2>2. CASE j # k
      BY <1>3, <1>6, <1>8, <1>9, <1>13, <2>2 DEF MayWrite, RequestAt, AuthAt, Linked
    <2> QED  BY <2>1, <2>2
  <1>14. GrantInv' /\ IntentsAreAuthorised'
    BY <1>6, <1>8, <1>13, NothingGranted DEF OK, ServiceOK
  <1> QED  BY <1>5, <1>6, <1>7, <1>11, <1>12, <1>14 DEF Keeps, StoreOK, ServiceOK

\* The operation of a request has been answered or refused.
LEMMA RanKeeps ==
    ASSUME OK, NEW k \in Slots, Ran(k)
    PROVE  Keeps
  <1>1. /\ k \in DOMAIN requests /\ requests[k].pc = "running" /\ EndOperation(k)
        /\ UNCHANGED <<backend, records, idempotency, sqlVars, audits, signerVars>>
    BY DEF Ran, RequestAt
  <1>2. PICK pc \in {"audit", "done"} : MoveRequest(k, pc)
    BY DEF Ran, Respond
  <1>3. /\ IsMap(requests, Slots, ServiceRequest \cup ActionRequest)'
        /\ DOMAIN requests' = DOMAIN requests /\ requests'[k].pc = pc
        /\ \A j \in DOMAIN requests : j # k => requests'[j] = requests[j]
    BY <1>1, <1>2, MoveKeeps DEF OK, ServicePcs, ActionPcs
  <1>4. StoreOK
    BY TypedParts DEF OK, StoreOK
  <1>5. StoreOK' /\ PromiseStep
    BY <1>1, <1>4, EndKeepsStore, LeaveStep DEF PromiseStep
  <1>6. /\ DOMAIN ops' = DOMAIN ops \ {k} /\ \A j \in DOMAIN ops' : ops'[j] = ops[j]
        /\ IntentsStay
    BY <1>1 DEF EndOperation, Drop, IntentsStay
  <1>7. SignerTyped' /\ SignerOK' /\ UNCHANGED <<now, auths, usageVars>>
    BY <1>1, SignerStays DEF OK
  <1>8. UNCHANGED <<auths, reservations, records>>
    BY <1>1 DEF signerVars
  <1>9. Linked
    BY TypedParts DEF OK
  <1>10. Linked'
    BY <1>1, <1>3, <1>6, <1>8, <1>9 DEF Linked
  <1>11. Typed'
    BY <1>3, <1>5, <1>7, <1>10, TypedPartsNext DEF StoreOK
  <1>12. LinkInv'
    BY <1>3, <1>6, <1>8, <1>9 DEF OK, ServiceOK, LinkInv, Linked
  <1>13. ASSUME NEW j \in DOMAIN requests', MayWrite(j)'
         PROVE  j \in DOMAIN requests /\ MayWrite(j) /\ requests'[j] = requests[j]
    <2>1. j # k
      BY <1>3, <1>13 DEF MayWrite, RequestAt
    <2> QED  BY <1>3, <1>6, <1>8, <1>9, <1>13, <2>1 DEF MayWrite, RequestAt, AuthAt, Linked
  <1>14. GrantInv' /\ IntentsAreAuthorised'
    BY <1>6, <1>8, <1>13, NothingGranted DEF OK, ServiceOK
  <1> QED  BY <1>5, <1>6, <1>7, <1>11, <1>12, <1>14 DEF Keeps, StoreOK, ServiceOK

\* The audit event of a request is appended.
LEMMA AuditedKeeps ==
    ASSUME OK, NEW k \in Slots, Audited(k)
    PROVE  Keeps
  <1> DEFINE q == requests[k]
             e == <<q.body.entity.kind, q.body.entity.id, now>>
  <1>1. /\ k \in DOMAIN requests /\ requests[k].pc = "audit" /\ MoveRequest(k, "done")
        /\ \E accepted \in RedactionAccepts : AppendAudit(q.caller.tenant, e, accepted)
        /\ UNCHANGED <<backend, records, idempotency, transactions, locks, ops, signerVars>>
    BY DEF Audited, RequestAt, Respond, sqlVars
  <1>2. /\ IsMap(requests, Slots, ServiceRequest \cup ActionRequest)'
        /\ DOMAIN requests' = DOMAIN requests /\ requests'[k].pc = "done"
        /\ \A j \in DOMAIN requests : j # k => requests'[j] = requests[j]
    BY <1>1, MoveKeeps DEF OK, ServicePcs, ActionPcs
  <1>3. q.caller.tenant \in Tenants /\ e \in AuditEvents
    BY <1>1, RequestFields, WalletAssumption DEF OK, ServicePcs, Typed, WalletTypeOK
  <1> HIDE DEF e
  <1>4. audits' \in [Tenants -> SUBSET AuditEvents]
    BY <1>1, <1>3 DEF AppendAudit, RedactionAccepts, OK, Typed, WalletTypeOK, StoreTypeOK
  <1>5. StoreOK
    BY TypedParts DEF OK, StoreOK
  <1>6. StoreTypeOK'
    BY <1>1, <1>4, <1>5 DEF StoreOK, StoreTypeOK
  <1>7. StoreInv'
    BY <1>1, <1>5, StoreInvStays DEF StoreOK
  <1>8. UNCHANGED <<SettledOutcome, AskedBySlot>>
    BY <1>1, Zenon DEF SettledOutcome, AskedBySlot
  <1>9. SignerTyped' /\ SignerOK' /\ UNCHANGED <<now, auths, usageVars>>
    BY <1>1, SignerStays DEF OK
  <1>10. UNCHANGED <<ops, auths, reservations, records>> /\ IntentsStay
    BY <1>1 DEF signerVars, IntentsStay
  <1>11. Linked
    BY TypedParts DEF OK
  <1>12. Linked'
    BY <1>1, <1>2, <1>10, <1>11 DEF Linked
  <1>13. Typed'
    BY <1>2, <1>6, <1>9, <1>12, TypedPartsNext
  <1>14. LinkInv'
    BY <1>2, <1>10 DEF OK, ServiceOK, LinkInv
  <1>15. ASSUME NEW j \in DOMAIN requests', MayWrite(j)'
         PROVE  j \in DOMAIN requests /\ MayWrite(j) /\ requests'[j] = requests[j]
    BY <1>2, <1>10, <1>15 DEF MayWrite, RequestAt, AuthAt
  <1>16. GrantInv' /\ IntentsAreAuthorised'
    BY <1>10, <1>15, NothingGranted DEF OK, ServiceOK
  <1> QED  BY <1>7, <1>8, <1>9, <1>10, <1>13, <1>14, <1>16
           DEF Keeps, PromiseStep, ServiceOK

\* A step of the store: an intent is written by the request that may write it.
LEMMA StoreStepKeeps ==
    ASSUME OK, NEW k \in Slots, StoreStep(k), UNCHANGED <<requests, signerVars>>
    PROVE  Keeps
  <1>1. StoreOK
    BY TypedParts DEF OK, StoreOK
  <1>2. StoreOK' /\ PromiseStep
    BY <1>1, MemoryKeepsStore, PostgresKeepsStore, StepKeepsPromise
       DEF StoreStep
  <1>3. /\ DOMAIN ops' = DOMAIN ops
        /\ \A j \in DOMAIN ops :
              /\ ops'[j].tenant = ops[j].tenant /\ ops'[j].value = ops[j].value
              /\ ops'[j].pc \in {"lock", "select", "put"} =>
                    ops[j].pc \in {"lock", "select", "put"}
        /\ \/ UNCHANGED records
           \/ /\ k \in DOMAIN ops /\ ops[k].pc = "put"
              /\ WriteRecord(ops[k].tenant, ops[k].value)
              /\ ops'[k].pc \notin {"lock", "select", "put"}
    BY <1>1, StoreStepView
  <1>4. SignerTyped' /\ SignerOK' /\ UNCHANGED <<now, auths, usageVars>>
    BY SignerStays DEF OK
  <1>5. UNCHANGED <<requests, auths, reservations>>
    BY DEF signerVars
  <1>6. Linked /\ IsMap(requests, Slots, ServiceRequest \cup ActionRequest)
    BY TypedParts DEF OK
  <1>7. Linked' /\ IsMap(requests, Slots, ServiceRequest \cup ActionRequest)'
    BY <1>3, <1>5, <1>6 DEF Linked
  <1>8. Typed'
    BY <1>2, <1>4, <1>7, TypedPartsNext DEF StoreOK
  <1>9. LinkInv'
    BY <1>3, <1>5, <1>6 DEF OK, ServiceOK, LinkInv, Linked
  <1>10. ASSUME NEW j \in DOMAIN requests', MayWrite(j)'
         PROVE  j \in DOMAIN requests /\ MayWrite(j) /\ requests'[j] = requests[j]
    BY <1>3, <1>5, <1>6, <1>10 DEF MayWrite, RequestAt, AuthAt, Linked
  <1>11. IntentsStay /\ GrantInv' /\ IntentsAreAuthorised'
    <2>1. CASE UNCHANGED records
      <3>1. IntentsStay
        BY <2>1 DEF IntentsStay
      <3> QED  BY <1>5, <1>10, <2>1, <3>1, NothingGranted DEF OK, ServiceOK
    <2>2. CASE /\ k \in DOMAIN ops /\ ops[k].pc = "put"
               /\ WriteRecord(ops[k].tenant, ops[k].value)
               /\ ops'[k].pc \notin {"lock", "select", "put"}
      <3> DEFINE t == ops[k].tenant
                 v == ops[k].value
      <3>1. t \in Tenants /\ v \in StoreValues /\ v.kind \in {"wallet", "intent"}
        BY <1>1, <2>2, OpFields, StoreAssumption DEF StoreOK, Operation
      <3>2. /\ k \in DOMAIN requests /\ requests[k].pc = "running"
            /\ t = requests[k].caller.tenant /\ v = requests[k].body.entity
        BY <1>6, <2>2 DEF Linked, OK, ServiceOK, LinkInv
      <3>3. /\ DOMAIN records' = DOMAIN records \cup {<<t, v.kind, v.id>>}
            /\ records'[<<t, v.kind, v.id>>] = v
            /\ \A x \in DOMAIN records : x # <<t, v.kind, v.id>> => records'[x] = records[x]
        BY <1>1, <2>2, <3>1, WriteTyped DEF StoreOK
      <3>4. /\ <<t, v.kind, v.id>>[1] = t /\ <<t, v.kind, v.id>>[2] = v.kind
            /\ <<t, v.kind, v.id>>[3] = v.id
        OBVIOUS
      <3>5. CASE v.kind = "wallet"
        <4>1. IntentsStay /\ \A x \in DOMAIN records' : x[2] = "intent" => x \in DOMAIN records
          BY <3>3, <3>4, <3>5 DEF IntentsStay
        <4> QED  BY <1>5, <1>10, <4>1, NothingGranted DEF OK, ServiceOK
      <3>6. CASE v.kind = "intent"
        <4>1. MayWrite(k)
          BY <2>2, <3>2, <3>6 DEF MayWrite
        <4>2. /\ Authorised(v.id, v.content, t)
              /\ \A j \in DOMAIN requests :
                    MayWrite(j) /\ requests[j].body.entity.id = v.id => j = k
              /\ \A x \in DOMAIN records : x[2] = "intent" => x[3] # v.id
          BY <3>2, <4>1 DEF OK, ServiceOK, GrantInv
        <4>3. IntentsStay
          BY <3>3, <3>4, <4>2 DEF IntentsStay
        <4>4. IntentsAreAuthorised'
          <5> SUFFICES ASSUME NEW x \in DOMAIN records', x[2] = "intent"
                       PROVE  Authorised(x[3], records'[x].content, x[1])
            BY <1>5 DEF IntentsAreAuthorised, Authorised
          <5>1. CASE x \in DOMAIN records
            BY <4>3, <5>1 DEF IntentsStay, OK, ServiceOK, IntentsAreAuthorised, Authorised
          <5>2. CASE x \notin DOMAIN records
            BY <3>3, <3>4, <4>2, <5>2
          <5> QED  BY <5>1, <5>2
        <4>5. ~MayWrite(k)'
          BY <1>5, <2>2, <3>2 DEF MayWrite, RequestAt
        <4>6. GrantInv'
          <5> SUFFICES ASSUME NEW j \in DOMAIN requests', MayWrite(j)'
                       PROVE  (LET b == requests[j].body
                               IN  /\ Authorised(b.entity.id, b.entity.content,
                                                 requests[j].caller.tenant)
                                   /\ \A i \in DOMAIN requests :
                                         MayWrite(i) /\ requests[i].body.entity.id = b.entity.id
                                         => i = j
                                   /\ \A x \in DOMAIN records :
                                         x[2] = "intent" => x[3] # b.entity.id)'
            BY DEF GrantInv
          <5>1. j \in DOMAIN requests /\ MayWrite(j) /\ j # k
            BY <1>10, <4>5
          <5> DEFINE b == requests[j].body
          <5>2. /\ Authorised(b.entity.id, b.entity.content, requests[j].caller.tenant)
                /\ \A i \in DOMAIN requests :
                      MayWrite(i) /\ requests[i].body.entity.id = b.entity.id => i = j
                /\ \A x \in DOMAIN records : x[2] = "intent" => x[3] # b.entity.id
            BY <5>1 DEF OK, ServiceOK, GrantInv
          <5>3. b.entity.id # v.id
            BY <4>2, <5>1
          <5>4. Authorised(requests[j].body.entity.id, requests[j].body.entity.content,
                           requests[j].caller.tenant)'
            BY <1>5, <5>2 DEF Authorised
          <5>5. \A i \in DOMAIN requests' :
                   MayWrite(i)' /\ requests'[i].body.entity.id = b.entity.id => i = j
            BY <1>5, <1>10, <5>2
          <5>6. \A x \in DOMAIN records' : x[2] = "intent" => x[3] # b.entity.id
            BY <3>3, <3>4, <5>2, <5>3
          <5> HIDE DEF b
          <5> QED  BY <1>5, <5>4, <5>5, <5>6 DEF b
        <4> QED  BY <4>3, <4>4, <4>6
      <3> QED  BY <3>1, <3>5, <3>6
    <2> QED  BY <1>3, <2>1, <2>2
  <1> QED  BY <1>2, <1>4, <1>8, <1>9, <1>11 DEF Keeps, StoreOK, ServiceOK

\* A step of an authorisation: a reservation grants the one request it is for.
LEMMA AuthorizeStepOK ==
    ASSUME OK, NEW k \in Slots, AuthorizeStep(k), UNCHANGED <<requests, storeVars>>
    PROVE  Keeps
  <1>1. StoreOK' /\ PromiseStep /\ IntentsStay
    BY StoreStays, TypedParts DEF OK, StoreOK
  <1>2. /\ SignerTyped' /\ SignerOK'
        /\ \E pc \in AuthPcs :
              /\ SameRequest(k, pc)
              /\ \/ pc # "allowed" /\ UNCHANGED usageVars
                 \/ pc = "allowed" /\ Granted(k)
    BY AuthorizeStepKeeps DEF OK
  <1>3. PICK pc \in AuthPcs :
           /\ SameRequest(k, pc)
           /\ \/ pc # "allowed" /\ UNCHANGED usageVars
              \/ pc = "allowed" /\ Granted(k)
    BY <1>2
  <1>4. /\ k \in DOMAIN auths /\ DOMAIN auths' = DOMAIN auths
        /\ auths'[k].req = auths[k].req /\ auths'[k].pc = pc
        /\ \A j \in DOMAIN auths : j # k => auths'[j] = auths[j]
    BY <1>3 DEF SameRequest
  <1>5. UNCHANGED <<requests, ops, records>>
    BY DEF storeVars
  <1>6. Linked /\ IsMap(requests, Slots, ServiceRequest \cup ActionRequest)
    BY TypedParts DEF OK
  <1>7. Linked' /\ IsMap(requests, Slots, ServiceRequest \cup ActionRequest)'
    BY <1>4, <1>5, <1>6 DEF Linked
  <1>8. Typed'
    BY <1>1, <1>2, <1>7, TypedPartsNext DEF StoreOK
  <1>9. LinkInv'
    BY <1>4, <1>5, <1>6 DEF OK, ServiceOK, LinkInv, Linked
  <1>10. ASSUME NEW j \in DOMAIN requests, MayWrite(j)',
                j # k \/ pc # "allowed" \/ requests[k].pc # "authorize"
         PROVE  MayWrite(j)
    BY <1>4, <1>5, <1>10 DEF MayWrite, RequestAt, AuthAt
  <1>11. reservations \subseteq reservations'
    BY <1>3 DEF usageVars, Granted
  <1>12. GrantInv' /\ IntentsAreAuthorised'
    <2>1. CASE pc # "allowed" \/ requests[k].pc # "authorize"
      BY <1>1, <1>5, <1>10, <1>11, <2>1, NothingGranted DEF OK, ServiceOK
    <2>2. CASE pc = "allowed" /\ requests[k].pc = "authorize"
      <3> DEFINE q == requests[k]
                 id == q.body.entity.id
                 req == auths[k].req
      <3>1. Granted(k)
        BY <1>3, <2>2
      <3>2. k \in DOMAIN requests
        BY <1>4, <1>6 DEF Linked
      <3>3. /\ q.body.entity.kind = "intent" /\ req = PolicyRequest(q.caller, q.body)
            /\ q.caller \in Callers /\ q.body \in Bodies
        BY <2>2, <3>2, RequestFields DEF OK, ServiceOK, LinkInv, ServicePcs
      <3>4. /\ req.id = id /\ req.content = q.body.entity.content
            /\ req.session = q.caller.session
        <4>1. id = q.body.req.id /\ q.body.entity.content = q.body.req.content
          BY <3>3, WalletAssumption
        <4>2. /\ PolicyRequest(q.caller, q.body).id = q.body.req.id
              /\ PolicyRequest(q.caller, q.body).content = q.body.req.content
              /\ PolicyRequest(q.caller, q.body).session = q.caller.session
          BY DEF PolicyRequest
        <4> QED  BY <3>3, <4>1, <4>2
      <3>5. /\ id \notin consumedRequestIds
            /\ reservations' = reservations \cup {Reservation(k)}
        BY <3>1, <3>4 DEF Granted
      <3>6. Reservation(k).req = req
        BY Zenon DEF Reservation
      <3>7. \A r \in reservations : r.req.id \in consumedRequestIds
        BY DEF OK, SignerOK, UsageInv
      <3>8. ASSUME NEW j \in DOMAIN requests, MayWrite(j)
            PROVE  requests[j].body.entity.id # id
        <4>1. \E r \in reservations : r.req.id = requests[j].body.entity.id
          BY <3>8 DEF OK, ServiceOK, GrantInv, Authorised
        <4> QED  BY <3>5, <3>7, <4>1
      <3>9. \A x \in DOMAIN records : x[2] = "intent" => x[3] # id
        <4>1. \A x \in DOMAIN records : x[2] = "intent" =>
                 \E r \in reservations : r.req.id = x[3]
          BY DEF OK, ServiceOK, IntentsAreAuthorised
        <4> QED  BY <3>5, <3>7, <4>1
      <3>10. IntentsAreAuthorised'
        BY <1>5, <1>11 DEF OK, ServiceOK, IntentsAreAuthorised
      <3>11. GrantInv'
        <4> SUFFICES ASSUME NEW j \in DOMAIN requests', MayWrite(j)'
                     PROVE  (LET b == requests[j].body
                             IN  /\ Authorised(b.entity.id, b.entity.content,
                                               requests[j].caller.tenant)
                                 /\ \A i \in DOMAIN requests :
                                       MayWrite(i) /\ requests[i].body.entity.id = b.entity.id
                                       => i = j
                                 /\ \A x \in DOMAIN records :
                                       x[2] = "intent" => x[3] # b.entity.id)'
          BY DEF GrantInv
        <4> DEFINE b == requests[j].body
        <4>1. CASE j = k
          <5>1. Authorised(requests[j].body.entity.id, requests[j].body.entity.content,
                           requests[j].caller.tenant)'
            BY <1>5, <3>3, <3>4, <3>5, <3>6, <4>1 DEF Authorised
          <5>2. \A i \in DOMAIN requests' :
                   MayWrite(i)' /\ requests'[i].body.entity.id = b.entity.id => i = j
            BY <1>5, <1>10, <3>8, <4>1
          <5>3. \A x \in DOMAIN records' : x[2] = "intent" => x[3] # b.entity.id
            BY <1>5, <3>9, <4>1
          <5> HIDE DEF b
          <5> QED  BY <1>5, <5>1, <5>2, <5>3 DEF b
        <4>2. CASE j # k
          <5>1. j \in DOMAIN requests /\ MayWrite(j)
            BY <1>5, <1>10, <4>2
          <5>2. /\ Authorised(b.entity.id, b.entity.content, requests[j].caller.tenant)
                /\ \A i \in DOMAIN requests :
                      MayWrite(i) /\ requests[i].body.entity.id = b.entity.id => i = j
                /\ \A x \in DOMAIN records : x[2] = "intent" => x[3] # b.entity.id
            BY <5>1 DEF OK, ServiceOK, GrantInv
          <5>3. Authorised(requests[j].body.entity.id, requests[j].body.entity.content,
                           requests[j].caller.tenant)'
            BY <1>5, <1>11, <5>2 DEF Authorised
          <5>4. b.entity.id # id
            BY <3>8, <5>1
          <5>5. \A i \in DOMAIN requests' :
                   MayWrite(i)' /\ requests'[i].body.entity.id = b.entity.id => i = j
            BY <1>5, <1>10, <5>2, <5>4
          <5> HIDE DEF b
          <5> QED  BY <1>5, <5>2, <5>3, <5>5 DEF b
        <4> QED  BY <4>1, <4>2
      <3> QED  BY <3>10, <3>11
    <2> QED  BY <2>1, <2>2
  <1> QED  BY <1>1, <1>2, <1>8, <1>9, <1>12 DEF Keeps, StoreOK, ServiceOK

\* Administration and time.
LEMMA AdministerOK ==
    ASSUME OK, \/ Administer /\ UNCHANGED <<requests, storeVars>>
               \/ Tick /\ UNCHANGED <<requests, storeVars>>
               \/ UNCHANGED walletVars
    PROVE  Keeps
  <1>1. UNCHANGED <<requests, storeVars>>
    BY DEF walletVars
  <1>2. StoreOK' /\ PromiseStep /\ IntentsStay
    BY <1>1, StoreStays, TypedParts DEF OK, StoreOK
  <1>3. SignerTyped' /\ SignerOK' /\ UNCHANGED <<auths, usageVars>>
    BY AdministerKeeps, SignerStays DEF OK, walletVars
  <1>4. UNCHANGED <<requests, ops, auths, records, reservations>>
    BY <1>1, <1>3 DEF storeVars, usageVars
  <1>5. Linked' /\ IsMap(requests, Slots, ServiceRequest \cup ActionRequest)'
    BY <1>4, TypedParts DEF OK, Linked
  <1>6. Typed'
    BY <1>2, <1>3, <1>5, TypedPartsNext DEF StoreOK
  <1>7. LinkInv'
    BY <1>4 DEF OK, ServiceOK, LinkInv
  <1>8. \A j \in DOMAIN requests' : MayWrite(j)' => MayWrite(j)
    BY <1>4 DEF MayWrite, RequestAt, AuthAt
  <1>9. GrantInv' /\ IntentsAreAuthorised'
    BY <1>2, <1>4, <1>8, NothingGranted DEF OK, ServiceOK
  <1> QED  BY <1>2, <1>3, <1>6, <1>7, <1>9 DEF Keeps, StoreOK, ServiceOK

\* A request whose wallet was read, or whose simulation ended.
LEMMA AskingKeeps ==
    ASSUME OK, NEW k \in Slots, WalletFound(k) \/ Simulated(k)
    PROVE  Keeps
  <1>1. CASE WalletFound(k)
    <2> DEFINE q == requests[k]
               r == PolicyRequest(q.caller, q.body)
    <2>1. /\ k \in DOMAIN requests /\ q.pc = "wallet" /\ UNCHANGED storeVars
          /\ \/ Respond(k) /\ UNCHANGED signerVars
             \/ MoveRequest(k, "authorize") /\ Authorize(k, r, now)
      BY <1>1 DEF WalletFound, RequestAt
    <2>2. r \in AskedRequests
      BY <2>1, RequestFields DEF OK, ServicePcs, AskedRequests
    <2>3. CASE Respond(k) /\ UNCHANGED signerVars
      BY <2>1, <2>3, RespondKeeps
    <2>4. CASE MoveRequest(k, "authorize") /\ Authorize(k, r, now)
      BY <2>1, <2>2, <2>4, AskKeeps
    <2> QED  BY <2>1, <2>3, <2>4
  <1>2. CASE Simulated(k)
    <2> DEFINE r == requests[k].action
    <2>1. /\ k \in DOMAIN requests /\ requests[k].pc = "simulate" /\ UNCHANGED storeVars
          /\ \/ Respond(k) /\ UNCHANGED signerVars
             \/ MoveRequest(k, "authorizeAction") /\ Authorize(k, r, now)
      BY <1>2 DEF Simulated, RequestAt
    <2>2. r \in AskedRequests
      BY <2>1, RequestFields DEF OK, ActionPcs, AskedRequests
    <2>3. CASE Respond(k) /\ UNCHANGED signerVars
      BY <2>1, <2>3, RespondKeeps
    <2>4. CASE MoveRequest(k, "authorizeAction") /\ Authorize(k, r, now)
      BY <2>1, <2>2, <2>4, AskKeeps
    <2> QED  BY <2>1, <2>3, <2>4
  <1> QED  BY <1>1, <1>2

\* Every step keeps what is to be kept.
LEMMA StepKeeps ==
    ASSUME OK, [WalletNext]_walletVars
    PROVE  Keeps
  <1>1. ASSUME NEW k \in Slots, Requests(k) \/ ServiceStep(k)
        PROVE  Keeps
    BY <1>1, NewRequestKeeps, AskingKeeps, DecidedKeeps, RunKeeps, RanKeeps, AuditedKeeps
       DEF ServiceStep
  <1>2. ASSUME NEW k \in Slots, StoreStep(k), UNCHANGED <<requests, signerVars>>
        PROVE  Keeps
    BY <1>2, StoreStepKeeps
  <1>3. ASSUME NEW k \in Slots, AuthorizeStep(k), UNCHANGED <<requests, storeVars>>
        PROVE  Keeps
    BY <1>3, AuthorizeStepOK
  <1>4. CASE \/ (Administer \/ Tick) /\ UNCHANGED <<requests, storeVars>>
             \/ UNCHANGED walletVars
    BY <1>4, AdministerOK
  <1> QED  BY <1>1, <1>2, <1>3, <1>4 DEF WalletNext

\* The initial state.
LEMMA InitOK ==
    ASSUME WalletInit
    PROVE  OK /\ Promise!Init
  <1> USE DEF WalletInit, StoreInit, SignerInit
  <1>1. /\ DOMAIN EmptyMap = {} /\ records = EmptyMap /\ idempotency = EmptyMap
        /\ transactions = EmptyMap /\ locks = EmptyMap /\ ops = EmptyMap
        /\ policies = EmptyMap /\ sessions = EmptyMap /\ usage = EmptyMap
        /\ auths = EmptyMap /\ requests = EmptyMap
        /\ reservations = {} /\ consumedRequestIds = {}
    BY DEF EmptyMap
  <1>2. StoreTypeOK
    BY <1>1, EmptyMapType DEF StoreTypeOK
  <1>3. SignerTyped
    BY EmptyMapType, SignerPolicyAssumption DEF SignerTyped
  <1>4. Linked /\ IsMap(requests, Slots, ServiceRequest \cup ActionRequest)
    BY <1>1, EmptyMapType DEF Linked
  <1>5. Typed
    BY <1>2, <1>3, <1>4, TypedParts
  <1>6. StoreInv
    BY <1>1 DEF StoreInv, Rows, Opened
  <1>7. SignerOK
    BY <1>1, FS_EmptySet DEF SignerOK, PolicyInv, RevokedInv, RevocationStopsRequests,
          UsageInv, WindowsHold
  <1>8. ServiceOK
    BY <1>1 DEF ServiceOK, LinkInv, GrantInv, IntentsAreAuthorised
  <1>9. Promise!Init
    <2>1. SettledOutcome = [x \in TenantKeys |-> None]
      BY <1>1 DEF SettledOutcome
    <2>2. AskedBySlot = [s \in Slots |-> None]
      BY <1>1 DEF AskedBySlot
    <2> QED  BY <2>1, <2>2 DEF Promise!Init
  <1> QED  BY <1>5, <1>6, <1>7, <1>8, <1>9 DEF OK
-----------------------------------------------------------------------------
LEMMA AlwaysOK == WalletSpec => []OK
  <1>1. WalletInit => OK
    BY InitOK
  <1>2. OK /\ [WalletNext]_walletVars => OK'
    BY StepKeeps DEF Keeps, OK
  <1> QED  BY <1>1, <1>2, PTL DEF WalletSpec

\* The wallet service keeps the inductive invariant.
THEOREM InductiveInvariant == WalletSpec => []IInv
  <1>1. OK => IInv
    BY DEF OK, SignerOK, ServiceOK, IInv
  <1> QED  BY <1>1, AlwaysOK, PTL

\* Requests, authorisations and operations in progress belong together, and the
\* store holds what its types say.
THEOREM TypeCorrect == WalletSpec => []WalletTypeOK
  <1>1. IInv => WalletTypeOK
    BY DEF IInv, Typed
  <1> QED  BY <1>1, InductiveInvariant, PTL

\* A request made after its session or policy was revoked is never allowed.
THEOREM RevocationHolds == WalletSpec => []RevocationStopsRequests
  <1>1. IInv => RevocationStopsRequests
    BY DEF IInv, RevokedInv
  <1> QED  BY <1>1, InductiveInvariant, PTL

\* A window has no more operations than the policies allow, as long as no
\* request of an earlier window is reserved after one of a later.
THEOREM LimitsHold == WalletSpec => []WindowsHold
  <1>1. IInv => WindowsHold
    BY DEF IInv
  <1> QED  BY <1>1, InductiveInvariant, PTL

\* Every intent stored is one the policy allowed, for a caller of its tenant.
THEOREM AuthorisedIntents == WalletSpec => []IntentsAreAuthorised
  <1>1. IInv => IntentsAreAuthorised
    BY DEF IInv
  <1> QED  BY <1>1, InductiveInvariant, PTL

\* An intent once stored is never changed.
THEOREM FinalIntents == WalletSpec => IntentsAreFinal
  <1>1. OK /\ [WalletNext]_walletVars => [IntentsStay]_walletVars
    BY StepKeeps DEF Keeps
  <1>2. [IntentsStay]_walletVars =>
           [\A x \in DOMAIN records :
               x[2] = "intent" => x \in DOMAIN records' /\ records'[x] = records[x]]_walletVars
    BY DEF IntentsStay
  <1> QED  BY <1>1, <1>2, AlwaysOK, PTL DEF WalletSpec, IntentsAreFinal

\* The store implements IdempotentStore: a key gets one outcome, for ever, and every
\* answer to a call that shared its SqlTransaction with no other is that outcome, for
\* the request it was recorded for.  Calls that share one are promised nothing.
THEOREM StoreImplementsPromise == WalletSpec => StoreKeepsItsPromise
  <1>1. WalletInit => Promise!Init
    BY InitOK
  <1>2. OK /\ [WalletNext]_walletVars => [Promise!Next]_(Promise!vars)
    BY StepKeeps DEF Keeps, PromiseStep, Promise!vars
  <1> QED  BY <1>1, <1>2, AlwaysOK, PTL DEF WalletSpec, StoreKeepsItsPromise, Promise!Spec
=============================================================================
