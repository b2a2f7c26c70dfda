------------------------- MODULE IssuerSignerProofs -------------------------
(***************************************************************************)
(* Proofs about IssuerSigner for every number of keys, requests and        *)
(* concurrent calls.                                                       *)
(***************************************************************************)
EXTENDS IssuerSigner, JsMapTheorems

USE SignerAssumption
-----------------------------------------------------------------------------
(* Type correctness.                                                       *)

\* Moving a parked call to another await keeps the calls typed.
LEMMA GoToTyped ==
    ASSUME TypeOK, NEW c \in DOMAIN calls, NEW pc \in Awaits, GoTo(c, pc)
    PROVE  IsMap(calls', Slots, Call)
  <1> DEFINE k == [calls[c] EXCEPT !.pc = pc]
  <1>1. k \in Call
    BY DEF TypeOK, IsMap, Call
  <1>2. calls' = [calls EXCEPT ![c] = k]
    BY DEF GoTo
  <1> QED  BY <1>1, <1>2, UpdateType DEF TypeOK

\* So does an outcome that waits to be written.
LEMMA SettleTyped ==
    ASSUME TypeOK, NEW c \in DOMAIN calls, NEW outcome \in Resolutions,
           Settle(c, outcome)
    PROVE  IsMap(calls', Slots, Call)
  <1> DEFINE k == [calls[c] EXCEPT !.pc = "audit", !.outcome = outcome]
  <1>1. k \in Call
    BY DEF TypeOK, IsMap, Call, Awaits
  <1>2. calls' = [calls EXCEPT ![c] = k]
    BY DEF Settle
  <1> QED  BY <1>1, <1>2, UpdateType DEF TypeOK

\* So does a call that returns.
LEMMA ReturnTyped ==
    ASSUME TypeOK, NEW c, Return(c)
    PROVE  IsMap(calls', Slots, Call)
  BY DropType DEF Return, TypeOK

\* An operation has a key, and a rotation has a second one.
LEMMA OperationKeys ==
    ASSUME NEW op \in Operations
    PROVE  /\ op[1] \in {"sign", "rotate", "disable"}
           /\ op[2] \in Keys
           /\ op[1] = "rotate" => op[3] \in Keys
  BY DEF Operations

\* What the provider does keeps the key states typed.
LEMMA EffectTyped ==
    ASSUME TypeOK, NEW op \in Operations
    PROVE  Effect(op) \in [Keys -> KeyStatuses]
  BY OperationKeys DEF Effect, TypeOK, KeyStatuses

\* Counting a provider call keeps the counters typed.
LEMMA CountTyped ==
    ASSUME TypeOK, NEW r \in Requests, Count(r)
    PROVE  invoked' \in [Requests -> Nat]
  BY DEF Count, TypeOK

\* The fields of a parked call.
LEMMA CallFields ==
    ASSUME TypeOK, NEW c \in DOMAIN calls
    PROVE  /\ c \in Slots
           /\ calls[c] \in Call
           /\ calls[c].request \in Requests
           /\ calls[c].operation \in Operations
           /\ calls[c].pc \in Awaits
           /\ calls[c].outcome \in Resolutions \cup {"pending"}
  BY DEF TypeOK, IsMap, Call

\* IssuerOperationStore.finish keeps the store typed.
LEMMA FinishTyped ==
    ASSUME TypeOK, NEW r \in Requests, NEW op,
           NEW outcome \in Resolutions \cup {"ambiguous"},
           FinishOperation(r, op, outcome)
    PROVE  /\ IsMap(operations', Requests, StoredOperation)
           /\ IsMap(unresolved', Operations, Requests)
           /\ resolved' \subseteq Requests
  <1> DEFINE o == [operations[r] EXCEPT !.outcome = outcome]
  <1>1. r \in DOMAIN operations => o \in StoredOperation
    BY DEF TypeOK, IsMap, StoredOperation
  <1>2. operations' = [operations EXCEPT ![r] = o]
    BY DEF FinishOperation
  <1>3. IsMap(operations', Requests, StoredOperation)
    BY <1>1, <1>2, UpdateType DEF TypeOK
  <1>4. IsMap(unresolved', Operations, Requests)
    BY DropType DEF FinishOperation, TypeOK
  <1>5. resolved' \subseteq Requests
    BY DEF FinishOperation, TypeOK
  <1> QED  BY <1>3, <1>4, <1>5

\* A reservation keeps the store typed.
LEMMA ReservationTyped ==
    ASSUME TypeOK, NEW c \in DOMAIN calls, Reservation(c)
    PROVE  /\ IsMap(operations', Requests, StoredOperation)
           /\ IsMap(unresolved', Operations, Requests)
  <1> USE CallFields
  <1>1. [fingerprint |-> calls[c].operation, outcome |-> "pending"]
            \in StoredOperation
    BY DEF StoredOperation
  <1>2. IsMap(operations', Requests, StoredOperation)
    BY <1>1, PutType DEF Reservation, TypeOK
  <1>3. IsMap(unresolved', Operations, Requests)
    BY PutType DEF Reservation, TypeOK
  <1> QED  BY <1>2, <1>3

\* The steps before the provider keep every variable typed.
LEMMA BeforeTyped ==
    ASSUME TypeOK, NEW c \in DOMAIN calls,
           \/ Described(c) \/ Approved(c) \/ Refused(c)
           \/ Reserve(c) \/ ReserveRefused(c)
    PROVE  TypeOK'
  <1>1. CASE Described(c)
    <2>1. IsMap(calls', Slots, Call)
      BY <1>1, GoToTyped DEF Described, Awaits
    <2> QED  BY <1>1, <2>1 DEF Described, TypeOK
  <1>2. CASE Approved(c)
    <2>1. IsMap(calls', Slots, Call)
      BY <1>2, GoToTyped DEF Approved, Awaits
    <2> QED  BY <1>2, <2>1 DEF Approved, TypeOK
  <1>3. CASE Refused(c)
    <2>1. IsMap(calls', Slots, Call)
      BY <1>3, ReturnTyped DEF Refused
    <2>2. audit' \subseteq Requests \X {"accepted", "rejected", "ambiguous"}
      BY <1>3, CallFields DEF Refused, TypeOK
    <2> QED  BY <1>3, <2>1, <2>2 DEF Refused, TypeOK
  <1>4. CASE Reserve(c)
    <2>1. /\ IsMap(operations', Requests, StoredOperation)
          /\ IsMap(unresolved', Operations, Requests)
      BY <1>4, ReservationTyped DEF Reserve
    <2>2. IsMap(calls', Slots, Call)
      BY <1>4, GoToTyped DEF Reserve, Awaits
    <2> QED  BY <1>4, <2>1, <2>2 DEF Reserve, TypeOK
  <1>5. CASE ReserveRefused(c)
    <2>1. /\ IsMap(operations', Requests, StoredOperation)
          /\ IsMap(unresolved', Operations, Requests)
      BY <1>5, ReservationTyped DEF ReserveRefused, TypeOK
    <2>2. IsMap(calls', Slots, Call)
      BY <1>5, ReturnTyped DEF ReserveRefused
    <2> QED  BY <1>5, <2>1, <2>2 DEF ReserveRefused, TypeOK
  <1> QED  BY <1>1, <1>2, <1>3, <1>4, <1>5

\* The provider call and its confirmation keep every variable typed.
LEMMA ProviderTyped ==
    ASSUME TypeOK, NEW c \in DOMAIN calls,
           \/ InvokeDone(c) \/ InvokeRejected(c) \/ InvokeAmbiguous(c)
           \/ Confirm(c) \/ Unconfirmed(c)
    PROVE  TypeOK'
  <1> USE CallFields
  <1>1. CASE InvokeDone(c)
    <2>1. keys' \in [Keys -> KeyStatuses]
      BY <1>1, EffectTyped DEF InvokeDone
    <2>2. IsMap(calls', Slots, Call)
      BY <1>1, GoToTyped, SettleTyped, OperationKeys
         DEF InvokeDone, Awaits, Resolutions
    <2>3. invoked' \in [Requests -> Nat]
      BY <1>1, CountTyped DEF InvokeDone
    <2> QED  BY <1>1, <2>1, <2>2, <2>3 DEF InvokeDone, TypeOK
  <1>2. CASE InvokeRejected(c)
    <2>1. IsMap(calls', Slots, Call)
      BY <1>2, SettleTyped DEF InvokeRejected, Resolutions
    <2>2. invoked' \in [Requests -> Nat]
      BY <1>2, CountTyped DEF InvokeRejected
    <2> QED  BY <1>2, <2>1, <2>2 DEF InvokeRejected, TypeOK
  <1>3. CASE InvokeAmbiguous(c)
    <2>1. keys' \in [Keys -> KeyStatuses]
      BY <1>3, EffectTyped DEF InvokeAmbiguous, TypeOK
    <2>2. IsMap(calls', Slots, Call)
      BY <1>3, GoToTyped DEF InvokeAmbiguous, Awaits
    <2>3. invoked' \in [Requests -> Nat]
      BY <1>3, CountTyped DEF InvokeAmbiguous
    <2> QED  BY <1>3, <2>1, <2>2, <2>3 DEF InvokeAmbiguous, TypeOK
  <1>4. CASE Confirm(c)
    <2>1. IsMap(calls', Slots, Call)
      BY <1>4, GoToTyped, SettleTyped DEF Confirm, Awaits, Resolutions
    <2> QED  BY <1>4, <2>1 DEF Confirm, TypeOK
  <1>5. CASE Unconfirmed(c)
    <2>1. IsMap(calls', Slots, Call)
      BY <1>5, GoToTyped DEF Unconfirmed, Awaits
    <2> QED  BY <1>5, <2>1 DEF Unconfirmed, TypeOK
  <1> QED  BY <1>1, <1>2, <1>3, <1>4, <1>5

\* Auditing and recording the outcome keep every variable typed.
LEMMA AfterTyped ==
    ASSUME TypeOK, HoldersExclusive, NEW c \in DOMAIN calls,
           \/ AuditAppended(c) \/ WriteFailed(c)
           \/ Finished(c) \/ MarkAmbiguous(c)
    PROVE  TypeOK'
  <1> USE CallFields
  <1>1. CASE AuditAppended(c)
    <2>1. IsMap(calls', Slots, Call)
      BY <1>1, GoToTyped DEF AuditAppended, Awaits
    <2>2. audit' \subseteq Requests \X {"accepted", "rejected", "ambiguous"}
      BY <1>1 DEF AuditAppended, Event, AuditOutcome, TypeOK
    <2> QED  BY <1>1, <2>1, <2>2 DEF AuditAppended, TypeOK
  <1>2. CASE WriteFailed(c)
    <2>1. IsMap(calls', Slots, Call)
      BY <1>2, GoToTyped DEF WriteFailed, Awaits
    <2>2. audit' \subseteq Requests \X {"accepted", "rejected", "ambiguous"}
      BY <1>2 DEF WriteFailed, Event, AuditOutcome, TypeOK
    <2>3. calls[c].pc = "finish" => calls[c].outcome \in Resolutions
      BY DEF HoldersExclusive, HolderOK, Holding
    <2>4. /\ IsMap(operations', Requests, StoredOperation)
          /\ IsMap(unresolved', Operations, Requests)
          /\ resolved' \subseteq Requests
      BY <1>2, <2>3, FinishTyped DEF WriteFailed, TypeOK
    <2> QED  BY <1>2, <2>1, <2>2, <2>4 DEF WriteFailed, TypeOK
  <1>3. CASE Finished(c)
    <2>1. calls[c].outcome \in Resolutions
      BY <1>3 DEF Finished, HoldersExclusive, HolderOK, Holding
    <2>2. /\ IsMap(operations', Requests, StoredOperation)
          /\ IsMap(unresolved', Operations, Requests)
          /\ resolved' \subseteq Requests
      BY <1>3, <2>1, FinishTyped DEF Finished
    <2>3. IsMap(calls', Slots, Call)
      BY <1>3, ReturnTyped DEF Finished
    <2> QED  BY <1>3, <2>2, <2>3 DEF Finished, TypeOK
  <1>4. CASE MarkAmbiguous(c)
    <2>1. /\ IsMap(operations', Requests, StoredOperation)
          /\ IsMap(unresolved', Operations, Requests)
          /\ resolved' \subseteq Requests
      BY <1>4, FinishTyped DEF MarkAmbiguous, TypeOK
    <2>2. audit' \subseteq Requests \X {"accepted", "rejected", "ambiguous"}
      BY <1>4 DEF MarkAmbiguous, TypeOK
    <2>3. IsMap(calls', Slots, Call)
      BY <1>4, ReturnTyped DEF MarkAmbiguous
    <2> QED  BY <1>4, <2>1, <2>2, <2>3 DEF MarkAmbiguous, TypeOK
  <1> QED  BY <1>1, <1>2, <1>3, <1>4

\* A new call keeps every variable typed.
LEMMA StartTyped ==
    ASSUME TypeOK, NEW c \in Slots, NEW r \in Requests, NEW op \in Operations,
           Start(c, r, op)
    PROVE  TypeOK'
  <1>1. [request |-> r, operation |-> op, pc |-> "describe",
         outcome |-> "pending"] \in Call
    BY DEF Call, Awaits
  <1>2. IsMap(calls', Slots, Call)
    BY <1>1, PutType DEF Start, TypeOK
  <1> QED  BY <1>2 DEF Start, TypeOK
-----------------------------------------------------------------------------
(* Reservations belong to one call.                                        *)

\* A call that moves keeps its request and operation; the others stay.
LEMMA GoToFacts ==
    ASSUME TypeOK, NEW c \in DOMAIN calls, NEW pc, GoTo(c, pc)
    PROVE  /\ DOMAIN calls' = DOMAIN calls
           /\ calls'[c].pc = pc
           /\ calls'[c].outcome = calls[c].outcome
           /\ \A d \in DOMAIN calls :
                 /\ calls'[d].request = calls[d].request
                 /\ calls'[d].operation = calls[d].operation
                 /\ d # c => calls'[d] = calls[d]
  BY CallFields DEF GoTo, Call

LEMMA SettleFacts ==
    ASSUME TypeOK, NEW c \in DOMAIN calls, NEW outcome, Settle(c, outcome)
    PROVE  /\ DOMAIN calls' = DOMAIN calls
           /\ calls'[c].pc = "audit"
           /\ calls'[c].outcome = outcome
           /\ \A d \in DOMAIN calls :
                 /\ calls'[d].request = calls[d].request
                 /\ calls'[d].operation = calls[d].operation
                 /\ d # c => calls'[d] = calls[d]
  BY CallFields DEF Settle, Call

LEMMA ReturnFacts ==
    ASSUME NEW c, Return(c)
    PROVE  /\ DOMAIN calls' = DOMAIN calls \ {c}
           /\ \A d \in DOMAIN calls' : calls'[d] = calls[d]
  BY DEF Return, Drop

\* A call that does not move stays fine while its own request is left alone.
LEMMA HolderKept ==
    ASSUME HoldersExclusive, NEW d \in Holding,
           calls'[d] = calls[d],
           calls[d].request \in DOMAIN operations',
           operations'[calls[d].request] = operations[calls[d].request],
           invoked'[calls[d].request] = invoked[calls[d].request],
           calls[d].request \in resolved' <=> calls[d].request \in resolved,
           audit \subseteq audit'
    PROVE  HolderOK(d)'
  BY DEF HoldersExclusive, HolderOK, Event

\* Reserving is new to the request, so nobody holds it yet.
LEMMA ReservationFacts ==
    ASSUME TypeOK, HoldersExclusive, NEW c \in DOMAIN calls, Reservation(c)
    PROVE  /\ calls[c].request \notin DOMAIN operations
           /\ invoked[calls[c].request] = 0
           /\ calls[c].request \notin resolved
           /\ DOMAIN operations' = DOMAIN operations \cup {calls[c].request}
           /\ operations'[calls[c].request].fingerprint = calls[c].operation
           /\ operations'[calls[c].request].outcome = "pending"
           /\ \A q \in DOMAIN operations : operations'[q] = operations[q]
           /\ \A d \in Holding : calls[d].request # calls[c].request
  <1>1. calls[c].request \notin DOMAIN operations
    BY DEF Reservation, Reservable
  <1>2. invoked[calls[c].request] = 0 /\ calls[c].request \notin resolved
    BY <1>1, CallFields DEF HoldersExclusive
  <1>3. /\ DOMAIN operations' = DOMAIN operations \cup {calls[c].request}
        /\ operations'[calls[c].request].fingerprint = calls[c].operation
        /\ operations'[calls[c].request].outcome = "pending"
        /\ \A q \in DOMAIN operations : operations'[q] = operations[q]
    BY <1>1 DEF Reservation, Put
  <1>4. \A d \in Holding : calls[d].request # calls[c].request
    BY <1>1 DEF HoldersExclusive, HolderOK
  <1> QED  BY <1>1, <1>2, <1>3, <1>4

\* Before the provider: a reservation is new, so nobody else holds it.
LEMMA BeforeExclusive ==
    ASSUME TypeOK, HoldersExclusive, NEW c \in DOMAIN calls,
           \/ Described(c) \/ Approved(c) \/ Refused(c)
           \/ Reserve(c) \/ ReserveRefused(c)
    PROVE  HoldersExclusive'
  <1>1. \A d \in Holding : calls[d].request \in DOMAIN operations
    BY DEF HoldersExclusive, HolderOK
  <1>2. /\ UNCHANGED <<invoked, resolved>> /\ audit \subseteq audit'
        /\ \/ UNCHANGED operations
           \/ Reservation(c)
    BY DEF Described, Approved, Refused, Reserve, ReserveRefused
  <1>3. /\ DOMAIN operations \subseteq DOMAIN operations'
        /\ \A q \in DOMAIN operations : operations'[q] = operations[q]
    BY <1>2, ReservationFacts
  <1>4. \A r \in Requests \ DOMAIN operations' :
           invoked'[r] = 0 /\ r \notin resolved'
    BY <1>2, <1>3 DEF HoldersExclusive
  <1>5. CASE Described(c) \/ Approved(c) \/ Refused(c) \/ ReserveRefused(c)
    <2>1. Holding' = Holding /\ \A d \in Holding : calls'[d] = calls[d]
      <3>1. CASE Described(c) \/ Approved(c)
        BY <3>1, GoToFacts DEF Described, Approved, Holding
      <3>2. CASE Refused(c) \/ ReserveRefused(c)
        BY <3>2, ReturnFacts DEF Refused, ReserveRefused, Holding
      <3> QED  BY <1>5, <3>1, <3>2
    <2>2. \A d \in Holding' : HolderOK(d)'
      BY <1>1, <1>2, <1>3, <2>1, HolderKept
    <2> QED  BY <1>4, <2>1, <2>2 DEF HoldersExclusive
  <1>6. CASE Reserve(c)
    <2>1. Reservation(c)
      BY <1>6 DEF Reserve
    <2>2. /\ Holding' = Holding \cup {c}
          /\ \A d \in Holding : calls'[d] = calls[d]
          /\ c \notin Holding
          /\ calls'[c].pc = "invoke"
          /\ calls'[c].request = calls[c].request
          /\ calls'[c].operation = calls[c].operation
      BY <1>6, GoToFacts DEF Reserve, Holding
    <2>3. HolderOK(c)'
      BY <1>2, <2>1, <2>2, ReservationFacts DEF HolderOK
    <2>4. \A d \in Holding : HolderOK(d)'
      BY <1>1, <1>2, <1>3, <2>2, HolderKept
    <2>5. \A d \in Holding : calls[d].request # calls[c].request
      BY <2>1, ReservationFacts
    <2>6. \A d, e \in Holding' :
             calls'[d].request = calls'[e].request => d = e
      BY <2>2, <2>5 DEF HoldersExclusive
    <2> QED  BY <1>4, <2>2, <2>3, <2>4, <2>6 DEF HoldersExclusive
  <1> QED  BY <1>5, <1>6

\* A holder moves on and touches at most its own operation: what it needs of
\* the place it reaches is all that is left to show.
LEMMA HolderMoves ==
    ASSUME TypeOK, HoldersExclusive, NEW c \in Holding,
           DOMAIN calls' = DOMAIN calls,
           \A d \in DOMAIN calls :
               /\ calls'[d].request = calls[d].request
               /\ calls'[d].operation = calls[d].operation
               /\ d # c => calls'[d] = calls[d],
           DOMAIN operations' = DOMAIN operations,
           \A q \in DOMAIN operations :
               q # calls[c].request => operations'[q] = operations[q],
           audit \subseteq audit',
           \A r \in Requests : r # calls[c].request =>
               invoked'[r] = invoked[r] /\ (r \in resolved' <=> r \in resolved),
           calls'[c].pc \notin {"describe", "approve", "reserve", "invoke"},
           HolderOK(c)'
    PROVE  HoldersExclusive'
  <1>1. Holding' = Holding /\ Holding \subseteq DOMAIN calls
    BY DEF Holding
  <1>2. \A d \in Holding : d # c => calls[d].request # calls[c].request
    BY DEF HoldersExclusive
  <1>3. \A d \in Holding : /\ calls[d].request \in Requests
                           /\ calls[d].request \in DOMAIN operations
    BY <1>1, CallFields DEF HoldersExclusive, HolderOK
  <1>4. \A d \in Holding' : HolderOK(d)'
    <2> SUFFICES ASSUME NEW d \in Holding, d # c PROVE HolderOK(d)'
      BY <1>1
    <2> QED  BY <1>1, <1>2, <1>3, HolderKept
  <1>5. \A d, e \in Holding' :
          calls'[d].request = calls'[e].request => d = e
    BY <1>1 DEF HoldersExclusive
  <1>6. \A q \in Requests \ DOMAIN operations' :
           invoked'[q] = 0 /\ q \notin resolved'
    BY <1>3 DEF HoldersExclusive
  <1> QED  BY <1>4, <1>5, <1>6 DEF HoldersExclusive

\* The provider call and its confirmation leave the reservation exclusive.
LEMMA ProviderExclusive ==
    ASSUME TypeOK, HoldersExclusive, NEW c \in DOMAIN calls,
           \/ InvokeDone(c) \/ InvokeRejected(c) \/ InvokeAmbiguous(c)
           \/ Confirm(c) \/ Unconfirmed(c)
    PROVE  HoldersExclusive'
  <1>1. c \in Holding /\ calls[c].pc \notin {"ambiguous", "unaudited"}
    BY DEF InvokeDone, InvokeRejected, InvokeAmbiguous, Confirm, Unconfirmed,
           Holding
  <1>2. UNCHANGED <<operations, resolved>> /\ audit \subseteq audit'
    BY DEF InvokeDone, InvokeRejected, InvokeAmbiguous, Confirm, Unconfirmed
  <1>3. \A r \in Requests : r # calls[c].request => invoked'[r] = invoked[r]
    BY DEF InvokeDone, InvokeRejected, InvokeAmbiguous, Confirm, Unconfirmed,
           Count, TypeOK
  <1>4. \/ GoTo(c, "confirmNext") \/ GoTo(c, "confirmPrevious")
        \/ GoTo(c, "confirmDisabled") \/ GoTo(c, "ambiguous")
        \/ Settle(c, "signed") \/ Settle(c, "completed")
        \/ Settle(c, "rejected")
    BY CallFields, OperationKeys
       DEF InvokeDone, InvokeRejected, InvokeAmbiguous, Confirm, Unconfirmed
  <1>5. /\ DOMAIN calls' = DOMAIN calls
        /\ \A d \in DOMAIN calls :
              /\ calls'[d].request = calls[d].request
              /\ calls'[d].operation = calls[d].operation
              /\ d # c => calls'[d] = calls[d]
        /\ \/ calls'[c].pc \in {"confirmNext", "confirmPrevious",
                                "confirmDisabled", "ambiguous"}
           \/ calls'[c].pc = "audit" /\ calls'[c].outcome \in Resolutions
    BY <1>4, GoToFacts, SettleFacts DEF Resolutions
  <1>6. HolderOK(c)'
    BY <1>1, <1>2, <1>5 DEF HoldersExclusive, HolderOK
  <1> QED  BY <1>1, <1>2, <1>3, <1>5, <1>6, HolderMoves

\* A holder that returns takes no reservation of another call with it.
LEMMA HolderReturns ==
    ASSUME TypeOK, HoldersExclusive, NEW c \in Holding, Return(c),
           UNCHANGED invoked, audit \subseteq audit',
           DOMAIN operations' = DOMAIN operations,
           \A r \in DOMAIN operations :
               r # calls[c].request => operations'[r] = operations[r],
           \A r \in Requests :
               r # calls[c].request => (r \in resolved' <=> r \in resolved)
    PROVE  HoldersExclusive'
  <1>1. Holding' = Holding \ {c} /\ \A d \in Holding' : calls'[d] = calls[d]
    BY ReturnFacts DEF Holding
  <1>2. \A d \in Holding' : calls[d].request # calls[c].request
    BY <1>1 DEF HoldersExclusive
  <1>3. \A d \in Holding : /\ calls[d].request \in Requests
                           /\ calls[d].request \in DOMAIN operations
    BY CallFields DEF HoldersExclusive, HolderOK, Holding
  <1>4. \A d \in Holding' : HolderOK(d)'
    BY <1>1, <1>2, <1>3, HolderKept
  <1>5. \A r \in Requests \ DOMAIN operations' :
           invoked'[r] = 0 /\ r \notin resolved'
    BY <1>3 DEF HoldersExclusive
  <1> QED  BY <1>1, <1>4, <1>5 DEF HoldersExclusive

\* IssuerOperationStore.finish writes the outcome of one operation.
LEMMA FinishFacts ==
    ASSUME TypeOK, NEW r \in DOMAIN operations, NEW op, NEW outcome,
           FinishOperation(r, op, outcome)
    PROVE  /\ DOMAIN operations' = DOMAIN operations
           /\ operations'[r].outcome = outcome
           /\ \A q \in DOMAIN operations :
                 /\ operations'[q].fingerprint = operations[q].fingerprint
                 /\ q # r => operations'[q] = operations[q]
           /\ resolved' = IF outcome = "ambiguous" THEN resolved
                                                  ELSE resolved \cup {r}
  <1>1. \A q \in DOMAIN operations : operations[q] \in StoredOperation
    BY DEF TypeOK, IsMap
  <1> QED  BY <1>1 DEF FinishOperation, StoredOperation

\* A port that throws, before or after its write, leaves reservations
\* exclusive: only the operation of this call may have been resolved.
LEMMA FailedExclusive ==
    ASSUME TypeOK, HoldersExclusive, NEW c \in DOMAIN calls, WriteFailed(c)
    PROVE  HoldersExclusive'
  <1> DEFINE r == calls[c].request
  <1>1. c \in Holding
    BY DEF WriteFailed, Holding
  <1>2. /\ r \in DOMAIN operations /\ r \in Requests
        /\ operations[r].fingerprint = calls[c].operation
        /\ r \notin resolved /\ operations[r].outcome = "pending"
        /\ calls[c].outcome \in Resolutions
    BY <1>1, CallFields DEF HoldersExclusive, HolderOK, WriteFailed
  <1>3. PICK pc \in {"ambiguous", "unaudited"} : GoTo(c, pc)
    BY DEF WriteFailed
  <1>4. /\ DOMAIN calls' = DOMAIN calls
        /\ calls'[c].pc = pc
        /\ \A d \in DOMAIN calls :
              /\ calls'[d].request = calls[d].request
              /\ calls'[d].operation = calls[d].operation
              /\ d # c => calls'[d] = calls[d]
    BY <1>3, GoToFacts
  <1>5. UNCHANGED invoked /\ audit \subseteq audit'
    BY DEF WriteFailed
  <1>6. \/ UNCHANGED <<operations, resolved>>
        \/ FinishOperation(r, calls[c].operation, calls[c].outcome)
    BY DEF WriteFailed
  <1>7. /\ DOMAIN operations' = DOMAIN operations
        /\ operations'[r].fingerprint = operations[r].fingerprint
        /\ \A q \in DOMAIN operations : q # r => operations'[q] = operations[q]
        /\ \/ UNCHANGED <<operations, resolved>>
           \/ resolved' = resolved \cup {r}
    BY <1>2, <1>6, FinishFacts DEF Resolutions
  <1>8. HolderOK(c)'
    BY <1>2, <1>4, <1>7 DEF HolderOK
  <1> QED  BY <1>1, <1>4, <1>5, <1>7, <1>8, HolderMoves

\* Auditing and recording the outcome leave reservations exclusive.
LEMMA AfterExclusive ==
    ASSUME TypeOK, HoldersExclusive, NEW c \in DOMAIN calls,
           \/ AuditAppended(c) \/ WriteFailed(c)
           \/ Finished(c) \/ MarkAmbiguous(c)
    PROVE  HoldersExclusive'
  <1>1. c \in Holding
    BY DEF AuditAppended, WriteFailed, Finished, MarkAmbiguous, Holding
  <1>2. calls[c].request \in DOMAIN operations
    BY <1>1 DEF HoldersExclusive, HolderOK
  <1>3. CASE AuditAppended(c)
    <2>1. GoTo(c, "finish") /\ UNCHANGED <<operations, invoked, resolved>>
      BY <1>3 DEF AuditAppended
    <2>2. audit \subseteq audit' /\ Event(c) \in audit'
      BY <1>3 DEF AuditAppended
    <2>3. HolderOK(c)'
      BY <1>1, <1>3, <2>1, <2>2, GoToFacts
         DEF AuditAppended, HoldersExclusive, HolderOK, Event
    <2> QED  BY <1>1, <2>1, <2>2, <2>3, GoToFacts, HolderMoves
  <1>4. CASE WriteFailed(c)
    BY <1>4, FailedExclusive
  <1>5. CASE Finished(c)
    <2>1. Return(c) /\ UNCHANGED <<audit, invoked>>
      BY <1>5 DEF Finished
    <2> QED  BY <1>1, <1>2, <1>5, <2>1, FinishFacts, HolderReturns DEF Finished
  <1>6. CASE MarkAmbiguous(c)
    <2>1. Return(c) /\ UNCHANGED invoked /\ audit \subseteq audit'
      BY <1>6 DEF MarkAmbiguous
    <2> QED
      BY <1>1, <1>2, <1>6, <2>1, FinishFacts, HolderReturns DEF MarkAmbiguous
  <1> QED  BY <1>3, <1>4, <1>5, <1>6

\* A new call holds nothing yet.
LEMMA StartExclusive ==
    ASSUME TypeOK, HoldersExclusive, NEW c \in Slots, NEW r \in Requests,
           NEW op \in Operations, Start(c, r, op)
    PROVE  HoldersExclusive'
  <1>1. Holding' = Holding /\ \A d \in Holding : calls'[d] = calls[d]
    BY DEF Start, Holding, Put
  <1> QED  BY <1>1 DEF Start, HoldersExclusive, HolderOK, Event
-----------------------------------------------------------------------------
(* The promises.                                                           *)

IInv == /\ TypeOK
        /\ HoldersExclusive
        /\ OneProviderCallPerRequest
        /\ NoBlindRetry
        /\ ResolvedIsAudited

\* The steps of a call that neither reserve nor settle an operation.
Quiet(c) == \/ Described(c) \/ Approved(c) \/ Refused(c)
            \/ InvokeDone(c) \/ InvokeRejected(c) \/ InvokeAmbiguous(c)
            \/ Confirm(c) \/ Unconfirmed(c) \/ AuditAppended(c)

\* They change neither the operations nor the blocks, and audit only grows.
LEMMA QuietSteps ==
    ASSUME NEW c, Quiet(c)
    PROVE  UNCHANGED <<operations, unresolved, resolved>> /\ audit \subseteq audit'
  BY DEF Quiet, Described, Approved, Refused, InvokeDone, InvokeRejected,
         InvokeAmbiguous, Confirm, Unconfirmed, AuditAppended

\* The other steps are one write of the store, made or not: a reservation, a
\* resolution with its event in the log, or a mark of ambiguity.
Reserving(c) == Reserve(c) \/ ReserveRefused(c)
Resolving(c) == WriteFailed(c) \/ Finished(c)

Resolution(c) ==
    /\ calls[c].pc = "finish"
    /\ FinishOperation(calls[c].request, calls[c].operation, calls[c].outcome)

LEMMA StoreSteps ==
    ASSUME NEW c, Reserving(c) \/ Resolving(c) \/ MarkAmbiguous(c)
    PROVE  /\ audit \subseteq audit' /\ UNCHANGED invoked
           /\ \/ UNCHANGED <<operations, unresolved, resolved>>
              \/ Reserving(c) /\ Reservation(c) /\ UNCHANGED resolved
              \/ Resolving(c) /\ Resolution(c)
              \/ /\ MarkAmbiguous(c)
                 /\ FinishOperation(calls[c].request, calls[c].operation,
                                    "ambiguous")
  BY DEF Reserving, Resolving, Resolution, Reserve, ReserveRefused,
         WriteFailed, Finished, MarkAmbiguous

\* A call asks the provider only while its request was never sent.
LEMMA CountedOnce ==
    ASSUME IInv, NEW c \in DOMAIN calls,
           InvokeDone(c) \/ InvokeRejected(c) \/ InvokeAmbiguous(c)
    PROVE  OneProviderCallPerRequest'
  <1>1. invoked[calls[c].request] = 0
    BY DEF IInv, HoldersExclusive, HolderOK, Holding, InvokeDone, InvokeRejected,
           InvokeAmbiguous
  <1>2. invoked' = [invoked EXCEPT ![calls[c].request] = @ + 1]
    BY DEF InvokeDone, InvokeRejected, InvokeAmbiguous, Count
  <1>3. calls[c].request \in Requests /\ invoked \in [Requests -> Nat]
    BY CallFields DEF IInv, TypeOK
  <1> QED  BY <1>1, <1>2, <1>3 DEF IInv, OneProviderCallPerRequest

\* A reservation blocks the operation under the new request id.
LEMMA ReserveBlocks ==
    ASSUME IInv, NEW c \in DOMAIN calls, Reservation(c),
           audit \subseteq audit', UNCHANGED resolved
    PROVE  NoBlindRetry' /\ ResolvedIsAudited'
  <1> DEFINE r == calls[c].request
             op == calls[c].operation
  <1>1. r \notin DOMAIN operations /\ op \notin DOMAIN unresolved
    BY DEF Reservation, Reservable
  <1>2. /\ DOMAIN operations' = DOMAIN operations \cup {r}
        /\ operations'[r].fingerprint = op
        /\ operations'[r].outcome = "pending"
        /\ \A q \in DOMAIN operations : operations'[q] = operations[q]
    BY <1>1 DEF Reservation, Put
  <1>3. /\ DOMAIN unresolved' = DOMAIN unresolved \cup {op}
        /\ unresolved'[op] = r
        /\ \A o \in DOMAIN unresolved : unresolved'[o] = unresolved[o]
    BY <1>1 DEF Reservation, Put
  <1>4. NoBlindRetry'
    BY <1>1, <1>2, <1>3 DEF IInv, NoBlindRetry, Blocks
  <1>5. ResolvedIsAudited'
    BY <1>1, <1>2 DEF IInv, ResolvedIsAudited, Resolutions
  <1> QED  BY <1>4, <1>5

\* At its finish a call still holds the block, and its event is in the log.
LEMMA AtFinish ==
    ASSUME IInv, NEW c \in DOMAIN calls, calls[c].pc = "finish"
    PROVE  /\ calls[c].request \in DOMAIN operations \ resolved
           /\ operations[calls[c].request].fingerprint = calls[c].operation
           /\ operations[calls[c].request].outcome = "pending"
           /\ Blocks(calls[c].request)
           /\ calls[c].outcome \in Resolutions
           /\ Event(c) \in audit
  <1>1. HolderOK(c)
    BY DEF IInv, HoldersExclusive, Holding
  <1>2. calls[c].request \in DOMAIN operations \ resolved
    BY <1>1 DEF HolderOK
  <1>3. Blocks(calls[c].request)
    BY <1>2 DEF IInv, NoBlindRetry
  <1> QED  BY <1>1, <1>2, <1>3 DEF HolderOK

\* Recording a resolution frees only the operation of this call.
LEMMA FinishFrees ==
    ASSUME IInv, NEW c \in DOMAIN calls, Resolution(c), audit \subseteq audit'
    PROVE  NoBlindRetry' /\ ResolvedIsAudited'
  <1> DEFINE r == calls[c].request
             op == calls[c].operation
             outcome == calls[c].outcome
  <1>1. /\ r \in DOMAIN operations
        /\ operations[r].fingerprint = op
        /\ outcome \in Resolutions
        /\ <<r, AuditOutcome(outcome)>> \in audit
        /\ unresolved[op] = r
    BY AtFinish DEF Resolution, Event, Blocks
  <1>2. /\ DOMAIN operations' = DOMAIN operations
        /\ operations'[r].outcome = outcome
        /\ \A q \in DOMAIN operations :
              /\ operations'[q].fingerprint = operations[q].fingerprint
              /\ q # r => operations'[q] = operations[q]
        /\ resolved' = resolved \cup {r}
    BY <1>1, FinishFacts DEF IInv, Resolution, Resolutions
  <1>3. /\ DOMAIN unresolved' = DOMAIN unresolved \ {op}
        /\ \A o \in DOMAIN unresolved' : unresolved'[o] = unresolved[o]
    BY <1>1 DEF Resolution, FinishOperation, Drop, Resolutions
  <1>4. NoBlindRetry'
    BY <1>1, <1>2, <1>3 DEF IInv, NoBlindRetry, Blocks
  <1>5. ResolvedIsAudited'
    BY <1>1, <1>2 DEF IInv, ResolvedIsAudited
  <1> QED  BY <1>4, <1>5

\* Giving up keeps every block there is.
LEMMA AmbiguousBlocks ==
    ASSUME IInv, NEW c \in DOMAIN calls, MarkAmbiguous(c),
           FinishOperation(calls[c].request, calls[c].operation, "ambiguous")
    PROVE  NoBlindRetry' /\ ResolvedIsAudited'
  <1> DEFINE r == calls[c].request
  <1>1. r \in DOMAIN operations
    BY DEF IInv, HoldersExclusive, HolderOK, Holding, MarkAmbiguous
  <1>2. /\ DOMAIN operations' = DOMAIN operations
        /\ operations'[r].outcome = "ambiguous"
        /\ \A q \in DOMAIN operations :
              /\ operations'[q].fingerprint = operations[q].fingerprint
              /\ q # r => operations'[q] = operations[q]
        /\ resolved' = resolved
    BY <1>1, FinishFacts DEF IInv
  <1>3. unresolved' = unresolved /\ audit \subseteq audit'
    BY DEF FinishOperation, MarkAmbiguous
  <1>4. NoBlindRetry'
    BY <1>2, <1>3 DEF IInv, NoBlindRetry, Blocks
  <1>5. ResolvedIsAudited'
    BY <1>2, <1>3 DEF IInv, ResolvedIsAudited, Resolutions
  <1> QED  BY <1>4, <1>5

\* One step of one call, or a new call, preserves the whole invariant.
LEMMA InvariantStep ==
    ASSUME IInv, Next
    PROVE  IInv'
  <1>0. ASSUME UNCHANGED <<operations, unresolved, resolved>>,
               audit \subseteq audit'
        PROVE  NoBlindRetry' /\ ResolvedIsAudited'
    BY <1>0 DEF IInv, NoBlindRetry, Blocks, ResolvedIsAudited
  <1>1. ASSUME NEW c \in Slots, NEW r \in Requests, NEW op \in Operations,
               Start(c, r, op)
        PROVE  IInv'
    <2>1. TypeOK' /\ HoldersExclusive'
      BY <1>1, StartTyped, StartExclusive DEF IInv
    <2>2. UNCHANGED <<operations, unresolved, audit, invoked, resolved>>
      BY <1>1 DEF Start
    <2> QED
      BY <1>0, <2>1, <2>2 DEF IInv, OneProviderCallPerRequest
  <1>2. ASSUME NEW c \in DOMAIN calls, Quiet(c)
        PROVE  IInv'
    <2>1. TypeOK' /\ HoldersExclusive'
      BY <1>2, BeforeTyped, ProviderTyped, AfterTyped, BeforeExclusive,
         ProviderExclusive, AfterExclusive DEF Quiet, IInv
    <2>2. NoBlindRetry' /\ ResolvedIsAudited'
      BY <1>0, <1>2, QuietSteps
    <2>3. CASE InvokeDone(c) \/ InvokeRejected(c) \/ InvokeAmbiguous(c)
      BY <2>1, <2>2, <2>3, CountedOnce DEF IInv
    <2>4. CASE UNCHANGED invoked
      BY <2>1, <2>2, <2>4 DEF IInv, OneProviderCallPerRequest
    <2>5. \/ InvokeDone(c) \/ InvokeRejected(c) \/ InvokeAmbiguous(c)
          \/ UNCHANGED invoked
      BY <1>2 DEF Quiet, Described, Approved, Refused, Confirm, Unconfirmed,
                  AuditAppended
    <2> QED  BY <2>3, <2>4, <2>5
  <1>3. ASSUME NEW c \in DOMAIN calls,
               Reserving(c) \/ Resolving(c) \/ MarkAmbiguous(c)
        PROVE  IInv'
    <2>1. TypeOK' /\ HoldersExclusive'
      BY <1>3, BeforeTyped, AfterTyped, BeforeExclusive, AfterExclusive
         DEF IInv, Reserving, Resolving
    <2>2. NoBlindRetry' /\ ResolvedIsAudited'
      BY <1>0, <1>3, StoreSteps, ReserveBlocks, FinishFrees, AmbiguousBlocks
    <2>3. UNCHANGED invoked
      BY <1>3, StoreSteps
    <2> QED  BY <2>1, <2>2, <2>3 DEF IInv, OneProviderCallPerRequest
  <1> QED  BY <1>1, <1>2, <1>3 DEF Next, Quiet, Reserving, Resolving

\* The invariant holds in every state of every behaviour.
THEOREM InductiveInvariant == Spec => []IInv
  <1>1. Init => IInv
    <2> SUFFICES ASSUME Init PROVE IInv
      OBVIOUS
    <2>1. TypeOK
      BY EmptyMapType DEF Init, TypeOK, KeyStatuses
    <2>2. DOMAIN calls = {} /\ DOMAIN operations = {}
      BY DEF Init, EmptyMap
    <2>3. \A r \in Requests : invoked[r] = 0 /\ r \notin resolved
      BY DEF Init
    <2> QED
      BY <2>1, <2>2, <2>3 DEF IInv, HoldersExclusive, Holding,
         OneProviderCallPerRequest, NoBlindRetry, ResolvedIsAudited
  <1>2. IInv /\ [Next]_vars => IInv'
    <2>1. CASE UNCHANGED vars
      BY <2>1 DEF vars, IInv, TypeOK, HoldersExclusive, HolderOK, Event,
         Holding, OneProviderCallPerRequest, NoBlindRetry, Blocks,
         ResolvedIsAudited
    <2> QED  BY <2>1, InvariantStep
  <1> QED  BY <1>1, <1>2, PTL DEF Spec

\* Every variable of the signer keeps to its type.
THEOREM TypeCorrect == Spec => []TypeOK
  BY InductiveInvariant, PTL DEF IInv

\* A request id reaches the provider at most once.
THEOREM AtMostOnce == Spec => []OneProviderCallPerRequest
  BY InductiveInvariant, PTL DEF IInv

\* An operation of which the store never recorded an end is not retried under
\* another id.
THEOREM NeverBlind == Spec => []NoBlindRetry
  BY InductiveInvariant, PTL DEF IInv

\* No outcome in the store without its audit event.
THEOREM Audited == Spec => []ResolvedIsAudited
  BY InductiveInvariant, PTL DEF IInv
-----------------------------------------------------------------------------
(* What a step never does.                                                 *)

\* No step resolves an ambiguous operation or lifts the block it still has.
LEMMA StickyStep ==
    ASSUME IInv, Next, NEW r \in DOMAIN operations,
           operations[r].outcome = "ambiguous"
    PROVE  operations'[r] = operations[r] /\ (Blocks(r) => Blocks(r)')
  <1> DEFINE Sticks == operations'[r] = operations[r] /\ (Blocks(r) => Blocks(r)')
  <1> SUFFICES Sticks
    OBVIOUS
  <1>1. CASE UNCHANGED <<operations, unresolved>>
    BY <1>1 DEF Blocks
  <1>2. ASSUME NEW c \in DOMAIN calls, Reservation(c)
        PROVE  Sticks
    BY <1>2 DEF Reservation, Reservable, Put, Blocks
  <1>3. ASSUME NEW c \in DOMAIN calls, Resolution(c)
        PROVE  Sticks
    <2>1. /\ calls[c].request \in DOMAIN operations
          /\ operations[calls[c].request].fingerprint = calls[c].operation
          /\ operations[calls[c].request].outcome = "pending"
          /\ Blocks(calls[c].request)
      BY <1>3, AtFinish DEF Resolution
    <2>2. calls[c].request # r
      BY <2>1
    <2>3. unresolved[calls[c].operation] = calls[c].request
      BY <2>1 DEF Blocks
    <2>4. operations'[r] = operations[r]
      BY <1>3, <2>1, <2>2, FinishFacts DEF IInv, Resolution
    <2>5. Blocks(r) => operations[r].fingerprint # calls[c].operation
      BY <2>2, <2>3 DEF Blocks
    <2> QED
      BY <1>3, <2>4, <2>5 DEF Blocks, Resolution, FinishOperation, Drop
  <1>4. ASSUME NEW c \in DOMAIN calls, MarkAmbiguous(c),
               FinishOperation(calls[c].request, calls[c].operation,
                               "ambiguous")
        PROVE  Sticks
    <2>1. operations[r] \in StoredOperation
      BY DEF IInv, TypeOK, IsMap
    <2>2. operations'[r] = operations[r]
      BY <1>4, <2>1 DEF FinishOperation, StoredOperation
    <2>3. unresolved' = unresolved
      BY <1>4 DEF FinishOperation
    <2> QED  BY <2>2, <2>3 DEF Blocks
  <1>5. \/ UNCHANGED <<operations, unresolved>>
        \/ \E c \in DOMAIN calls :
              Reserving(c) \/ Resolving(c) \/ MarkAmbiguous(c)
    <2>1. ASSUME NEW c \in DOMAIN calls, Quiet(c)
          PROVE  UNCHANGED <<operations, unresolved>>
      BY <2>1, QuietSteps
    <2> QED  BY <2>1 DEF Next, Start, Quiet, Reserving, Resolving
  <1> QED  BY <1>1, <1>2, <1>3, <1>4, <1>5, StoreSteps

\* Ambiguity is never resolved by the signer itself.
THEOREM AmbiguityStays == Spec => AmbiguityIsSticky
  <1>1. IInv /\ [Next]_vars =>
          [\A r \in DOMAIN operations :
              operations[r].outcome = "ambiguous" =>
                  /\ operations'[r] = operations[r]
                  /\ Blocks(r) => Blocks(r)']_vars
    BY StickyStep
  <1> QED  BY <1>1, InductiveInvariant, PTL DEF Spec, AmbiguityIsSticky

\* What the provider does to the keys, when their states allow it.
LEMMA EffectRetires ==
    ASSUME TypeOK, NEW op \in Operations, KeysAllow(op), keys' = Effect(op)
    PROVE  /\ \A k \in Keys : keys[k] \in {"rotated", "disabled"} =>
                 keys'[k] \in {keys[k], "disabled"}
           /\ \A k \in Keys : keys[k] # "active" /\ keys'[k] = "active" =>
                 \E j \in Keys : keys[j] = "active" /\ keys'[j] = "rotated"
  <1> USE OperationKeys
  <1>1. CASE op[1] = "sign"
    BY <1>1 DEF Effect
  <1>2. CASE op[1] = "rotate"
    <2>1. keys[op[2]] = "active" /\ keys[op[3]] = "standby"
      BY <1>2 DEF KeysAllow
    <2>2. keys' = [keys EXCEPT ![op[2]] = "rotated", ![op[3]] = "active"]
      BY <1>2 DEF Effect
    <2>3. /\ keys'[op[2]] = "rotated"
          /\ \A k \in Keys \ {op[2], op[3]} : keys'[k] = keys[k]
      BY <1>2, <2>1, <2>2 DEF TypeOK
    <2> QED  BY <1>2, <2>1, <2>3
  <1>3. CASE op[1] = "disable"
    <2>1. keys' = [keys EXCEPT ![op[2]] = "disabled"]
      BY <1>3 DEF Effect
    <2> QED  BY <2>1 DEF TypeOK
  <1> QED  BY <1>1, <1>2, <1>3

\* A retired key stays retired, and keys become active only by rotation.
THEOREM RetiredKeysStayRetired == Spec => KeysRetireForGood
  <1> DEFINE Retires ==
          /\ \A k \in Keys : keys[k] \in {"rotated", "disabled"} =>
                keys'[k] \in {keys[k], "disabled"}
          /\ \A k \in Keys : keys[k] # "active" /\ keys'[k] = "active" =>
                \E j \in Keys : keys[j] = "active" /\ keys'[j] = "rotated"
  <1>1. IInv /\ [Next]_vars => [Retires]_vars
    <2> SUFFICES ASSUME IInv, Next PROVE Retires
      OBVIOUS
    <2>1. CASE UNCHANGED keys
      BY <2>1
    <2>2. ASSUME NEW c \in DOMAIN calls, InvokeDone(c) \/ InvokeAmbiguous(c),
                 keys' # keys
          PROVE  Retires
      BY <2>2, CallFields, EffectRetires
         DEF IInv, InvokeDone, InvokeAmbiguous, ProviderAllows
    <2>3. \/ UNCHANGED keys
          \/ \E c \in DOMAIN calls : InvokeDone(c) \/ InvokeAmbiguous(c)
      BY DEF Next, Start, Described, Approved, Refused, Reserve,
             ReserveRefused, InvokeRejected, Confirm, Unconfirmed,
             AuditAppended, WriteFailed, Finished, MarkAmbiguous
    <2> QED  BY <2>1, <2>2, <2>3
  <1> QED  BY <1>1, InductiveInvariant, PTL DEF Spec, KeysRetireForGood

\* sign, rotate and disable: both at once.
THEOREM NoWayBack == Spec => NothingReverts
  BY AmbiguityStays, RetiredKeysStayRetired, PTL DEF NothingReverts
=============================================================================
