---------------------------- MODULE IssuerSigner ----------------------------
(***************************************************************************)
(* InstitutionalIssuerSigner (packages/issuer-signer/src/index.ts) in      *)
(* front of a KMS or HSM: dual approval, reservation of the operation, one *)
(* provider call, audit, and the outcome kept in IssuerOperationStore.     *)
(*                                                                         *)
(* Every stretch between two awaits is an action.  A call parks in `calls` *)
(* with pc naming what it awaits; keys is the key state of the adapter,    *)
(* which checks it again inside every mutation.                            *)
(***************************************************************************)
EXTENDS JsMap

CONSTANTS
    Keys,       \* opaque key references
    Payloads,   \* digests of what is signed
    Requests,   \* caller-chosen request ids
    Slots,      \* slots for calls served at the same time
    None        \* no second argument

ASSUME SignerAssumption == None \notin Keys \cup Payloads

VARIABLES
    keys,        \* key -> status, in the adapter
    operations,  \* request -> StoredOperation
    unresolved,  \* fingerprint -> request
    audit,       \* set of <<request, outcome>> appended
    calls,       \* parked sign, rotate and disable calls
    invoked,     \* history: how often a request reached the provider
    resolved     \* history: requests the store once recorded a resolution of

vars == <<keys, operations, unresolved, audit, calls, invoked, resolved>>
-----------------------------------------------------------------------------
KeyStatuses == {"active", "standby", "rotated", "disabled"}

\* What is asked for.  The digest that fingerprints an operation covers just
\* this (with the tenant, of which there is one here).
Operations ==
    {<<"sign", k, m>> : k \in Keys, m \in Payloads}
    \cup {<<"rotate", k, n>> : k \in Keys, n \in Keys}
    \cup {<<"disable", k, None>> : k \in Keys}

Resolutions == {"signed", "completed", "rejected"}
StoredOperation == [fingerprint : Operations,
                    outcome : Resolutions \cup {"pending", "ambiguous"}]

\* What a call awaits: "audit" and "finish" are the two writes that settle
\* its `outcome`, "ambiguous" and "unaudited" the ones that give up on it.
Awaits == {"describe", "approve", "reserve", "invoke", "confirmNext",
           "confirmPrevious", "confirmDisabled", "audit", "finish",
           "ambiguous", "unaudited"}
Call == [request : Requests, operation : Operations, pc : Awaits,
         outcome : Resolutions \cup {"pending"}]

Init ==
    /\ keys \in [Keys -> {"active", "standby", "disabled"}]
    /\ operations = EmptyMap /\ unresolved = EmptyMap
    /\ audit = {} /\ calls = EmptyMap
    /\ invoked = [r \in Requests |-> 0] /\ resolved = {}

GoTo(c, pc) == calls' = [calls EXCEPT ![c].pc = pc]
Settle(c, outcome) ==
    calls' = [calls EXCEPT ![c].pc = "audit", ![c].outcome = outcome]
Return(c) == calls' = Drop(calls, c)

AuditOutcome(outcome) == IF outcome = "rejected" THEN "rejected" ELSE "accepted"
Event(c) == <<calls[c].request, AuditOutcome(calls[c].outcome)>>
-----------------------------------------------------------------------------
(* Before the provider.                                                    *)

\* sign, rotate or disable is called; rotating a key to itself is refused.
Start(c, r, op) ==
    /\ c \notin DOMAIN calls
    /\ op[1] = "rotate" => op[2] # op[3]
    /\ calls' = Put(calls, c, [request |-> r, operation |-> op,
                               pc |-> "describe", outcome |-> "pending"])
    /\ UNCHANGED <<keys, operations, unresolved, audit, invoked, resolved>>

\* The key states an operation asks for, read by describeKey (both reads of
\* a rotation at once) or by the adapter itself.
KeysAllow(op) ==
    CASE op[1] = "sign"    -> keys[op[2]] = "active"
      [] op[1] = "rotate"  -> keys[op[2]] = "active" /\ keys[op[3]] = "standby"
      [] op[1] = "disable" -> keys[op[2]] # "disabled"

Described(c) ==
    /\ calls[c].pc = "describe"
    /\ KeysAllow(calls[c].operation)
    /\ GoTo(c, "approve")
    /\ UNCHANGED <<keys, operations, unresolved, audit, invoked, resolved>>

\* Two current approvals by two approvers, bound to this request.
Approved(c) ==
    /\ calls[c].pc = "approve"
    /\ GoTo(c, "reserve")
    /\ UNCHANGED <<keys, operations, unresolved, audit, invoked, resolved>>

\* The key does not fit, approvals are missing or invalid, or a port throws:
\* the refusal is audited unless the audit port fails too.
Refused(c) ==
    /\ calls[c].pc \in {"describe", "approve"}
    /\ \/ audit' = audit \cup {<<calls[c].request, "rejected">>}
       \/ UNCHANGED audit
    /\ Return(c)
    /\ UNCHANGED <<keys, operations, unresolved, invoked, resolved>>

\* Mutant of Reservable: a request id may be used again.
ReservableAgain(r, op) == op \notin DOMAIN unresolved

Reservable(r, op) == r \notin DOMAIN operations /\ op \notin DOMAIN unresolved

\* The two writes of a reservation.
Reservation(c) ==
    /\ Reservable(calls[c].request, calls[c].operation)
    /\ operations' = Put(operations, calls[c].request,
           [fingerprint |-> calls[c].operation, outcome |-> "pending"])
    /\ unresolved' = Put(unresolved, calls[c].operation, calls[c].request)

Reserve(c) ==
    /\ calls[c].pc = "reserve"
    /\ Reservation(c)
    /\ GoTo(c, "invoke")
    /\ UNCHANGED <<keys, audit, invoked, resolved>>

\* duplicate-request, unresolved-operation, or the store throws, before or
\* after it made the reservation: nobody ever settles that one.
ReserveRefused(c) ==
    /\ calls[c].pc = "reserve"
    /\ \/ Reservation(c)
       \/ UNCHANGED <<operations, unresolved>>
    /\ Return(c)
    /\ UNCHANGED <<keys, audit, invoked, resolved>>
-----------------------------------------------------------------------------
(* The provider call.                                                      *)

Effect(op) ==
    CASE op[1] = "sign"    -> keys
      [] op[1] = "rotate"  -> [keys EXCEPT ![op[2]] = "rotated",
                                           ![op[3]] = "active"]
      [] op[1] = "disable" -> [keys EXCEPT ![op[2]] = "disabled"]

\* Mutant of ProviderAllows: the adapter trusts the preceding describe call.
ProviderAllowsAnything(op) == op \in Operations

ProviderAllows(op) == KeysAllow(op)

Count(r) == invoked' = [invoked EXCEPT ![r] = @ + 1]

\* The provider does it and says so; a mutation is then read back.
InvokeDone(c) ==
    LET op == calls[c].operation
    IN  /\ calls[c].pc = "invoke"
        /\ ProviderAllows(op)
        /\ keys' = Effect(op)
        /\ CASE op[1] = "sign"    -> Settle(c, "signed")
             [] op[1] = "rotate"  -> GoTo(c, "confirmNext")
             [] op[1] = "disable" -> GoTo(c, "confirmDisabled")
        /\ Count(calls[c].request)
        /\ UNCHANGED <<operations, unresolved, audit, resolved>>

\* The provider refuses: the key state moved on, or any reason of its own.
InvokeRejected(c) ==
    /\ calls[c].pc = "invoke"
    /\ Settle(c, "rejected")
    /\ Count(calls[c].request)
    /\ UNCHANGED <<keys, operations, unresolved, audit, resolved>>

\* The call throws, reports ambiguity or answers something malformed: the
\* effect may or may not have happened.
InvokeAmbiguous(c) ==
    LET op == calls[c].operation
    IN  /\ calls[c].pc = "invoke"
        /\ \/ ProviderAllows(op) /\ keys' = Effect(op)
           \/ UNCHANGED keys
        /\ GoTo(c, "ambiguous")
        /\ Count(calls[c].request)
        /\ UNCHANGED <<operations, unresolved, audit, resolved>>

\* describeKey after a mutation: the next key must be active, the previous
\* one must not, a disabled key must be disabled.
Confirm(c) ==
    LET op == calls[c].operation
    IN  /\ \/ /\ calls[c].pc = "confirmNext" /\ keys[op[3]] = "active"
              /\ GoTo(c, "confirmPrevious")
           \/ /\ calls[c].pc = "confirmPrevious" /\ keys[op[2]] # "active"
              /\ Settle(c, "completed")
           \/ /\ calls[c].pc = "confirmDisabled" /\ keys[op[2]] = "disabled"
              /\ Settle(c, "completed")
        /\ UNCHANGED <<keys, operations, unresolved, audit, invoked, resolved>>

\* The read-back fails or shows something else.
Unconfirmed(c) ==
    /\ calls[c].pc \in {"confirmNext", "confirmPrevious", "confirmDisabled"}
    /\ GoTo(c, "ambiguous")
    /\ UNCHANGED <<keys, operations, unresolved, audit, invoked, resolved>>
-----------------------------------------------------------------------------
(* After the provider: audit first, then the store.                        *)

AuditAppended(c) ==
    /\ calls[c].pc = "audit"
    /\ audit' = audit \cup {Event(c)}
    /\ GoTo(c, "finish")
    /\ UNCHANGED <<keys, operations, unresolved, invoked, resolved>>

\* IssuerOperationStore.finish
FinishOperation(r, op, outcome) ==
    /\ operations' = [operations EXCEPT ![r].outcome = outcome]
    /\ unresolved' = IF outcome # "ambiguous" THEN Drop(unresolved, op)
                                              ELSE unresolved
    /\ resolved' = IF outcome # "ambiguous" THEN resolved \cup {r}
                                            ELSE resolved

\* The audit port or the store throws, with its write done or not: a finish
\* that was done has lifted the block.  A mutation audits its ambiguity then,
\* a signature does not.
WriteFailed(c) ==
    LET r == calls[c].request
    IN  /\ \/ /\ calls[c].pc \in {"audit", "finish"}
              /\ UNCHANGED <<operations, unresolved, audit, resolved>>
           \/ /\ calls[c].pc = "audit"
              /\ audit' = audit \cup {Event(c)}
              /\ UNCHANGED <<operations, unresolved, resolved>>
           \/ /\ calls[c].pc = "finish"
              /\ FinishOperation(r, calls[c].operation, calls[c].outcome)
              /\ UNCHANGED audit
        /\ GoTo(c, IF calls[c].operation[1] = "sign" THEN "unaudited"
                                                    ELSE "ambiguous")
        /\ UNCHANGED <<keys, invoked>>

Finished(c) ==
    /\ calls[c].pc = "finish"
    /\ FinishOperation(calls[c].request, calls[c].operation, calls[c].outcome)
    /\ Return(c)
    /\ UNCHANGED <<keys, audit, invoked>>

\* Mutant of MarkAmbiguous: giving up frees the operation for another try.
MarkAmbiguousAndFree(c) ==
    /\ calls[c].pc \in {"ambiguous", "unaudited"}
    /\ operations' = [operations EXCEPT
           ![calls[c].request].outcome = "ambiguous"]
    /\ unresolved' = Drop(unresolved, calls[c].operation)
    /\ Return(c)
    /\ UNCHANGED <<keys, audit, invoked, resolved>>

\* markAmbiguous and auditAmbiguous each swallow a failure of their port; the
\* stored outcome then stays as it is.  No finish restores a block.  Nothing
\* reads the audit log, so the two writes are one step.
MarkAmbiguous(c) ==
    LET r == calls[c].request
    IN  /\ calls[c].pc \in {"ambiguous", "unaudited"}
        /\ \/ FinishOperation(r, calls[c].operation, "ambiguous")
           \/ UNCHANGED <<operations, unresolved, resolved>>
        /\ \/ /\ calls[c].pc = "ambiguous"
              /\ audit' = audit \cup {<<r, "ambiguous">>}
           \/ UNCHANGED audit
        /\ Return(c)
        /\ UNCHANGED <<keys, invoked>>
-----------------------------------------------------------------------------
Next ==
    \/ \E c \in Slots, r \in Requests, op \in Operations : Start(c, r, op)
    \/ \E c \in DOMAIN calls :
          \/ Described(c) \/ Approved(c) \/ Refused(c)
          \/ Reserve(c) \/ ReserveRefused(c)
          \/ InvokeDone(c) \/ InvokeRejected(c) \/ InvokeAmbiguous(c)
          \/ Confirm(c) \/ Unconfirmed(c)
          \/ AuditAppended(c) \/ WriteFailed(c)
          \/ Finished(c) \/ MarkAmbiguous(c)

Spec == Init /\ [][Next]_vars
-----------------------------------------------------------------------------
(* What the signer promises.                                               *)

\* Every variable keeps to the types of the source.
TypeOK ==
    /\ keys \in [Keys -> KeyStatuses]
    /\ IsMap(operations, Requests, StoredOperation)
    /\ IsMap(unresolved, Operations, Requests)
    /\ audit \subseteq Requests \X {"accepted", "rejected", "ambiguous"}
    /\ IsMap(calls, Slots, Call)
    /\ invoked \in [Requests -> Nat]
    /\ resolved \subseteq Requests

\* A request id reaches the provider at most once, however many calls use it
\* at the same time or later.
OneProviderCallPerRequest == \A r \in Requests : invoked[r] <= 1

\* r is what blocks its operation under other request ids.
Blocks(r) ==
    /\ operations[r].fingerprint \in DOMAIN unresolved
    /\ unresolved[operations[r].fingerprint] = r

\* As long as the store never recorded how an operation ended, it is not
\* handed to the provider again, also not under another request id: every
\* request without a recorded resolution holds the block on its operation, so
\* there is at most one for each.  A finish that records the resolution and
\* then throws is outside: the call reports ambiguity, the store shows the
\* operation ambiguous, and the block is gone.
NoBlindRetry == \A r \in DOMAIN operations \ resolved : Blocks(r)

\* The store calls an operation signed, completed or rejected only when the
\* audit log has the matching event, whichever port fails in between.
ResolvedIsAudited ==
    \A r \in DOMAIN operations :
        operations[r].outcome \in Resolutions =>
            <<r, AuditOutcome(operations[r].outcome)>> \in audit

\* Ambiguity is never resolved behind the operator's back: the outcome stays,
\* and so does the block on the operation wherever there still is one.
AmbiguityIsSticky ==
    [][\A r \in DOMAIN operations :
          operations[r].outcome = "ambiguous" =>
              /\ operations'[r] = operations[r]
              /\ Blocks(r) => Blocks(r)']_vars

\* Rotations that race with each other or with disabling never revive a
\* disabled or a rotated key, and a key becomes active only when another one
\* stops being so.
KeysRetireForGood ==
    [][/\ \A k \in Keys : keys[k] \in {"rotated", "disabled"} =>
             keys'[k] \in {keys[k], "disabled"}
       /\ \A k \in Keys : keys[k] # "active" /\ keys'[k] = "active" =>
             \E j \in Keys : keys[j] = "active" /\ keys'[j] = "rotated"]_vars

\* Neither an operation of unknown outcome nor a retired key comes back.
NothingReverts == AmbiguityIsSticky /\ KeysRetireForGood
-----------------------------------------------------------------------------
(* The inductive strengthening behind those invariants.                    *)

\* The calls that have reserved their operation and not returned yet.
Holding == {c \in DOMAIN calls :
               calls[c].pc \notin {"describe", "approve", "reserve"}}

\* What holds while a call has its operation reserved: the store shows it
\* pending until a finish reaches it, the provider was not asked before, and
\* the audit event is there before the outcome is.
HolderOK(c) ==
    LET r == calls[c].request
    IN  /\ r \in DOMAIN operations
        /\ operations[r].fingerprint = calls[c].operation
        /\ r \notin resolved => operations[r].outcome = "pending"
        /\ r \in resolved => calls[c].pc \in {"ambiguous", "unaudited"}
        /\ calls[c].pc = "invoke" => invoked[r] = 0
        /\ calls[c].pc \in {"audit", "finish"} =>
              calls[c].outcome \in Resolutions
        /\ calls[c].pc = "finish" => Event(c) \in audit

\* A reservation belongs to one call, and nothing happens without one.
HoldersExclusive ==
    /\ \A c \in Holding : HolderOK(c)
    /\ \A c, d \in Holding : calls[c].request = calls[d].request => c = d
    /\ \A r \in Requests \ DOMAIN operations :
          invoked[r] = 0 /\ r \notin resolved
=============================================================================
