-------------------------- MODULE SignerOperations --------------------------
(***************************************************************************)
(* apps/admin-console/src/identity-operations: the health, rotations and   *)
(* trust records the console keeps of an institution's signers.  A         *)
(* rotation asks the provider with an await; meanwhile results arrive by   *)
(* other ways, and the failure path writes the request it read before.     *)
(*                                                                         *)
(* The provider is external: it may fail, answer for another rotation or   *)
(* report versions nobody asked for.                                       *)
(***************************************************************************)
EXTENDS InstitutionalAdmin

CONSTANTS
    RotationIds,
    RotationPlans,               \* signers and key versions of a rotation
    TrustIds,                    \* an authority with its profile
    MaxTrustTime, MaxTrustAge    \* bound: time; maxAgeMs

VARIABLES
    signerHealth,                \* <<tenant, signer>> -> health
    rotations,                   \* <<tenant, rotation>> -> SignerRotationRequest
    rotationCalls,               \* slot -> rotateWithProvider under way
    lastResult,                  \* history: <<tenant, rotation>> -> result recorded last
    trustNow,
    trustRecords                 \* <<tenant, trust id>> -> TrustStatusRecord

operationsVars ==
    <<signerHealth, rotations, rotationCalls, lastResult, trustNow, trustRecords>>
-----------------------------------------------------------------------------
IdentityOperationsScope ==
    {"signers:read", "signers:rotate", "trust:read", "trust:write", "audit:read"}

IdentityRoleScopes ==
    [role \in InstitutionalAdminRole |->
        CASE role \in {"institutional-owner", "institutional-admin", "security-admin"} ->
                IdentityOperationsScope
          [] role \in {"template-editor", "template-reviewer"} -> {}
          [] role = "institutional-viewer" -> {"signers:read", "trust:read", "audit:read"}]

AuthorizeIdentityOperations(p, scope, tenant) ==
    /\ p.tenantId = tenant
    /\ scope \in IdentityRoleScopes[p.role]
    /\ p.scopes # None => scope \in p.scopes

RotationState == {"requested", "ready", "succeeded", "failed", "ambiguous"}
RotationOutcome == RotationState \ {"requested"}
SignerHealthState == {"healthy", "degraded", "unavailable", "unknown"}

SignerRotationRequest == [plan : RotationPlans, state : RotationState]

\* `sound`: identifiers and timestamp pass requireOpaqueId, assertFiniteTimestamp.
RotationResult ==
    [rotationId : RotationIds, outcome : RotationOutcome, observed : RotationPlans,
     sound : BOOLEAN]

ConfiguredTrust == {"trusted", "untrusted", "revoked"}

TrustStatusInput ==
    [configured : ConfiguredTrust, observedAt : 0..MaxTrustTime,
     expiresAt : 0..MaxTrustTime \cup {None}]

OperationsInit ==
    /\ signerHealth = EmptyMap /\ rotations = EmptyMap /\ rotationCalls = EmptyMap
    /\ lastResult = EmptyMap
    /\ trustNow = 1 /\ trustRecords = EmptyMap

\* setHealth needs only the right to read.
SetHealth(p, k, health) ==
    /\ AuthorizeIdentityOperations(p, "signers:read", k[1])
    /\ signerHealth' = Put(signerHealth, k, health)
    /\ UNCHANGED <<rotations, rotationCalls, lastResult, trustNow, trustRecords>>

\* requestRotation: asked again, it answers with the request there is.
RequestRotation(p, k, plan) ==
    /\ AuthorizeIdentityOperations(p, "signers:rotate", k[1])
    /\ k \notin DOMAIN rotations
    /\ rotations' = Put(rotations, k, [plan |-> plan, state |-> "requested"])
    /\ UNCHANGED <<signerHealth, rotationCalls, lastResult, trustNow, trustRecords>>

FailClosed(request) == [request EXCEPT !.state = "ambiguous"]

\* Mutant of ResultOf: a success can be taken back.
ResultTakesBack(existing, result) ==
    IF result.observed # existing.plan \/ result.outcome = "ambiguous"
    THEN FailClosed(existing)
    ELSE [existing EXCEPT !.state = result.outcome]

\* What recordRotationResult makes of a result: other versions than planned, or
\* anything but success after a success, are ambiguous.
ResultOf(existing, result) ==
    IF \/ result.observed # existing.plan
       \/ result.outcome = "ambiguous"
       \/ existing.state = "succeeded" /\ result.outcome # "succeeded"
    THEN FailClosed(existing)
    ELSE [existing EXCEPT !.state = result.outcome]

\* recordRotationResult does not throw.
Recordable(p, tenant, result) ==
    /\ AuthorizeIdentityOperations(p, "signers:rotate", tenant)
    /\ <<tenant, result.rotationId>> \in DOMAIN rotations
    /\ result.sound

Recorded(tenant, result) ==
    LET k == <<tenant, result.rotationId>>
    IN  /\ rotations' = Put(rotations, k, ResultOf(rotations[k], result))
        /\ lastResult' = Put(lastResult, k, [outcome |-> result.outcome,
                                             observed |-> result.observed])

RecordRotationResult(p, tenant, result) ==
    /\ Recordable(p, tenant, result)
    /\ Recorded(tenant, result)
    /\ UNCHANGED <<signerHealth, rotationCalls, trustNow, trustRecords>>

\* rotateWithProvider reads the request and asks the provider.
RotateWithProvider(s, p, k) ==
    /\ s \notin DOMAIN rotationCalls
    /\ AuthorizeIdentityOperations(p, "signers:rotate", k[1])
    /\ k \in DOMAIN rotations
    /\ rotationCalls' = Put(rotationCalls, s, [by |-> p, key |-> k, request |-> rotations[k]])
    /\ UNCHANGED <<signerHealth, rotations, lastResult, trustNow, trustRecords>>

\* The provider has answered, or failed (None).  What cannot be recorded makes
\* the request that was read ambiguous.
ProviderRotated(s, result) ==
    /\ s \in DOMAIN rotationCalls
    /\ LET c == rotationCalls[s]
           recordable == result # None /\ Recordable(c.by, c.key[1], result) IN
       \/ recordable /\ Recorded(c.key[1], result)
       \/ /\ ~recordable /\ UNCHANGED lastResult
          /\ rotations' = Put(rotations, c.key, FailClosed(c.request))
    /\ rotationCalls' = Drop(rotationCalls, s)
    /\ UNCHANGED <<signerHealth, trustNow, trustRecords>>
-----------------------------------------------------------------------------
(* InMemoryTrustStatusStore                                                *)

Stale(input) ==
    \/ input.observedAt = 0
    \/ trustNow < input.observedAt
    \/ trustNow - input.observedAt > MaxTrustAge
    \/ input.expiresAt # None /\ trustNow >= input.expiresAt

\* resolveRecord: what is stored is resolved again on every read.
ResolveRecord(input) ==
    LET effective == IF Stale(input) THEN "stale" ELSE input.configured IN
    [input |-> input, effective |-> effective, active |-> effective = "trusted"]

\* upsert: whatever it observed and when, the last write wins.
UpsertTrust(p, k, input) ==
    /\ AuthorizeIdentityOperations(p, "trust:write", k[1])
    /\ trustRecords' = Put(trustRecords, k, ResolveRecord(input))
    /\ UNCHANGED <<signerHealth, rotations, rotationCalls, lastResult, trustNow>>

\* resolve writes the refreshed record back.
ResolveTrust(p, k) ==
    /\ AuthorizeIdentityOperations(p, "trust:read", k[1])
    /\ k \in DOMAIN trustRecords
    /\ trustRecords' = [trustRecords EXCEPT ![k] = ResolveRecord(@.input)]
    /\ UNCHANGED <<signerHealth, rotations, rotationCalls, lastResult, trustNow>>

TrustTick ==
    /\ trustNow < MaxTrustTime /\ trustNow' = trustNow + 1
    /\ UNCHANGED <<signerHealth, rotations, rotationCalls, lastResult, trustRecords>>

RotationNext ==
    \E p \in AdminPrincipals :
        \/ \E k \in Tenants \X RotationIds :
              \/ \E plan \in RotationPlans : RequestRotation(p, k, plan)
              \/ \E s \in Slots : RotateWithProvider(s, p, k)
        \/ \E tenant \in Tenants, result \in RotationResult :
              RecordRotationResult(p, tenant, result)

ProviderNext == \E s \in Slots, result \in RotationResult \cup {None} : ProviderRotated(s, result)

ObservationNext ==
    \/ TrustTick
    \/ \E p \in AdminPrincipals, k \in Tenants \X AdminSigners, health \in SignerHealthState :
          SetHealth(p, k, health)
    \/ \E p \in AdminPrincipals, k \in Tenants \X TrustIds :
          \/ \E input \in TrustStatusInput : UpsertTrust(p, k, input)
          \/ ResolveTrust(p, k)

OperationsSpec ==
    OperationsInit /\ [][RotationNext \/ ProviderNext \/ ObservationNext]_operationsVars

OperationsTypeOK ==
    /\ IsMap(signerHealth, Tenants \X AdminSigners, SignerHealthState)
    /\ IsMap(rotations, Tenants \X RotationIds, SignerRotationRequest)
    /\ DOMAIN rotationCalls \subseteq Slots
-----------------------------------------------------------------------------
\* A rotation shown as ready, succeeded or failed is what the result recorded last
\* said of it, and that result observed the versions the rotation was requested for.
Reported ==
    \A k \in DOMAIN rotations :
        rotations[k].state \in {"ready", "succeeded", "failed"} =>
            /\ k \in DOMAIN lastResult
            /\ lastResult[k].outcome = rotations[k].state
            /\ lastResult[k].observed = rotations[k].plan

\* Whatever results arrive, in whatever order and for whichever rotation, and whatever
\* calls of the provider fail meanwhile, a rotation keeps the signers and versions it was
\* requested for, is shown as the last result said or as ambiguous, and a success turns
\* into nothing but ambiguous.  An ambiguous one takes whatever result is recorded next:
\* in two steps a success may well become a failure.
RotationsAreNotForgotten ==
    [][/\ Reported'
       /\ \A k \in DOMAIN rotations :
             /\ k \in DOMAIN rotations'
             /\ rotations'[k].plan = rotations[k].plan
             /\ rotations[k].state = "succeeded" =>
                   rotations'[k].state \in {"succeeded", "ambiguous"}]_operationsVars
=============================================================================
