------------------------------ MODULE MCHolder ------------------------------
(***************************************************************************)
(* Small instances of the components on a holder's side and of those that  *)
(* check what it presents: RecoveryController and SafeService (the account *)
(* behind a wallet), CredentialDomain, OnChainAttestation,                 *)
(* CredentialScanner and OfflineEnvelope.  They share no state, so one run *)
(* explores them side by side: `part` says which of them a behaviour is    *)
(* about, and the others stay where they start.                            *)
(***************************************************************************)
EXTENDS RecoveryController, SafeService, CredentialDomain, OnChainAttestation, CredentialScanner,
        OfflineEnvelope

CONSTANTS k1, k2

VARIABLE part

accountVars == <<recoveryVars, safeVars>>
presentationVars == <<domainVars, attVars, scanVars, offlineVars>>
mcVars == <<part, accountVars, presentationVars>>

MCManifest(a, t, v) == [address |-> a, type |-> t, version |-> v, codeHash |-> "h"]

\* One address pinned as two types, another at one version.
MCPinned == {MCManifest("x", "validator", 1), MCManifest("x", "hook", 1),
             MCManifest("y", "executor", 1)}
MCManifests == MCPinned \cup {MCManifest("y", "executor", 2), MCManifest("z", "hook", 1)}

MCChainOf == [d \in Deployments |-> IF d = "c" THEN 1 ELSE 2]

MCContent(issuer, key, status) ==
    [issuer |-> issuer, key |-> key, status |-> status, schema |-> "active",
     from |-> 0, until |-> 1]

\* All is well, the status is withdrawn, the key is.
MCContents ==
    {MCContent("active", "retired", "valid"), MCContent("active", "active", "revoked"),
     MCContent("active", "revoked", "valid")}

MCInit ==
    /\ RecoveryInit /\ SafeInit
    /\ DomainInit /\ OnChainAttestationInit /\ ScannerInit /\ OfflineInit
    /\ part \in {"recovery", "modules", "adapter", "submissions", "challenge", "status",
                 "attestation", "token", "gate", "offline"}
    /\ part # "attestation" => \A d \in Deployments, a \in Attestors : attestorVersion[d][a] = "v1"

AccountNext ==
    /\ UNCHANGED presentationVars
    /\ \/ part = "recovery" /\ Recovery /\ UNCHANGED safeVars
       \/ part = "modules" /\ Modules /\ UNCHANGED safeVars
       \/ part = "adapter" /\ SafeAdapter /\ UNCHANGED recoveryVars
       \/ part = "submissions" /\ UserOperations /\ UNCHANGED recoveryVars

PresentationNext ==
    /\ UNCHANGED accountVars
    /\ \/ /\ part = "challenge" /\ (DomainTick \/ ChallengeNext)
          /\ UNCHANGED <<attVars, scanVars, offlineVars>>
       \/ /\ part = "status" /\ (DomainTick \/ StatusNext)
          /\ UNCHANGED <<attVars, scanVars, offlineVars>>
       \/ part = "attestation" /\ AttestationNext /\ UNCHANGED <<domainVars, scanVars, offlineVars>>
       \/ part = "token" /\ TokenNext /\ UNCHANGED <<domainVars, attVars, offlineVars>>
       \/ part = "gate" /\ GateNext /\ UNCHANGED <<domainVars, attVars, offlineVars>>
       \/ part = "offline" /\ OfflineNext /\ UNCHANGED <<domainVars, attVars, scanVars>>

MCNext == UNCHANGED part /\ (AccountNext \/ PresentationNext)

MCSpec == MCInit /\ [][MCNext]_mcVars /\ SafeFairness /\ StatusFairness
=============================================================================
