------------------------------ MODULE MCAccess ------------------------------
(***************************************************************************)
(* Small instances of AuthPasskey, AuthOidc, InstitutionalAdmin,           *)
(* SignerOperations, IssuerLifecycle, WebWallet (with OpenId4Vci and       *)
(* OpenId4Vp), CredentialVault, WalletPortability and                      *)
(* SelfIssuedCredentials for TLC: who gets in, what the administrators of  *)
(* an institution may do, and what a holder takes, keeps and shows.  Their *)
(* states are disjoint, so one run explores them side by side: `part` says *)
(* which of them a behaviour is about, and the others stay where they      *)
(* start.                                                                  *)
(***************************************************************************)
EXTENDS Access, TLC

CONSTANTS k0, k1, k2, ch1, ch2

VARIABLE part

adminsVars == <<adminVars, operationsVars, lcVars>>
accessVars == <<pkVars, oidcVars, adminsVars>>
walletVars == <<vciVars, vpVars, webVars>>
holderVars == <<vaultVars, portVars, selfVars>>
mcVars == <<part, accessVars, walletVars, holderVars>>

MCSymmetry ==
    Permutations({k1, k2}) \cup Permutations({ch1, ch2})

\* Two wallets, one account under two DIDs.
MCWallets == {[account |-> 1, did |-> 1], [account |-> 1, did |-> 2]}

MCPrincipal(tenant, id, role, scopes) ==
    [role |-> role, scopes |-> scopes, tenantId |-> tenant, principalId |-> id]

\* An owner, an editor and a reviewer of one tenant, a delegated administrator
\* who may only write signers, a viewer of another tenant.
MCAdminPrincipals ==
    {MCPrincipal("t", 1, "institutional-owner", None),
     MCPrincipal("t", 2, "template-editor", None),
     MCPrincipal("t", 3, "template-reviewer", None),
     MCPrincipal("t", 4, "institutional-admin", {"signers:write"}),
     MCPrincipal("u", 5, "institutional-viewer", None)}

MCIssuerAdmin(id, role, reauthenticated) ==
    [role |-> role, scopes |-> None, principalId |-> id, reauthenticated |-> reauthenticated]

MCIssuerAdmins ==
    {MCIssuerAdmin(1, "issuer-owner", TRUE), MCIssuerAdmin(2, "issuer-admin", FALSE),
     MCIssuerAdmin(3, "issuer-reviewer", TRUE)}

\* No passkey yet, one, or two of the first wallet, so that the challenges are
\* spent on what happens next.
MCPasskeys ==
    {[id \in 1..n |-> [wallet |-> [account |-> 1, did |-> 1], status |-> "active"]] : n \in 0..2}

MCEntry == [strategy |-> "prf", key |-> [factor |-> "f", zeroed |-> FALSE], adult |-> TRUE]
MCVaults == {EmptyMap, [id \in {"a"} |-> MCEntry], [id \in {"a", "b"} |-> MCEntry]}

\* Requests of the verifier: one that answers at its own origin, one that does not
\* and is confirmed, and one that is not.
MCRequests ==
    {r \in Reviewable : /\ r.request.state = 1 /\ r.request.clientId = VpVerifier
                        /\ r.resolved => r.request.responseUri # VpVerifier}

\* Requests of any verifier for any state, under its own origin.
MCSameOrigin == {r \in Reviewable : ~r.resolved /\ r.request.clientId = r.request.responseUri}

MCVault ==
    CASE part = "presentations" -> {"a"}
      [] part = "reviews" -> {"a", "b"}
      [] OTHER -> {}

MCFactor(kind, strong) == [kind |-> kind, strong |-> strong, value |-> 1]

\* A PRF output, a passphrase, and one that is too short.
MCFactors == {MCFactor("prf", TRUE), MCFactor("passphrase", TRUE), MCFactor("passphrase", FALSE)}

LoginParts == {"passkey", "oidc"}
AdminParts == {"templates", "rotations", "observations", "decisions", "bulk"}
WalletParts == {"offers", "reviews", "presentations"}
HolderParts == {"vault", "import", "vendors", "self-issued"}

MCInit ==
    /\ part \in LoginParts \cup AdminParts \cup WalletParts \cup HolderParts
    /\ VciInit /\ VpInit /\ WebInit
    /\ part # "offers" => issuerFixture = "valid"
    /\ DOMAIN webVault = MCVault
    /\ pkNow = 0
    /\ challengeStore = EmptyMap /\ ceremonies = EmptyMap
    /\ challengeUse = EmptyMap /\ quietlyRevoked = {}
    /\ passkeys \in IF part = "passkey" THEN MCPasskeys ELSE {EmptyMap}
    /\ OidcInit /\ AdminInit /\ OperationsInit /\ LifecycleInit
    /\ VaultInit /\ PortabilityInit /\ SelfIssuedInit
    /\ part # "vault" => vaultKind = "memory"
    /\ part # "vendors" => controls = {"v"}
    /\ part # "self-issued" => \A k \in KeyIds : holderKeys[k].controller = "h"

LoginNext ==
    \/ part = "passkey" /\ PasskeyNext /\ UNCHANGED oidcVars
    \/ part = "oidc" /\ OidcNext /\ UNCHANGED pkVars

AdminsNext ==
    \/ part = "templates" /\ AdminNext /\ UNCHANGED <<operationsVars, lcVars>>
    \/ part = "rotations" /\ (RotationNext \/ ProviderNext) /\ UNCHANGED <<adminVars, lcVars>>
    \/ part = "observations" /\ ObservationNext /\ UNCHANGED <<adminVars, lcVars>>
    \/ part = "decisions" /\ DecisionNext /\ UNCHANGED <<adminVars, operationsVars>>
    \/ part = "bulk" /\ (BulkNext \/ ReissueNext) /\ UNCHANGED <<adminVars, operationsVars>>

WalletNext ==
    \/ part = "offers" /\ OffersNext /\ UNCHANGED vpVars
    \/ /\ part = "reviews"
       /\ \/ PresentationsNext(Slots, MCRequests)
          \/ UserNext /\ Len(webSecrets') = 1 /\ UNCHANGED vpVars
       /\ UNCHANGED vciVars
    \/ /\ part = "presentations"
       /\ \/ PresentationsNext({k0}, MCSameOrigin)
          \/ ~Unlocked /\ UserNext /\ UNCHANGED vpVars
          \/ VerifierNext /\ UNCHANGED webVars
       /\ UNCHANGED vciVars

HolderNext ==
    \/ part = "vault" /\ VaultNext /\ UNCHANGED <<portVars, selfVars>>
    \/ part = "import" /\ ImportNext /\ UNCHANGED <<vaultVars, selfVars>>
    \/ part = "vendors" /\ VendorRotationNext /\ UNCHANGED <<vaultVars, selfVars>>
    \/ part = "self-issued" /\ SelfIssuedNext /\ UNCHANGED <<vaultVars, portVars>>

MCNext ==
    /\ UNCHANGED part
    /\ \/ LoginNext /\ UNCHANGED <<adminsVars, walletVars, holderVars>>
       \/ AdminsNext /\ UNCHANGED <<pkVars, oidcVars, walletVars, holderVars>>
       \/ WalletNext /\ UNCHANGED <<accessVars, holderVars>>
       \/ HolderNext /\ UNCHANGED <<accessVars, walletVars>>

MCSpec == MCInit /\ [][MCNext]_mcVars
=============================================================================
