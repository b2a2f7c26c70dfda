------------------------------- MODULE Access -------------------------------
(***************************************************************************)
(* Who gets in, what the administrators of an institution may do, and what *)
(* a holder takes, keeps and shows: the components side by side, and the   *)
(* properties that are about several of them.  Their states are disjoint.  *)
(***************************************************************************)
EXTENDS AuthPasskey, AuthOidc, SignerOperations, IssuerLifecycle, WebWallet,
        CredentialVault, WalletPortability, SelfIssuedCredentials

\* Challenges of passkey ceremonies, states of provider logins and states of
\* presentations are spent once, by what they were made for.
LoginsAreOneTime == PasskeyOneTime /\ OidcOneTime /\ AccessIsOneTime

\* Codes and tokens go to the issuer of their offer, presentations to the verifier
\* that was reviewed, for what was reviewed, and nothing else gives access there.
NothingGoesAstray == CodesStayHome /\ DisclosuresAreApproved /\ AccessWasApproved

\* What is published was approved as it stands, and what is offered was approved
\* by others.
DutiesAreSeparated == PublishedAsReviewed /\ ReviewersDoNotIssue
=============================================================================
