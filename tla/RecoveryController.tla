-------------------------- MODULE RecoveryController --------------------------
(***************************************************************************)
(* createRecoveryController and createERC7579Lifecycle of                  *)
(* packages/account-adapter/src/index.ts: guardians rotate the signer of an    *)
(* account, and its owner installs the modules a policy pins.              *)
(*                                                                         *)
(* A proposal is hashed before it becomes the pending one (`proposing`);   *)
(* another may be proposed, approved or executed meanwhile.  Callers pass  *)
(* the height of the chain.                                                *)
(***************************************************************************)
EXTENDS CallSlots

CONSTANTS
    Signers, Guardians,
    Threshold, TimelockBlocks,      \* the recovery policy
    MaxBlock, MaxProposals,         \* bounds: height, proposals made
    Manifests,                      \* [address, type, version, codeHash]
    PinnedModules                   \* ERC7579Policy.modules

\* assertERC7579Policy: every entry names a version and code hash, and an address
\* is pinned once per type.
Pinned(entries) ==
    \A x, y \in entries : x.address = y.address /\ x.type = y.type => x = y

\* A manifest is its four fields.
ASSUME RecoveryAssumption ==
    /\ MaxBlock \in Nat /\ MaxProposals \in Nat
    /\ \A x, y \in Manifests :
          /\ x.address = y.address /\ x.type = y.type
          /\ x.codeHash = y.codeHash /\ x.version = y.version
          => x = y
    /\ Threshold \in 1 .. Cardinality(Guardians)
    /\ TimelockBlocks \in Nat \ {0}
    /\ PinnedModules \subseteq Manifests /\ Pinned(PinnedModules)

VARIABLES
    block, signer,
    pending,       \* the proposal, or None
    proposing,     \* slot -> proposal being hashed
    approvals,     \* history: the approvals given, as <<guardian, proposal number>>
    proposals,     \* history: number of proposals made
    modules        \* address -> manifest installed

recoveryVars == <<block, signer, pending, proposing, approvals, proposals, modules>>

Proposal == [newSigner : Signers, proposedAtBlock : Nat, approvals : SUBSET Guardians,
             number : Nat]

RecoveryInit ==
    /\ block = 0 /\ signer \in Signers
    /\ pending = None /\ proposing = EmptyMap
    /\ approvals = {} /\ proposals = 0
    /\ modules = EmptyMap

Mine ==
    /\ block < MaxBlock
    /\ block' = block + 1
    /\ UNCHANGED <<signer, pending, proposing, approvals, proposals, modules>>

Propose(k, s) ==
    /\ k \notin DOMAIN proposing /\ proposals < MaxProposals
    /\ proposals' = proposals + 1
    /\ proposing' = Put(proposing, k, [newSigner |-> s, proposedAtBlock |-> block,
                                       approvals |-> {}, number |-> proposals + 1])
    /\ UNCHANGED <<block, signer, pending, approvals, modules>>

\* Mutant of Proposed: the approvals of the proposal it replaces are kept.
ProposedKeeping(k) ==
    /\ k \in DOMAIN proposing
    /\ pending' = [proposing[k] EXCEPT !.approvals =
                      IF pending = None THEN {} ELSE pending.approvals]
    /\ proposing' = Drop(proposing, k)
    /\ UNCHANGED <<block, signer, approvals, proposals, modules>>

\* The digest is there: the proposal replaces whatever is pending by now.
Proposed(k) ==
    /\ k \in DOMAIN proposing
    /\ pending' = proposing[k]
    /\ proposing' = Drop(proposing, k)
    /\ UNCHANGED <<block, signer, approvals, proposals, modules>>

Approve(g) ==
    /\ pending # None
    /\ pending' = [pending EXCEPT !.approvals = @ \cup {g}]
    /\ approvals' = approvals \cup {<<g, pending.number>>}
    /\ UNCHANGED <<block, signer, proposing, proposals, modules>>

Executable(p) ==
    /\ Cardinality(p.approvals) >= Threshold
    /\ block >= p.proposedAtBlock + TimelockBlocks

Execute ==
    /\ pending # None /\ Executable(pending)
    /\ signer' = pending.newSigner
    /\ pending' = None
    /\ UNCHANGED <<block, proposing, approvals, proposals, modules>>

Recovery ==
    \/ Mine \/ Execute
    \/ \E k \in Slots : Proposed(k) \/ \E s \in Signers : Propose(k, s)
    \/ \E g \in Guardians : Approve(g)
-----------------------------------------------------------------------------
(* Modules.  The `denied` set of the lifecycle is never added to.          *)

\* The policy entry of the address and type, with its code hash and version.
Allowed(x) ==
    \E y \in PinnedModules :
        /\ x.address = y.address /\ x.type = y.type
        /\ x.codeHash = y.codeHash /\ x.version = y.version

\* A module is known by its address: another type replaces it.
Install(x) ==
    /\ Allowed(x)
    /\ modules' = Put(modules, x.address, x)
    /\ UNCHANGED <<block, signer, pending, proposing, approvals, proposals>>

\* uninstall and recoverUninstall; use changes nothing.
Uninstall(a) ==
    /\ a \in DOMAIN modules
    /\ modules' = Drop(modules, a)
    /\ UNCHANGED <<block, signer, pending, proposing, approvals, proposals>>

Modules ==
    \/ \E x \in Manifests : Install(x)
    \/ \E x \in Manifests : Uninstall(x.address)

RecoveryNext == Recovery \/ Modules

RecoverySpec == RecoveryInit /\ [][RecoveryNext]_recoveryVars

RecoveryTypeOK ==
    /\ block \in 0 .. MaxBlock /\ signer \in Signers
    /\ pending \in Proposal \cup {None}
    /\ IsMap(proposing, Slots, Proposal)
    /\ approvals \subseteq Guardians \X (1 .. MaxProposals)
    /\ proposals \in 0 .. MaxProposals
    /\ IsMap(modules, {x.address : x \in Manifests}, PinnedModules)
-----------------------------------------------------------------------------
\* "It rotates control only after threshold + timelock": the signer changes to
\* the one of the pending proposal, once enough guardians have approved that
\* very proposal, and not one it replaced, and its blocks have passed.
RotationIsEarned ==
    [][signer' # signer =>
          /\ pending # None /\ signer' = pending.newSigner
          /\ Cardinality({g \in Guardians : <<g, pending.number>> \in approvals})
                >= Threshold
          /\ block >= pending.proposedAtBlock + TimelockBlocks]_recoveryVars
=============================================================================
