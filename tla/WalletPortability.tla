-------------------------- MODULE WalletPortability --------------------------
(***************************************************************************)
(* packages/wallet-portability/src/index.ts: a wallet is exported as a     *)
(* signed and encrypted bundle, opened and imported elsewhere, and its     *)
(* control is rotated from one vendor to the next.                         *)
(*                                                                         *)
(* ImportPort and RotationPort are external.  A call of theirs may fail    *)
(* before it takes effect or after: the answer is lost.  Signatures and    *)
(* encryption are ideal; a bundle is kept outside the wallet, where its    *)
(* header may be changed.                                                  *)
(***************************************************************************)
EXTENDS CallSlots

CONSTANTS
    Wallets,                       \* [address, chainId] of accounts
    Vendors,                       \* control paths of an account
    MaxPortTime, MaxRotations      \* bounds: clock, rotations begun

ASSUME PortabilityAssumption == MaxPortTime \in Nat /\ MaxRotations \in Nat

VARIABLES
    portClock,
    bundles,        \* bundles exported
    target,         \* the state the importing wallet has, or None
    import,         \* the import under way, or None
    imported,       \* history: the import that succeeded last, or None
    controls,       \* the vendors that control the account
    rotation,       \* the rotation under way or ended last, or None
    vendorRotations,      \* number of rotations begun
    removalLost     \* history: an answer of removeOldControl was lost

portVars == <<portClock, bundles, target, import, imported,
              controls, rotation, vendorRotations, removalLost>>
-----------------------------------------------------------------------------
(* States and bundles.                                                     *)

\* PortableWalletState, as far as it is checked: the account, whether some key
\* of it names secret material, and whether every part has its shape.
PortableWalletState == [wallet : Wallets, secrets : BOOLEAN, shaped : BOOLEAN]

\* assertNoSecretMaterial: no field, at any depth, is named like a secret.
NoSecretMaterial(state) == ~state.secrets

\* assertString, assertAddress, assertHex, assertDate, assertId of every field.
Shaped(state) == state.shaped

\* validateState: known fields only; address, chain, signers, modules, assets
\* and history each well-formed.
ValidState(state) == Shaped(state) /\ NoSecretMaterial(state)

BundleHeader == [wallet : Wallets, expiresAt : 0 .. MaxPortTime + 1, version : {1, 2}]

\* The header is the associated data of the envelope, and signed with it.
MigrationBundle ==
    [header : BundleHeader, aad : BundleHeader, state : PortableWalletState,
     signed : BundleHeader]

PortabilityError ==
    {"BUNDLE_EXPIRED", "SIGNATURE_INVALID", "DECRYPTION_FAILED", "ROTATION_FAILED",
     "IMPORT_FAILED", "ROLLBACK_FAILED"}

\* parseBundle: a header of the one supported version, with its fields.
ParseBundle(b) == b.header.version = 1

PortabilityInit ==
    /\ portClock = 0 /\ bundles = {} /\ imported = None
    /\ target = None /\ import = None
    /\ \E v \in Vendors : controls = {v}
    /\ rotation = None /\ vendorRotations = 0 /\ removalLost = FALSE

PortTick ==
    /\ portClock < MaxPortTime
    /\ portClock' = portClock + 1
    /\ UNCHANGED <<bundles, target, import, imported, controls, rotation, vendorRotations, removalLost>>

\* exportMigrationBundle, authorised: the state is validated, the expiry lies
\* ahead, and header and envelope are bound to each other and signed.
ExportMigrationBundle(state, expiresAt) ==
    LET header == [wallet |-> state.wallet, expiresAt |-> expiresAt, version |-> 1] IN
    /\ ValidState(state) /\ expiresAt > portClock
    /\ bundles' = bundles \cup
          {[header |-> header, aad |-> header, signed |-> header, state |-> state]}
    /\ UNCHANGED <<portClock, target, import, imported, controls, rotation, vendorRotations, removalLost>>
-----------------------------------------------------------------------------
(* Import.                                                                 *)

\* openMigrationBundle: not expired when it starts, signed as it is, decrypted
\* under this header, and about the account of the header.
OpensMigrationBundle(b) ==
    /\ ParseBundle(b)
    /\ b.header.expiresAt > portClock
    /\ b.signed = b.header
    /\ b.aad = b.header
    /\ ValidState(b.state) /\ b.state.wallet = b.header.wallet

\* importMigrationBundle begins, with a bundle whose header may have changed.
\* `before` is what a rollback of the target goes back to.
OpenMigrationBundle(b, header) ==
    /\ import = None
    /\ OpensMigrationBundle([b EXCEPT !.header = header])
    /\ import' = [bundle |-> b, openedAt |-> portClock, before |-> target,
                  pc |-> "prepare", handle |-> FALSE]
    /\ UNCHANGED <<portClock, bundles, target, imported, controls, rotation, vendorRotations, removalLost>>

\* prepare answers with a handle, or throws and leaves none.
PrepareImport ==
    /\ import # None /\ import.pc = "prepare"
    /\ \/ import' = [import EXCEPT !.pc = "commit", !.handle = TRUE]
       \/ import' = [import EXCEPT !.pc = "failed"]
    /\ UNCHANGED <<portClock, bundles, target, imported, controls, rotation, vendorRotations, removalLost>>

\* commit takes effect or not, and answers or throws.
CommitImport ==
    /\ import # None /\ import.pc = "commit"
    /\ \/ /\ target' = import.bundle.state
          /\ \E pc \in {"verify", "failed"} : import' = [import EXCEPT !.pc = pc]
       \/ /\ import' = [import EXCEPT !.pc = "failed"]
          /\ UNCHANGED target
    /\ UNCHANGED <<portClock, bundles, imported, controls, rotation, vendorRotations, removalLost>>

\* verify says the state is there, or not, or throws.
VerifyImport ==
    /\ import # None /\ import.pc = "verify"
    /\ \/ import' = [import EXCEPT !.pc = "imported"]
       \/ import' = [import EXCEPT !.pc = "failed"]
    /\ UNCHANGED <<portClock, bundles, target, imported, controls, rotation, vendorRotations, removalLost>>

\* Mutant of RollbackImport: a failed import is left as it is.
RollbackNever ==
    /\ import # None /\ import.pc = "failed"
    /\ import' = [import EXCEPT !.pc = "IMPORT_FAILED"]
    /\ UNCHANGED <<portClock, bundles, target, imported, controls, rotation, vendorRotations, removalLost>>

\* Whatever failed, a handle is rolled back; a rollback that fails is told apart.
RollbackImport ==
    /\ import # None /\ import.pc = "failed"
    /\ \/ /\ import.handle
          /\ \/ /\ target' = import.before
                /\ \E pc \in {"IMPORT_FAILED", "ROLLBACK_FAILED"} : import' = [import EXCEPT !.pc = pc]
             \/ /\ import' = [import EXCEPT !.pc = "ROLLBACK_FAILED"]
                /\ UNCHANGED target
       \/ /\ ~import.handle
          /\ import' = [import EXCEPT !.pc = "IMPORT_FAILED"]
          /\ UNCHANGED target
    /\ UNCHANGED <<portClock, bundles, imported, controls, rotation, vendorRotations, removalLost>>

\* The import has answered; another may begin.
ImportReturns ==
    /\ import # None /\ import.pc \in {"imported"} \cup PortabilityError
    /\ imported' = IF import.pc = "imported" THEN import ELSE imported
    /\ import' = None
    /\ UNCHANGED <<portClock, bundles, target, controls, rotation, vendorRotations, removalLost>>

ImportNext ==
    \/ PrepareImport \/ CommitImport \/ VerifyImport \/ RollbackImport \/ ImportReturns
    \/ \E b \in bundles, header \in BundleHeader : OpenMigrationBundle(b, header)
    \/ \E state \in PortableWalletState, e \in 0 .. MaxPortTime + 1 :
          ExportMigrationBundle(state, e)
    \/ PortTick
-----------------------------------------------------------------------------
(* Rotation.                                                               *)

\* rotateVendor, authorised; inspect says that the account is portable and can
\* be recovered.
RotateVendor(old, next) ==
    /\ rotation # None => rotation.pc \in {"rotated"} \cup PortabilityError
    /\ vendorRotations < MaxRotations
    /\ old \in controls /\ next \in Vendors \ controls
    /\ vendorRotations' = vendorRotations + 1
    /\ rotation' = [old |-> old, next |-> next, pc |-> "install", installed |-> FALSE]
    /\ UNCHANGED <<portClock, bundles, target, import, imported, controls, removalLost>>

\* installNextControl; `installed` is set when it has answered.
InstallNextControl ==
    /\ rotation # None /\ rotation.pc = "install"
    /\ \/ /\ controls' = controls \cup {rotation.next}
          /\ rotation' = [rotation EXCEPT !.pc = "check", !.installed = TRUE]
       \/ /\ controls' \in {controls, controls \cup {rotation.next}}
          /\ rotation' = [rotation EXCEPT !.pc = "failed"]
    /\ UNCHANGED <<portClock, bundles, target, import, imported, vendorRotations, removalLost>>

\* verifyNextControl, and a snapshot with the account, chain and DID of before.
VerifyNextControl ==
    /\ rotation # None /\ rotation.pc = "check"
    /\ \/ rotation.next \in controls /\ rotation' = [rotation EXCEPT !.pc = "remove"]
       \/ rotation' = [rotation EXCEPT !.pc = "failed"]
    /\ UNCHANGED <<portClock, bundles, target, import, imported, controls, vendorRotations, removalLost>>

\* removeOldControl takes effect or not, and answers only if it has.
RemoveOldControl ==
    /\ rotation # None /\ rotation.pc = "remove"
    /\ \/ /\ controls' = controls \ {rotation.old}
          /\ rotation' = [rotation EXCEPT !.pc = "rotated"]
          /\ UNCHANGED removalLost
       \/ /\ controls' \in {controls, controls \ {rotation.old}}
          /\ rotation' = [rotation EXCEPT !.pc = "failed"]
          /\ removalLost' = (removalLost \/ controls' # controls)
    /\ UNCHANGED <<portClock, bundles, target, import, imported, vendorRotations>>

\* Mutant of RollbackNextControl: the old control is removed, installed or not.
RollbackOldControl ==
    /\ rotation # None /\ rotation.pc = "failed"
    /\ controls' = controls \ {rotation.old}
    /\ rotation' = [rotation EXCEPT !.pc = "ROTATION_FAILED"]
    /\ UNCHANGED <<portClock, bundles, target, import, imported, vendorRotations, removalLost>>

\* Whatever failed, the next control is rolled back once its installation had
\* answered; a rollback that fails is told apart.
RollbackNextControl ==
    /\ rotation # None /\ rotation.pc = "failed"
    /\ \/ /\ rotation.installed
          /\ \/ /\ controls' = controls \ {rotation.next}
                /\ rotation' = [rotation EXCEPT !.pc = "ROTATION_FAILED"]
             \/ /\ controls' \in {controls, controls \ {rotation.next}}
                /\ rotation' = [rotation EXCEPT !.pc = "ROLLBACK_FAILED"]
       \/ /\ ~rotation.installed
          /\ rotation' = [rotation EXCEPT !.pc = "ROTATION_FAILED"]
          /\ UNCHANGED controls
    /\ UNCHANGED <<portClock, bundles, target, import, imported, vendorRotations, removalLost>>

VendorRotationNext ==
    \/ InstallNextControl \/ VerifyNextControl \/ RemoveOldControl \/ RollbackNextControl
    \/ \E old, next \in Vendors : RotateVendor(old, next)

PortabilityNext == ImportNext \/ VendorRotationNext

PortabilitySpec == PortabilityInit /\ [][PortabilityNext]_portVars

PortabilityTypeOK ==
    /\ portClock \in 0 .. MaxPortTime
    /\ bundles \subseteq MigrationBundle
    /\ target \in PortableWalletState \cup {None}
    /\ controls \subseteq Vendors /\ vendorRotations \in 0 .. MaxRotations
-----------------------------------------------------------------------------
\* An import is all or nothing: "migration import failed; target was rolled back"
\* is said only of a target that is as it was, and success only of a target that
\* holds a state somebody exported for it in a bundle that had not expired; an
\* answer of prepare, commit or verify that is lost changes nothing of this.
ImportIsAllOrNothing ==
    /\ import # None =>
          /\ import.pc = "IMPORT_FAILED" => target = import.before
          /\ import.pc = "imported" => target = import.bundle.state
    /\ imported # None =>
          /\ imported.bundle \in bundles /\ ValidState(imported.bundle.state)
          /\ imported.bundle.header.expiresAt > imported.openedAt

\* Some vendor controls the account at every moment of every rotation, however
\* its port calls fail, unless an answer of removeOldControl is lost: then the
\* rollback takes the next control too.
ControlSurvivesRotation == ~removalLost => controls # {}

\* "vendor rotation failed; old control remains authoritative".
OldControlRemains ==
    rotation # None /\ rotation.pc = "ROTATION_FAILED" => rotation.old \in controls
=============================================================================
