--------------------------- MODULE CredentialVault ---------------------------
(***************************************************************************)
(* packages/credential-vault/src/index.ts: encrypted credentials with      *)
(* metadata in the clear, in memory or in IndexedDB, re-encrypted in place *)
(* by migrate, exported to and restored from backups.                      *)
(*                                                                         *)
(* The cryptography is ideal: what an envelope holds is seen by whoever    *)
(* has the factor it was made with, and its associated data cannot be      *)
(* changed.  A call reads the store when it starts (IndexedDB: in a first  *)
(* transaction), works on keys for some awaits, and writes in one step.    *)
(***************************************************************************)
EXTENDS CallSlots

CONSTANTS
    VaultIds, VaultIssuers,
    VaultFactors,                  \* [kind, value, strong], see Factor
    MaxVaultPuts, MaxBackups,      \* bounds: puts and backups made
    MaxBackupSequence              \* bound: numbers of backups

ASSUME VaultAssumption == MaxVaultPuts \in Nat /\ MaxBackupSequence \in Nat

VARIABLES
    vaultKind,      \* "memory" or "indexeddb"
    vaultEntries,   \* id -> VaultEntry
    vaultCalls,     \* slot -> call that has not written yet
    backups,        \* backups exported, wherever they are kept
    vaultPuts       \* history: <<metadata, credential>> of every put

vaultVars == <<vaultKind, vaultEntries, vaultCalls, backups, vaultPuts>>
-----------------------------------------------------------------------------
(* Envelopes.                                                              *)

Strategies == {"prf", "passphrase"}

\* A WebAuthn PRF output or a passphrase; strong when long enough, and for a
\* passphrase when its iterations are within bounds.
Factor == [kind : Strategies, value : {1, 2}, strong : BOOLEAN]

\* deriveWrappingKey: no strategy takes the factor of the other.
Derivable(strategy, f) == f.kind = strategy /\ f.strong

Envelope(aad, content) ==
    [strategy : Strategies, factor : VaultFactors, aad : aad, content : content]

\* createVaultEnvelope: a strategy without its factor is refused.
CreateVaultEnvelope(strategy, f, aad, content) ==
    [strategy |-> strategy, factor |-> f, aad |-> aad, content |-> content]

\* The factor decrypts the data key, and with it and the associated data the content.
OpensVaultEnvelope(env, f) == Derivable(env.strategy, f) /\ f = env.factor
-----------------------------------------------------------------------------
(* Entries.                                                                *)

VaultIndexMetadata == [id : VaultIds, issuer : VaultIssuers]

Credential == 1 .. MaxVaultPuts

VaultEntry ==
    [id : VaultIds, issuer : VaultIssuers, envelope : Envelope(VaultIndexMetadata, Credential)]

EntryMetadata(e) == [id |-> e.id, issuer |-> e.issuer]

MetadataMatches(e) == e.envelope.aad = EntryMetadata(e)

\* get: what the factor reads of an entry; corrupt ones are not returned.
Readable(e, f) == MetadataMatches(e) /\ OpensVaultEnvelope(e.envelope, f)

Stored(meta, env) == [id |-> meta.id, issuer |-> meta.issuer, envelope |-> env]

VaultInit ==
    /\ vaultKind \in {"memory", "indexeddb"}
    /\ vaultEntries = EmptyMap /\ vaultCalls = EmptyMap
    /\ backups = {} /\ vaultPuts = {}

BeginVaultCall(s, call) ==
    /\ s \notin DOMAIN vaultCalls
    /\ vaultCalls' = Put(vaultCalls, s, call)

\* put, to the write: the envelope is bound to the metadata.
PutCredential(s, meta, strategy, f) ==
    LET n == Cardinality(vaultPuts) + 1 IN
    /\ n <= MaxVaultPuts /\ Derivable(strategy, f)
    /\ BeginVaultCall(s, [op |-> "put",
                 entry |-> Stored(meta, CreateVaultEnvelope(strategy, f, meta, n))])
    /\ vaultPuts' = vaultPuts \cup {<<meta, n>>}
    /\ UNCHANGED <<vaultKind, vaultEntries, backups>>

\* migrate, to the write: what was read, under the next factor.
MigrateCredential(s, id, f, strategy, next) ==
    /\ id \in DOMAIN vaultEntries
    /\ Readable(vaultEntries[id], f) /\ Derivable(strategy, next)
    /\ LET e == vaultEntries[id] IN
       BeginVaultCall(s, [op |-> "migrate",
                 entry |-> Stored(EntryMetadata(e),
                              CreateVaultEnvelope(strategy, next, EntryMetadata(e),
                                                  e.envelope.content))])
    /\ UNCHANGED <<vaultKind, vaultEntries, backups, vaultPuts>>

DeleteCredential(id) ==
    /\ vaultEntries' = Drop(vaultEntries, id)
    /\ UNCHANGED <<vaultKind, vaultCalls, backups, vaultPuts>>

\* Mutant of Written: the new envelope goes into the entry of now.
WrittenInPlace(call) ==
    IF call.op = "migrate" /\ call.entry.id \in DOMAIN vaultEntries
    THEN [vaultEntries EXCEPT ![call.entry.id].envelope = call.entry.envelope]
    ELSE Put(vaultEntries, call.entry.id, call.entry)

\* The write of put and migrate: migrate writes the whole entry it read, whether
\* it was replaced or deleted meanwhile.
Written(call) == Put(vaultEntries, call.entry.id, call.entry)

VaultWrites(s) ==
    /\ s \in DOMAIN vaultCalls /\ vaultCalls[s].op \in {"put", "migrate"}
    /\ vaultEntries' = Written(vaultCalls[s])
    /\ vaultCalls' = Drop(vaultCalls, s)
    /\ UNCHANGED <<vaultKind, backups, vaultPuts>>
-----------------------------------------------------------------------------
(* Backups.                                                                *)

BackupSequences == 1 .. MaxBackupSequence

\* The sequence is in the clear, and in the associated data.
VaultBackupEnvelope ==
    [sequence : BackupSequences, aad : BackupSequences, factor : VaultFactors,
     strategy : Strategies, content : SUBSET VaultEntry]

\* isVaultEntry
IsVaultEntry(e) == e \in VaultEntry

\* createVaultBackup of the entries of now.  The caller numbers its backups as it likes.
ExportBackup(sequence, strategy, f) ==
    /\ Cardinality(backups) < MaxBackups /\ Derivable(strategy, f)
    /\ \A id \in DOMAIN vaultEntries : IsVaultEntry(vaultEntries[id])
    /\ backups' = backups \cup
          {[strategy |-> strategy, factor |-> f, aad |-> sequence, sequence |-> sequence,
            content |-> {vaultEntries[id] : id \in DOMAIN vaultEntries}]}
    /\ UNCHANGED <<vaultKind, vaultEntries, vaultCalls, vaultPuts>>

\* Mutant of OpensVaultBackup: the sequence in the clear is believed.
OpensVaultBackupUnbound(b, f, minimum) ==
    b.sequence >= minimum /\ OpensVaultEnvelope(b, f)

\* openVaultBackup: not below the minimum asked for, readable, and labelled
\* with the sequence it was made with.
OpensVaultBackup(b, f, minimum) ==
    /\ b.sequence >= minimum
    /\ OpensVaultEnvelope(b, f)
    /\ b.aad = b.sequence

\* restoreBackup, to the write, of a backup whose label may have been changed
\* where it is kept.  minimum 0: the option is left out.
OpenBackup(s, b, label, f, minimum) ==
    /\ OpensVaultBackup([b EXCEPT !.sequence = label], f, minimum)
    /\ BeginVaultCall(s, [op |-> "restore", content |-> b.content, minimum |-> minimum,
                 sequence |-> b.aad])
    /\ UNCHANGED <<vaultKind, vaultEntries, backups, vaultPuts>>

\* The store is replaced in one step, with whatever was put since.
RestoreWrites(s) ==
    /\ s \in DOMAIN vaultCalls /\ vaultCalls[s].op = "restore"
    /\ vaultEntries' = [id \in {e.id : e \in vaultCalls[s].content} |->
                           CHOOSE e \in vaultCalls[s].content : e.id = id]
    /\ vaultCalls' = Drop(vaultCalls, s)
    /\ UNCHANGED <<vaultKind, backups, vaultPuts>>

\* An IndexedDB transaction aborts: nothing of it is written.
TransactionAborts(s) ==
    /\ vaultKind = "indexeddb" /\ s \in DOMAIN vaultCalls
    /\ vaultCalls' = Drop(vaultCalls, s)
    /\ UNCHANGED <<vaultKind, vaultEntries, backups, vaultPuts>>

\* The page is loaded anew: calls are gone, and the entries in memory.
Reload ==
    /\ vaultCalls' = EmptyMap
    /\ vaultEntries' = IF vaultKind = "memory" THEN EmptyMap ELSE vaultEntries
    /\ UNCHANGED <<vaultKind, backups, vaultPuts>>

VaultNext ==
    \/ \E s \in Slots :
          \/ VaultWrites(s) \/ RestoreWrites(s) \/ TransactionAborts(s)
          \/ \E f \in VaultFactors, strategy \in Strategies :
                \/ \E meta \in VaultIndexMetadata : PutCredential(s, meta, strategy, f)
                \/ \E id \in VaultIds, next \in VaultFactors :
                      MigrateCredential(s, id, f, strategy, next)
          \/ \E b \in backups, label \in BackupSequences, f \in VaultFactors, minimum \in 0 .. MaxBackupSequence :
                OpenBackup(s, b, label, f, minimum)
    \/ \E id \in VaultIds : DeleteCredential(id)
    \/ \E sequence \in BackupSequences, strategy \in Strategies, f \in VaultFactors :
          ExportBackup(sequence, strategy, f)
    \/ Reload

VaultSpec == VaultInit /\ [][VaultNext]_vaultVars

VaultTypeOK ==
    /\ vaultKind \in {"memory", "indexeddb"}
    /\ IsMap(vaultEntries, VaultIds, VaultEntry)
    /\ DOMAIN vaultCalls \subseteq Slots
    /\ \A s \in DOMAIN vaultCalls : vaultCalls[s].op \in {"put", "migrate", "restore"}
    /\ vaultPuts \subseteq VaultIndexMetadata \X Credential
-----------------------------------------------------------------------------
\* Metadata and credential belong together: whatever puts, migrations, deletes
\* and restores overlap, the entry of an id is readable with the factor of its
\* envelope and shows a credential that was put with this very metadata.
EntriesAreAuthentic ==
    \A id \in DOMAIN vaultEntries : LET e == vaultEntries[id] IN
        /\ e.id = id
        /\ Readable(e, e.envelope.factor)
        /\ <<EntryMetadata(e), e.envelope.content>> \in vaultPuts

\* "old sequence is rejected": a restore that asks for a minimum never brings
\* back a backup that was made before it, whatever label the backup has by then.
RestoresAreFresh ==
    \A s \in DOMAIN vaultCalls :
        vaultCalls[s].op = "restore" => vaultCalls[s].sequence >= vaultCalls[s].minimum
=============================================================================
