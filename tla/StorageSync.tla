---------------------------- MODULE StorageSync ----------------------------
(***************************************************************************)
(* pkg/signal/storage.go, internal/storage/pull.go, the sync and data      *)
(* messages of dispatch.go, and backup_import_load.go: the pull of the     *)
(* contact and group lists from the storage service into a running client. *)
(*                                                                         *)
(* The primary device writes the manifest.  It names the records by ids;   *)
(* a record that changes gets a new id and the old one is deleted, so an   *)
(* item stands for its id and its content.  Everything is encrypted under  *)
(* the account entropy pool (AEP), of which pool is the generation.        *)
(***************************************************************************)
EXTENDS ProfileCache

CONSTANTS Groups,        \* groups the account may list
          MaxVersion,    \* bound: manifests written
          MaxPool,       \* bound: generations of the AEP
          MaxFaults,     \* bound: failed requests and stores
          MaxRestarts    \* bound: restarts of the client

ASSUME StorageAssumption ==
    {MaxVersion, MaxPool, MaxFaults, MaxRestarts} \subseteq Nat

VARIABLES
    remote,          \* the service: version, items and AEP of the manifest
    inbound,         \* messages being handled, each in its goroutine
    savedPool,       \* AccountEntropyPool in the account store, 0 for none
    imported,        \* items in the BackupImportStore
    phase,           \* of the client: closed, connected, open
    pool,            \* Client.acct.AccountEntropyPool
    storageManifestVersion,
    storedList,      \* Client.storedContacts and storedGroups
    local, keys,     \* SyncStorage: localVersion, the AEP its keys are from
    manifest,        \* the manifest in hand
    records,         \* the records read
    uncached,        \* contacts whose profile key is still to be cached
    began,           \* history: version of the service when it began
    faults, restarts

diskVars == <<savedPool, imported>>
listVars == <<storageManifestVersion, storedList>>
syncVars == <<local, keys, manifest, records, uncached, began>>
callVars == <<pc, peer, key, syncVars>>
storageVars == <<remote, inbound, diskVars, phase, pool, listVars, profileVars,
                 callVars, faults, restarts>>

Pools == 0..MaxPool
ContactItems == [type : {"contact"}, id : Contacts, key : ProfileKeys \cup {NoKey},
                 pool : Pools]
GroupItems == [type : {"group"}, id : Groups, pool : Pools]
Items == ContactItems \cup GroupItems \cup [type : {"other"}, pool : Pools]
Manifests == [version : 0..MaxVersion, items : SUBSET Items, pool : Pools]

\* Identifiers of other types are not read.
Relevant(items) == {i \in items : i.type \in {"contact", "group"}}

\* What a list tells the application.
Entries(items) == {[type |-> i.type, id |-> i.id] : i \in Relevant(items)}

SyncMessages == [type : {"sync"}, fetchLatest : BOOLEAN, pool : Pools]
DataMessages == [type : {"data"}, from : Contacts, reaction : BOOLEAN,
                 key : ProfileKeys \cup {NoKey}]

Idler == [c \in Calls |-> "idle"]

NoManifest == [version |-> 0, items |-> {}, pool |-> 0]

CallInit ==
    /\ pc = Idler
    /\ peer = [c \in Calls |-> CHOOSE a \in Contacts : TRUE]
    /\ key = [c \in Calls |-> NoKey]
    /\ local = [c \in Calls |-> 0]
    /\ keys = [c \in Calls |-> 0]
    /\ manifest = [c \in Calls |-> NoManifest]
    /\ records = [c \in Calls |-> {}]
    /\ uncached = [c \in Calls |-> {}]
    /\ began = [c \in Calls |-> 0]

\* A client that is not open, with what Link left on disk.
StorageInit ==
    /\ remote = [version |-> 0, items |-> {}, pool |-> 1]
    /\ inbound = {}
    /\ phase = "closed"
    /\ pool = 0
    /\ storageManifestVersion = 0
    /\ storedList = {}
    /\ ProfileInit
    /\ CallInit
    /\ faults = 0
    /\ restarts = 0

\* The types of the variables.
StorageTypeOK ==
    /\ ProfileTypeOK
    /\ remote \in Manifests
    /\ inbound \subseteq SyncMessages \cup DataMessages
    /\ savedPool \in Pools
    /\ pool \in Pools
    /\ phase \in {"closed", "connected", "open"}
    /\ imported \subseteq Relevant(Items)
    /\ storageManifestVersion \in 0..remote.version
    /\ \A e \in storedList : e.id \in Contacts \cup Groups
    /\ pc \in [Calls -> {"idle", "profile", "allow", "ensure", "manifest", "read",
                         "cache", "failed"}]
    /\ local \in [Calls -> 0..MaxVersion]
    /\ keys \in [Calls -> Pools]
    /\ manifest \in [Calls -> Manifests]
    /\ records \in [Calls -> SUBSET Items]
    /\ uncached \in [Calls -> SUBSET ContactItems]
    /\ began \in [Calls -> 0..MaxVersion]
    /\ faults \in 0..MaxFaults
    /\ restarts \in 0..MaxRestarts

\* The call returns, and its local variables are gone.
Return(c) ==
    /\ Goto(c, "idle") /\ Forget(c)
    /\ local' = [local EXCEPT ![c] = 0]
    /\ keys' = [keys EXCEPT ![c] = 0]
    /\ manifest' = [manifest EXCEPT ![c] = NoManifest]
    /\ records' = [records EXCEPT ![c] = {}]
    /\ uncached' = [uncached EXCEPT ![c] = {}]
    /\ began' = [began EXCEPT ![c] = 0]
    /\ UNCHANGED peer

-----------------------------------------------------------------------------
(* The primary device and the contacts (external). *)

\* Bound: the record of a contact has its newest profile key.
ItemSets(p) ==
    {cs \cup gs \cup {[type |-> "other", pool |-> p]} :
        cs \in {{}} \cup {{[type |-> "contact", id |-> a, key |-> k, pool |-> p]} :
                             a \in Contacts, k \in {MaxKey}},
        gs \in {{}} \cup {{[type |-> "group", id |-> g, pool |-> p]} : g \in Groups}}

\* The primary writes a new manifest, under a new AEP or not, and tells its
\* linked devices.  Bound: one manifest, under the first AEP, for an account
\* that has no pool.
WriteManifest ==
    /\ remote.version < IF savedPool = 0 THEN 1 ELSE MaxVersion
    /\ \E p \in {remote.pool, remote.pool + 1} \cap Pools : \E items \in ItemSets(p) :
         /\ savedPool = 0 => p = remote.pool
         /\ remote' = [version |-> remote.version + 1, items |-> items, pool |-> p]
         /\ inbound' = inbound \cup
                {[type |-> "sync", fetchLatest |-> TRUE, pool |-> 0]} \cup
                IF p = remote.pool THEN {}
                ELSE {[type |-> "sync", fetchLatest |-> FALSE, pool |-> p]}
    /\ UNCHANGED <<diskVars, phase, pool, listVars, profileVars, callVars,
                   faults, restarts>>

\* A contact sends a message or a reaction with its profile key.  Bound: one at
\* a time, and to an account that has no pool to sync with.
ContactSends ==
    /\ \E m \in DataMessages : m \notin inbound /\ inbound' = {m} \cup inbound
    /\ phase # "closed"
    /\ pool = 0
    /\ \A m \in inbound : m.type # "data"
    /\ UNCHANGED <<remote, diskVars, phase, pool, listVars, profileVars, callVars,
                   faults, restarts>>

-----------------------------------------------------------------------------
(* SyncStorage. *)

\* SyncStorage until its first request, called by the application or by the
\* goroutine of maybeAutoSyncStorage.
SyncStorage(c) ==
    /\ Idle(c)
    /\ IF pool = 0
       THEN UNCHANGED <<pc, local, keys, began>>     \* ErrStorageNotConfigured
       ELSE /\ local' = [local EXCEPT ![c] = storageManifestVersion]
            /\ keys' = [keys EXCEPT ![c] = pool]
            /\ began' = [began EXCEPT ![c] = remote.version]
            /\ Goto(c, "manifest")
    /\ UNCHANGED <<manifest, records, uncached, peer, key>>

\* The application calls SyncStorage.
AppSync(c) ==
    /\ phase = "open"
    /\ pool # 0
    /\ SyncStorage(c)
    /\ UNCHANGED <<remote, inbound, diskVars, phase, pool, listVars, profileVars,
                   faults, restarts>>

\* Mutant of ManifestUnchanged: a manifest one version ahead is not fetched.
ManifestNearlyCurrent(c) == remote.version <= local[c] + 1

\* 204, or 404: there is no manifest newer than localVersion.
ManifestUnchanged(c) == remote.version <= local[c]

\* Mutant of NoteManifest: the version is noted before the records are read.
NoteManifestVersion(c) ==
    storageManifestVersion' = IF remote.pool = keys[c] THEN remote.version
                              ELSE storageManifestVersion

\* Mutant of NoteManifest: a manifest that cannot be decrypted makes the next
\* sync start from nothing.
NoteManifestReset(c) ==
    storageManifestVersion' = IF remote.pool = keys[c] THEN storageManifestVersion
                              ELSE 0

\* The manifest in hand changes nothing in the client yet.
NoteManifest(c) == UNCHANGED storageManifestVersion

\* FetchManifest, after its auth request, finds nothing new,
FetchUnchanged(c) ==
    /\ pc[c] = "manifest"
    /\ ManifestUnchanged(c)
    /\ Return(c)
    /\ UNCHANGED <<remote, inbound, diskVars, phase, pool, listVars, profileVars,
                   faults, restarts>>

\* ... or a manifest, which Pull decrypts to collect the ids to read.
FetchManifest(c) ==
    /\ pc[c] = "manifest"
    /\ ~ManifestUnchanged(c)
    /\ NoteManifest(c)
    /\ manifest' = [manifest EXCEPT ![c] = remote]
    /\ Goto(c, IF remote.pool # keys[c] THEN "failed"
               ELSE IF Relevant(remote.items) = {} THEN "cache" ELSE "read")
    /\ UNCHANGED <<remote, inbound, diskVars, phase, pool, storedList, profileVars,
                   peer, key, local, keys, records, uncached, began, faults, restarts>>

\* ReadRecords: the service answers with those of the ids it still has.
ReadRecords(c) ==
    /\ pc[c] = "read"
    /\ records' = [records EXCEPT ![c] =
                      Relevant(manifest[c].items) \cap remote.items]
    /\ uncached' = [uncached EXCEPT ![c] =
                      {i \in records'[c] : i.type = "contact" /\ i.key # NoKey}]
    /\ Goto(c, "cache")
    /\ UNCHANGED <<remote, inbound, diskVars, phase, pool, listVars, profileVars,
                   peer, key, local, keys, manifest, began, faults, restarts>>

\* The profile key of each contact is cached, one after the other.
CacheProfileKey(c) ==
    /\ pc[c] = "cache"
    /\ \E i \in uncached[c] :
         /\ storeRecipientProfileKey(i.id, i.key)
         /\ uncached' = [uncached EXCEPT ![c] = @ \ {i}]
    /\ UNCHANGED <<remote, inbound, diskVars, phase, pool, listVars,
                   allowSealedSender, pc, peer, key, local, keys, manifest, records,
                   began, faults, restarts>>

\* Version and lists are replaced in one section of storageMu.
CommitSync(c) ==
    /\ pc[c] = "cache" /\ uncached[c] = {}
    /\ storageManifestVersion' = manifest[c].version
    /\ storedList' = Entries(records[c])
    /\ Return(c)
    /\ UNCHANGED <<remote, inbound, diskVars, phase, pool, profileVars, faults,
                   restarts>>

\* A request fails.
RequestFails(c) ==
    /\ pc[c] \in {"profile", "manifest", "read"}
    /\ faults < MaxFaults
    /\ faults' = faults + 1
    /\ Goto(c, "failed")
    /\ UNCHANGED <<remote, inbound, diskVars, phase, pool, listVars, profileVars,
                   peer, key, syncVars, restarts>>

\* The caller sees the error; the goroutine is free again.
ReturnError(c) ==
    /\ pc[c] = "failed"
    /\ Return(c)
    /\ UNCHANGED <<remote, inbound, diskVars, phase, pool, listVars, profileVars,
                   faults, restarts>>

SyncStep(c) ==
    \/ FetchUnchanged(c) \/ FetchManifest(c) \/ ReadRecords(c) \/ CacheProfileKey(c) \/ CommitSync(c)
    \/ ReturnError(c)

-----------------------------------------------------------------------------
(* Dispatch of inbound messages. *)

\* updateAccountEntropyPool; the save is best effort.
updateAccountEntropyPool(p) ==
    IF p \in {0, pool} THEN UNCHANGED <<pool, savedPool, faults>>
    ELSE /\ pool' = p
         /\ \/ savedPool' = p /\ UNCHANGED faults
            \/ /\ faults < MaxFaults
               /\ faults' = faults + 1
               /\ UNCHANGED savedPool

\* handleSyncMessage with AutoSyncStorage: the sync is started before the
\* keys of the same message are taken over.
handleSyncMessage(m) ==
    /\ phase # "closed"
    /\ m.type = "sync"
    /\ inbound' = inbound \ {m}
    /\ IF m.fetchLatest THEN \E c \in Calls : SyncStorage(c)
       ELSE UNCHANGED callVars
    /\ updateAccountEntropyPool(m.pool)
    /\ UNCHANGED <<remote, imported, phase, listVars, profileVars, restarts>>

\* handleDataMessage: a reaction returns before the profile key is taken.
handleDataMessage(m) ==
    /\ phase # "closed"
    /\ m.type = "data"
    /\ inbound' = inbound \ {m}
    /\ IF m.reaction \/ m.key = NoKey THEN UNCHANGED <<knownProfileKeys, knownUAKs>>
       ELSE storeRecipientProfileKey(m.from, m.key)
    /\ UNCHANGED <<remote, diskVars, phase, pool, listVars, allowSealedSender,
                   callVars, faults, restarts>>

dispatchContent == \E m \in inbound : handleSyncMessage(m) \/ handleDataMessage(m)

-----------------------------------------------------------------------------
(* Open and the end of the process. *)

\* Open up to chat.Connect: from here on messages are dispatched.
OpenConnect ==
    /\ phase = "closed"
    /\ phase' = "connected"
    /\ pool' = savedPool
    /\ UNCHANGED <<remote, inbound, diskVars, listVars, profileVars, callVars,
                   faults, restarts>>

\* loadImportedBackupData, the last thing Open does.
loadImportedBackupData ==
    /\ phase = "connected"
    /\ phase' = "open"
    /\ IF imported = {} THEN UNCHANGED <<storedList, knownProfileKeys, knownUAKs>>
       ELSE LET Key(a) == {i.key : i \in {j \in imported :
                              j.type = "contact" /\ j.id = a /\ j.key # NoKey}}
                New(f) == [a \in Contacts |->
                              IF Key(a) = {} THEN f[a] ELSE CHOOSE k \in Key(a) : TRUE]
            IN /\ storedList' = Entries(imported)
               /\ knownProfileKeys' = New(knownProfileKeys)
               /\ knownUAKs' = New(knownUAKs)
    /\ UNCHANGED <<remote, inbound, diskVars, pool, storageManifestVersion,
                   allowSealedSender, callVars, faults, restarts>>

\* The process ends; its caches are not persisted.
Restart ==
    /\ phase # "closed"
    /\ restarts < MaxRestarts
    /\ restarts' = restarts + 1
    /\ phase' = "closed"
    /\ pool' = 0
    /\ storageManifestVersion' = 0
    /\ storedList' = {}
    /\ knownProfileKeys' = [a \in Contacts |-> NoKey]
    /\ knownUAKs' = [a \in Contacts |-> NoKey]
    /\ allowSealedSender' = [a \in Contacts |-> FALSE]
    /\ pc' = Idler
    /\ key' = [c \in Calls |-> NoKey]
    /\ local' = [c \in Calls |-> 0]
    /\ keys' = [c \in Calls |-> 0]
    /\ manifest' = [c \in Calls |-> NoManifest]
    /\ records' = [c \in Calls |-> {}]
    /\ uncached' = [c \in Calls |-> {}]
    /\ began' = [c \in Calls |-> 0]
    /\ UNCHANGED <<remote, inbound, diskVars, peer, faults>>

\* Bound: the calls for one contact are made on an account that has no pool to
\* sync with, as a sync writes the caches the way an inbound message does, and
\* before a restart, which clears them.
ProfileCalls ==
    /\ phase = "open" /\ pool = 0 /\ restarts = 0
    /\ ProfileSet \/ \E c \in Calls : ProfileBegins(c) \/ ProfileStep(c)
    /\ UNCHANGED <<remote, inbound, diskVars, phase, pool, listVars, syncVars,
                   faults, restarts>>

StorageNext ==
    \/ WriteManifest \/ ContactSends
    \/ \E c \in Calls : AppSync(c) \/ SyncStep(c) \/ RequestFails(c)
    \/ ProfileCalls
    \/ dispatchContent
    \/ OpenConnect \/ loadImportedBackupData \/ Restart

-----------------------------------------------------------------------------
\* A client whose version is the service's has the service's lists: "Unchanged"
\* never hides a contact.  Records deleted between the manifest and the read
\* are missing from a list, but never at the current version.  Excepted are
\* the lists of an imported backup, which Open may put in their place.
SyncedIfCurrent ==
    /\ storageManifestVersion = remote.version
    /\ remote.version > 0
    /\ imported = {} \/ storedList # Entries(imported)
    => storedList = Entries(remote.items)

\* StoredContacts "returns the contact list from the last successful
\* SyncStorage call": after one, the lists are not those of the backup.
StoredIsLastSync ==
    storageManifestVersion = remote.version /\ remote.version > 0
        => storedList = Entries(remote.items)

\* The version of the lists goes back only when the process restarts or when a
\* sync finishes that began before the present version was stored.
VersionGoesBackOnlyWhenOvertaken ==
    [][storageManifestVersion' < storageManifestVersion =>
         \/ phase' = "closed"
         \/ \E c \in Calls : /\ pc[c] = "cache"
                             /\ local[c] # storageManifestVersion]_storageVars

Syncing(c) == pc[c] \in {"manifest", "read", "cache"}

\* A sync that goes through, with no other one under way, brings the lists to
\* the version the service had when it began.
SyncCatchesUp ==
    \A v \in 1..MaxVersion :
        (\E c \in Calls : /\ pc[c] = "manifest" /\ began[c] = v
                          /\ local[c] = storageManifestVersion
                          /\ \A d \in Calls \ {c} : ~Syncing(d))
            ~> \/ storageManifestVersion >= v
               \/ phase = "closed"
               \/ \E c \in Calls : pc[c] = "failed"

\* SyncStorage "pulls the latest storage-service manifest": the same of syncs
\* that overlap.
SyncConverges ==
    \A v \in 1..MaxVersion :
        (\E c \in Calls : pc[c] = "manifest" /\ began[c] = v)
            ~> \/ storageManifestVersion >= v
               \/ phase = "closed"
               \/ \E c \in Calls : pc[c] = "failed"
=============================================================================
