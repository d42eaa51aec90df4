----------------------- MODULE DeviceLifecycleProofs -----------------------
(***************************************************************************)
(* Proofs about DeviceLifecycle for any number of Link attempts, frames,   *)
(* contacts and goroutines.  What a linked device has on disk and on the   *)
(* server is known only because every step before it went through, so the  *)
(* invariant tells, for each program counter of Link, what is done.        *)
(***************************************************************************)
EXTENDS DeviceLifecycle, TLAPS

Importing == {"import"}
Polling == {"poll", "download", "import", "linked"}
KyberNext == Polling \cup {"kyber"}
SignedNext == KyberNext \cup {"signed"}
ACIUploaded == SignedNext \cup {"persistPNI", "uploadPNI", "save"}
ACIStored == ACIUploaded \cup {"uploadACI"}
Registered == ACIStored \cup {"persist", "count"}

\* What Link has done when it is at a label.
Progress ==
    /\ link \in Registered => attempt \in devices
    /\ link \in ACIStored => oneTime.aci = attempt
    /\ link \in ACIUploaded => <<attempt, "aci">> \in published
    /\ link \in SignedNext => account = attempt
    /\ link \in KyberNext => signed = attempt
    /\ link \in Polling => kyber = attempt
    /\ link \in Importing => archive = "valid"

\* Keys are published under numbers of attempts made.
PublishedExists ==
    /\ attempt \in Nat
    /\ \A n \in Int, ns \in Namespaces : <<n, ns>> \in published => n <= attempt

LinkInv ==
    /\ DOMAIN oneTime = Namespaces
    /\ PublishedExists
    /\ PublishedHeld
    /\ Progress

USE DEF Importing, Polling, KyberNext, SignedNext, ACIUploaded, ACIStored, Registered

LEMMA InitLink == LinkInit => LinkInv
  BY DEF LinkInit, LinkInv, PublishedExists, PublishedHeld, Progress, Namespaces

LEMMA StartKeeps == ASSUME LinkInv, StartLink PROVE LinkInv'
<1>1. attempt' = attempt + 1 /\ attempt' \in Nat /\ attempt' \in Int
      /\ published' = published /\ oneTime' = oneTime /\ link' = "address"
  BY DEF StartLink, LinkInv, PublishedExists, serverVars, linkDisk, LinkGoto
<1>2. <<attempt', "aci">> \notin published
  <2>1. "aci" \in Namespaces /\ ~(attempt' <= attempt)
    BY <1>1 DEF LinkInv, PublishedExists, Namespaces
  <2>2. <<attempt', "aci">> \in published => attempt' <= attempt
    BY <1>1, <2>1 DEF LinkInv, PublishedExists
  <2> QED
    BY <2>1, <2>2
<1>3. PublishedExists'
  BY <1>1 DEF LinkInv, PublishedExists
<1> QED
  BY <1>1, <1>2, <1>3 DEF LinkInv, PublishedHeld, Progress

\* Steps that leave the keys and the server alone, and Link no further on.
LEMMA BackKeeps ==
    ASSUME LinkInv, UNCHANGED <<attempt, oneTime, published>>,
           link' \notin Registered
    PROVE  LinkInv'
  BY DEF LinkInv, PublishedExists, PublishedHeld, Progress

LEMMA HandshakeKeeps ==
    ASSUME LinkInv,
           HandleAddress \/ HandleMessage \/ WsEnds \/ WatchReadLoop \/ TakeAddress
             \/ TakeEnvelope \/ TakeError \/ RegisterLost \/ ImportFails \/ StepFails
             \/ LinkCrash
    PROVE  LinkInv'
<1>1. UNCHANGED <<attempt, oneTime, published>>
  BY DEF HandleAddress, HandleMessage, WsEnds, WatchReadLoop, TakeAddress, TakeEnvelope,
     TakeError, RegisterLost, ImportFails, StepFails, LinkCrash, serverVars, linkDisk
<1>2. link' \notin Registered
  BY DEF HandleAddress, HandleMessage, WsEnds, WatchReadLoop, TakeAddress, TakeEnvelope,
     TakeError, RegisterLost, ImportFails, StepFails, LinkCrash, LinkFails, LinkGoto,
     InHandshake
<1> QED
  BY <1>1, <1>2, BackKeeps

LEMMA RegisterKeeps == ASSUME LinkInv, Register \/ CheckCount PROVE LinkInv'
  BY DEF Register, CheckCount, LinkGoto, LinkInv, PublishedExists, PublishedHeld, Progress,
     serverVars, linkDisk

LEMMA UploadKeeps == ASSUME LinkInv, uploadOneTimePreKeys PROVE LinkInv'
<1>1. CASE PersistBatch("persist", "aci", TRUE, "uploadACI")
  BY <1>1 DEF PersistBatch, PersistOneTimePreKeys, LinkGoto, LinkInv, PublishedExists,
     PublishedHeld, Progress, serverVars, Namespaces
<1>2. CASE UploadBatch("uploadACI", "aci", "persistPNI")
  BY <1>2 DEF UploadBatch, LinkGoto, LinkInv, PublishedExists, PublishedHeld, Progress,
     linkDisk, Namespaces
<1>3. CASE PersistBatch("persistPNI", "pni", FALSE, "uploadPNI")
  BY <1>3 DEF PersistBatch, PersistOneTimePreKeys, LinkGoto, LinkInv, PublishedExists,
     PublishedHeld, Progress, serverVars
<1>4. CASE UploadBatch("uploadPNI", "pni", "save")
  BY <1>4 DEF UploadBatch, LinkGoto, LinkInv, PublishedExists, PublishedHeld, Progress,
     linkDisk, Namespaces
<1> QED
  BY <1>1, <1>2, <1>3, <1>4 DEF uploadOneTimePreKeys

LEMMA SaveKeeps ==
    ASSUME LinkInv, SaveAccount \/ StoreSignedPreKey \/ StoreKyberPreKey
    PROVE  LinkInv'
<1>1. CASE SaveAccount
  BY <1>1 DEF SaveAccount, LinkGoto, LinkInv, PublishedExists, PublishedHeld, Progress,
     serverVars
<1>2. CASE StoreSignedPreKey
  BY <1>2 DEF StoreSignedPreKey, LinkGoto, LinkInv, PublishedExists, PublishedHeld,
     Progress, serverVars
<1>3. CASE StoreKyberPreKey
  <2>1. link' \in {"poll", "linked"} /\ link = "kyber" /\ kyber' = attempt
        /\ UNCHANGED <<attempt, devices, published, account, oneTime, signed>>
    BY <1>3 DEF StoreKyberPreKey, LinkGoto, serverVars
  <2> QED
    BY <2>1 DEF LinkInv, PublishedExists, PublishedHeld, Progress
<1> QED
  BY <1>1, <1>2, <1>3

LEMMA ArchiveKeeps ==
    ASSUME LinkInv,
           \/ \E t \in 0..HTTPTimeout, answer \in Answers : Poll(t, answer)
           \/ PollTimesOut \/ PollDeadline \/ Download
           \/ \E k \in FrameKinds : importFrame(k)
           \/ ImportDone
    PROVE  LinkInv'
<1>1. UNCHANGED <<attempt, devices, published, account, oneTime, signed, kyber>>
  BY DEF Poll, PollTimesOut, PollDeadline, Download, importFrame, ImportDone, serverVars,
     linkDisk
<1>2. link \in Polling
  BY DEF Poll, PollTimesOut, PollDeadline, Download, importFrame, ImportDone
<1>3. link' \in Polling \cup {"failed"}
  BY DEF Poll, PollTimesOut, PollDeadline, Download, importFrame, ImportDone, LinkGoto,
     Answers
<1>4. link' = "import" => archive' = "valid"
  <2>1. CASE \E t \in 0..HTTPTimeout, answer \in Answers : Poll(t, answer)
    <3>1. link' # "import"
      BY <2>1 DEF Poll, LinkGoto, Answers
    <3> QED
      BY <3>1
  <2>2. CASE PollTimesOut \/ PollDeadline \/ ImportDone
    BY <2>2 DEF PollTimesOut, PollDeadline, ImportDone, LinkGoto
  <2>3. CASE Download
    BY <2>3 DEF Download, Validated, LinkGoto
  <2>4. CASE \E k \in FrameKinds : importFrame(k)
    <3>1. UNCHANGED <<link, archive>>
      BY <2>4 DEF importFrame
    <3> QED
      BY <3>1 DEF LinkInv, Progress
  <2> QED
    BY <2>1, <2>2, <2>3, <2>4
<1> QED
  BY <1>1, <1>2, <1>3, <1>4 DEF LinkInv, PublishedExists, PublishedHeld, Progress

LEMMA NextKeepsLink == LinkInv /\ [LifeNext]_lifeVars => LinkInv'
<1> SUFFICES ASSUME LinkInv, [LifeNext]_lifeVars PROVE LinkInv'
  OBVIOUS
<1>1. CASE LinkNext
  BY <1>1, StartKeeps, HandshakeKeeps, RegisterKeeps, UploadKeeps, SaveKeeps, ArchiveKeeps
     DEF LinkNext, LinkStep
<1>2. CASE Running
  BY <1>2 DEF Running, LinkInv, PublishedExists, PublishedHeld, Progress, serverVars,
     linkDisk
<1>3. CASE UNCHANGED lifeVars
  BY <1>3 DEF lifeVars, linkVars, importVars, LinkInv, PublishedExists, PublishedHeld,
     Progress, serverVars, linkDisk
<1> QED
  BY <1>1, <1>2, <1>3 DEF LifeNext, Linking

-----------------------------------------------------------------------------
(* The caches of profile keys. *)

\* Both maps are functions on the contacts, and they agree.
UAKInv ==
    /\ knownUAKs = [a \in Contacts |-> knownUAKs[a]]
    /\ knownProfileKeys = [a \in Contacts |-> knownProfileKeys[a]]
    /\ UAKFollowsKey

LEMMA StoreKeepsUAK ==
    ASSUME UAKInv, NEW a, NEW k, storeRecipientProfileKey(a, k)
    PROVE  UAKInv'
  BY DEF UAKInv, UAKFollowsKey, storeRecipientProfileKey

LEMMA StorageKeepsUAK ==
    ASSUME UAKInv, StorageNext
    PROVE  UAKInv'
<1> USE DEF UAKInv
<1>1. ASSUME UNCHANGED <<knownProfileKeys, knownUAKs>> PROVE UAKInv'
  BY <1>1 DEF UAKFollowsKey
<1>2. CASE WriteManifest \/ ContactSends \/ OpenConnect
           \/ \E c \in Calls : AppSync(c) \/ RequestFails(c)
  BY <1>1, <1>2 DEF WriteManifest, ContactSends, OpenConnect, AppSync, RequestFails,
     profileVars
<1>3. ASSUME NEW c \in Calls, SyncStep(c) PROVE UAKInv'
  <2>1. CASE CacheProfileKey(c)
    BY <2>1, StoreKeepsUAK DEF CacheProfileKey
  <2>2. CASE ~CacheProfileKey(c)
    BY <1>1, <1>3, <2>2 DEF SyncStep, FetchUnchanged, FetchManifest, ReadRecords, CommitSync,
       ReturnError, profileVars
  <2> QED
    BY <2>1, <2>2
<1>4. CASE dispatchContent
  BY <1>1, <1>4, StoreKeepsUAK DEF dispatchContent, handleSyncMessage, handleDataMessage,
     profileVars
<1>5. CASE loadImportedBackupData
  BY <1>1, <1>5 DEF loadImportedBackupData, UAKFollowsKey
<1>6. CASE Restart
  BY <1>6 DEF Restart, UAKFollowsKey
<1>7. CASE ProfileCalls
  <2>1. CASE ProfileSet
    <3>1. ASSUME NEW a \in Contacts, NEW u \in {NoKey, Explicit}, SetRecipientUAK(a, u)
          PROVE  UAKInv'
      BY <3>1 DEF SetRecipientUAK, UAKFollowsKey
    <3> QED
      BY <2>1, <3>1, StoreKeepsUAK DEF ProfileSet, SetRecipientProfileKey
  <2>2. CASE \E c \in Calls : ProfileBegins(c)
    BY <1>1, <2>2 DEF ProfileBegins, FetchProfile, ensureRecipientUAK, profileVars
  <2>3. CASE \E c \in Calls : ProfileStep(c)
    BY <1>1, <2>3, StoreKeepsUAK DEF ProfileStep, FetchProfileKey, FetchProfileFlag,
       EnsureStore
  <2> QED
    BY <1>7, <2>1, <2>2, <2>3 DEF ProfileCalls
<1> QED
  BY <1>2, <1>3, <1>4, <1>5, <1>6, <1>7 DEF StorageNext

-----------------------------------------------------------------------------
(* The lists of the storage service. *)

InHand(c) == pc[c] \in {"read", "cache"}

Domains ==
    /\ DOMAIN pc = Calls /\ DOMAIN local = Calls
    /\ DOMAIN manifest = Calls /\ DOMAIN records = Calls

Versions ==
    /\ remote.version \in Nat /\ storageManifestVersion \in Nat
    /\ storageManifestVersion <= remote.version
    /\ \A c \in Calls : local[c] \in Nat /\ manifest[c].version \in Nat

\* The manifest a sync has in hand is newer than the one it started from, and
\* as long as the service has it still, the records are the service's.
FreshInHand ==
    \A c \in Calls :
        InHand(c) =>
            /\ local[c] < manifest[c].version
            /\ manifest[c].version <= remote.version
            /\ manifest[c].version = remote.version =>
                 /\ manifest[c].items = remote.items
                 /\ pc[c] = "cache" => Relevant(records[c]) = Relevant(remote.items)

\* There are no records before they are read.
NoRecordsYet == \A c \in Calls : pc[c] # "cache" => records[c] = {}

ListInv == Domains /\ Versions /\ FreshInHand /\ NoRecordsYet /\ SyncedIfCurrent

LEMMA InitList == LifeInit => ListInv
  BY DEF LifeInit, StorageInit, CallInit, Idler, NoManifest, ListInv, Domains, Versions,
     FreshInHand, NoRecordsYet, InHand, SyncedIfCurrent

\* Steps that change neither the lists nor what the syncs have in hand.
LEMMA AsideKeepsList ==
    ASSUME ListInv, UNCHANGED <<remote, listVars, imported, pc, local, manifest, records>>
    PROVE  ListInv'
  BY DEF listVars, ListInv, Domains, Versions, FreshInHand, NoRecordsYet,
     InHand, SyncedIfCurrent, Entries

\* A call begins, goes on without a manifest, or ends.
LEMMA MoveKeepsList ==
    ASSUME ListInv, NEW c \in Calls, UNCHANGED <<remote, listVars, imported>>,
           Domains', local'[c] \in Nat, manifest'[c].version \in Nat, ~InHand(c)', records'[c] = {},
           \A d \in Calls \ {c} : /\ pc'[d] = pc[d] /\ local'[d] = local[d]
                                  /\ manifest'[d] = manifest[d] /\ records'[d] = records[d]
    PROVE  ListInv'
<1>1. Versions'
  BY DEF ListInv, Versions, listVars
<1>2. FreshInHand'
  BY DEF ListInv, FreshInHand, InHand
<1>3. NoRecordsYet'
  BY DEF ListInv, NoRecordsYet
<1>4. SyncedIfCurrent'
  BY DEF ListInv, SyncedIfCurrent, listVars, Entries
<1> QED
  BY <1>1, <1>2, <1>3, <1>4 DEF ListInv

LEMMA ReturnKeepsList ==
    ASSUME ListInv, NEW c \in Calls, UNCHANGED <<remote, listVars, imported>>, Return(c)
    PROVE  ListInv'
  BY MoveKeepsList DEF Return, Goto, ListInv, Domains, InHand, NoManifest

LEMMA GotoKeepsList ==
    ASSUME ListInv, NEW c \in Calls, NEW l, Goto(c, l), l \notin {"read", "cache"},
           pc[c] # "cache",
           UNCHANGED <<remote, listVars, imported, local, manifest, records>>
    PROVE  ListInv'
  BY MoveKeepsList DEF Goto, ListInv, Domains, InHand, Versions,
     NoRecordsYet

LEMMA BeginKeepsList ==
    ASSUME ListInv, NEW c \in Calls, SyncStorage(c), pc[c] = "idle",
           UNCHANGED <<remote, listVars, imported>>
    PROVE  ListInv'
<1>1. CASE pool = 0
  BY <1>1, AsideKeepsList DEF SyncStorage
<1>2. CASE pool # 0
  BY <1>2, MoveKeepsList DEF SyncStorage, Goto, ListInv, Domains, InHand, Versions,
     NoRecordsYet
<1> QED
  BY <1>1, <1>2

LEMMA SyncKeepsList == ASSUME ListInv, NEW c \in Calls, SyncStep(c) PROVE ListInv'
<1>1. CASE FetchUnchanged(c) \/ ReturnError(c)
  BY <1>1, ReturnKeepsList DEF FetchUnchanged, ReturnError, diskVars
<1>2. CASE FetchManifest(c)
  <2>1. UNCHANGED <<remote, storageManifestVersion, storedList, imported, local, records>>
    BY <1>2 DEF FetchManifest, NoteManifest, diskVars
  <2>2. manifest' = [manifest EXCEPT ![c] = remote]
        /\ pc' = [pc EXCEPT ![c] = IF remote.pool # keys[c] THEN "failed"
                                   ELSE IF Relevant(remote.items) = {} THEN "cache"
                                   ELSE "read"]
    BY <1>2 DEF FetchManifest, Goto
  <2>3. Domains' /\ Versions'
    BY <2>1, <2>2 DEF ListInv, Domains, Versions
  <2>4. local[c] < remote.version
    BY <1>2 DEF FetchManifest, ManifestUnchanged, ListInv, Versions
  <2>5. ASSUME Relevant(remote.items) = {} PROVE Relevant(records[c]) = Relevant(remote.items)
    BY <1>2, <2>5 DEF FetchManifest, ListInv, NoRecordsYet, Relevant
  <2>6. FreshInHand'
    <3> SUFFICES ASSUME NEW d \in Calls, InHand(d)'
                 PROVE  /\ local[d] < manifest'[d].version
                        /\ manifest'[d].version <= remote.version
                        /\ manifest'[d].version = remote.version =>
                             /\ manifest'[d].items = remote.items
                             /\ pc'[d] = "cache" =>
                                  Relevant(records[d]) = Relevant(remote.items)
      BY <2>1 DEF FreshInHand, Relevant
    <3>1. CASE d = c
      BY <3>1, <2>1, <2>2, <2>4, <2>5 DEF ListInv, Domains, Versions
    <3>2. CASE d # c
      BY <3>2, <2>1, <2>2 DEF ListInv, Domains, FreshInHand, InHand
    <3> QED
      BY <3>1, <3>2
  <2>7. NoRecordsYet'
    BY <1>2, <2>1, <2>2 DEF FetchManifest, ListInv, Domains, NoRecordsYet
  <2>8. SyncedIfCurrent'
    BY <2>1 DEF ListInv, SyncedIfCurrent, Entries
  <2> QED
    BY <2>3, <2>6, <2>7, <2>8 DEF ListInv
<1>3. CASE ReadRecords(c)
  <2>1. UNCHANGED <<remote, storageManifestVersion, storedList, imported, local, manifest>>
    BY <1>3 DEF ReadRecords, diskVars, listVars
  <2>2. /\ records' = [records EXCEPT ![c] = Relevant(manifest[c].items) \cap remote.items]
        /\ pc' = [pc EXCEPT ![c] = "cache"] /\ InHand(c)
    BY <1>3 DEF ReadRecords, Goto, InHand
  <2>3. Domains' /\ Versions' /\ NoRecordsYet'
    BY <2>1, <2>2 DEF ListInv, Domains, Versions, NoRecordsYet
  <2>4. ASSUME manifest[c].items = remote.items
        PROVE  Relevant(records'[c]) = Relevant(remote.items)
    BY <2>2, <2>4 DEF ListInv, Domains, Relevant
  <2>5. FreshInHand'
    <3> SUFFICES ASSUME NEW d \in Calls, InHand(d)'
                 PROVE  /\ local[d] < manifest[d].version
                        /\ manifest[d].version <= remote.version
                        /\ manifest[d].version = remote.version =>
                             /\ manifest[d].items = remote.items
                             /\ pc'[d] = "cache" =>
                                  Relevant(records'[d]) = Relevant(remote.items)
      BY <2>1 DEF FreshInHand, Relevant
    <3>1. CASE d = c
      BY <3>1, <2>2, <2>4 DEF ListInv, FreshInHand
    <3>2. CASE d # c
      BY <3>2, <2>2 DEF ListInv, Domains, FreshInHand, InHand
    <3> QED
      BY <3>1, <3>2
  <2>6. SyncedIfCurrent'
    BY <2>1 DEF ListInv, SyncedIfCurrent, Entries
  <2> QED
    BY <2>3, <2>5, <2>6 DEF ListInv
<1>4. CASE CacheProfileKey(c)
  BY <1>4, AsideKeepsList DEF CacheProfileKey, diskVars
<1>5. CASE CommitSync(c)
  <2>1. /\ storageManifestVersion' = manifest[c].version
        /\ storedList' = Entries(records[c])
        /\ UNCHANGED <<remote, imported>>
        /\ pc[c] = "cache" /\ InHand(c)
    BY <1>5 DEF CommitSync, diskVars, InHand
  <2>2. /\ Domains' /\ ~InHand(c)' /\ records'[c] = {}
        /\ local'[c] \in Nat /\ manifest'[c].version \in Nat
        /\ \A d \in Calls \ {c} : /\ pc'[d] = pc[d] /\ local'[d] = local[d]
                                  /\ manifest'[d] = manifest[d] /\ records'[d] = records[d]
    BY <1>5 DEF CommitSync, Return, Goto, ListInv, Domains, InHand, NoManifest
  <2>3. Versions'
    BY <2>1, <2>2 DEF ListInv, Versions, FreshInHand
  <2>4. FreshInHand'
    BY <2>1, <2>2 DEF ListInv, FreshInHand, InHand
  <2>5. NoRecordsYet'
    BY <2>2 DEF ListInv, NoRecordsYet
  <2>6. manifest[c].version = remote.version => Entries(records[c]) = Entries(remote.items)
    BY <2>1 DEF ListInv, FreshInHand, Entries
  <2>7. SyncedIfCurrent'
    BY <2>1, <2>6 DEF SyncedIfCurrent, Entries
  <2> QED
    BY <2>2, <2>3, <2>4, <2>5, <2>7 DEF ListInv
<1> QED
  BY <1>1, <1>2, <1>3, <1>4, <1>5 DEF SyncStep

LEMMA WriteKeepsList == ASSUME ListInv, WriteManifest PROVE ListInv'
<1>1. /\ remote'.version = remote.version + 1
      /\ UNCHANGED <<imported, listVars, pc, local, manifest, records>>
  BY DEF WriteManifest, diskVars, callVars, syncVars
<1> QED
  BY <1>1 DEF ListInv, Domains, Versions, FreshInHand, NoRecordsYet, InHand,
     SyncedIfCurrent, listVars

LEMMA ProfileKeepsList == ASSUME ListInv, ProfileCalls PROVE ListInv'
<1>1. UNCHANGED <<remote, listVars, imported, local, manifest, records>>
  BY DEF ProfileCalls, diskVars, syncVars
<1>2. CASE ProfileSet
  BY <1>1, <1>2, AsideKeepsList DEF ProfileSet, SetRecipientProfileKey, SetRecipientUAK
<1>3. CASE \E c \in Calls : ProfileBegins(c) \/ ProfileStep(c)
  <2>1. PICK c \in Calls : ProfileBegins(c) \/ ProfileStep(c)
    BY <1>3
  <2>2. pc[c] # "cache" /\ \E l : Goto(c, l) /\ l \notin {"read", "cache"}
    BY <2>1 DEF ProfileBegins, ProfileStep, FetchProfile, ensureRecipientUAK, FetchProfileKey,
       FetchProfileFlag, EnsureStore, Idle
  <2> QED
    BY <1>1, <2>2, GotoKeepsList
<1> QED
  BY <1>2, <1>3 DEF ProfileCalls

LEMMA OpenKeepsList ==
    ASSUME ListInv, OpenConnect \/ loadImportedBackupData \/ Restart
    PROVE  ListInv'
<1>1. CASE OpenConnect
  BY <1>1, AsideKeepsList DEF OpenConnect, diskVars, callVars, syncVars
<1>2. CASE loadImportedBackupData
  <2>1. UNCHANGED <<remote, imported, storageManifestVersion, pc, local, manifest, records>>
    BY <1>2 DEF loadImportedBackupData, diskVars, callVars, syncVars
  <2>2. storedList' = IF imported = {} THEN storedList ELSE Entries(imported)
    BY <1>2 DEF loadImportedBackupData
  <2> QED
    BY <2>1, <2>2 DEF ListInv, Domains, Versions, FreshInHand, NoRecordsYet, InHand,
       SyncedIfCurrent, Entries
<1>3. CASE Restart
  BY <1>3 DEF Restart, Idler, NoManifest, ListInv, Domains, Versions, FreshInHand,
     NoRecordsYet, InHand, SyncedIfCurrent
<1> QED
  BY <1>1, <1>2, <1>3

LEMMA DispatchKeepsList == ASSUME ListInv, dispatchContent PROVE ListInv'
<1>1. PICK m \in inbound : handleSyncMessage(m) \/ handleDataMessage(m)
  BY DEF dispatchContent
<1>2. CASE handleDataMessage(m)
  BY <1>2, AsideKeepsList DEF handleDataMessage, diskVars, callVars, syncVars
<1>3. CASE handleSyncMessage(m) /\ ~m.fetchLatest
  BY <1>3, AsideKeepsList DEF handleSyncMessage, callVars, syncVars
<1>4. CASE handleSyncMessage(m) /\ m.fetchLatest
  BY <1>4, BeginKeepsList DEF handleSyncMessage, SyncStorage, Idle
<1> QED
  BY <1>1, <1>2, <1>3, <1>4

LEMMA NextKeepsList == ListInv /\ [LifeNext]_lifeVars => ListInv'
<1> SUFFICES ASSUME ListInv, [LifeNext]_lifeVars PROVE ListInv'
  OBVIOUS
<1>1. CASE StorageNext
  <2>1. ASSUME NEW c \in Calls, AppSync(c) PROVE ListInv'
    BY <2>1, BeginKeepsList DEF AppSync, SyncStorage, Idle, diskVars
  <2>2. ASSUME NEW c \in Calls, RequestFails(c) PROVE ListInv'
    <3>1. pc[c] # "cache" /\ Goto(c, "failed")
          /\ UNCHANGED <<remote, listVars, imported, local, manifest, records>>
      BY <2>2 DEF RequestFails, diskVars, syncVars
    <3> QED
      BY <3>1, GotoKeepsList
  <2>3. CASE ContactSends
    BY <2>3, AsideKeepsList DEF ContactSends, diskVars, callVars, syncVars
  <2> QED
    BY <1>1, <2>1, <2>2, <2>3, SyncKeepsList, WriteKeepsList, ProfileKeepsList,
       OpenKeepsList, DispatchKeepsList DEF StorageNext
<1>2. CASE Linking
  <2>1. UNCHANGED <<remote, listVars, pc, local, manifest, records>> /\ remote.version = 0
    BY <1>2 DEF Linking, callVars, syncVars
  <2> QED
    BY <2>1 DEF ListInv, Domains, Versions, FreshInHand, NoRecordsYet, InHand,
       SyncedIfCurrent, listVars
<1>3. CASE UNCHANGED lifeVars
  BY <1>3, AsideKeepsList DEF lifeVars, storageVars, diskVars, callVars, syncVars
<1> QED
  BY <1>1, <1>2, <1>3 DEF LifeNext, Running

-----------------------------------------------------------------------------
\* The server hands out no one-time prekey of the newest device's ACI whose
\* private half is not stored, whatever step of whatever call of Link failed.
THEOREM PublishedKeysHeld == LifeSpec => []PublishedHeld
<1>1. LifeInit => LinkInv
  BY InitLink DEF LifeInit
<1>2. LinkInv => PublishedHeld
  BY DEF LinkInv
<1> QED
  BY <1>1, <1>2, NextKeepsLink, PTL DEF LifeSpec

\* A device Link reports as linked, given stores, is registered and saved and
\* has stored the keys of its ACI; this says nothing of those of its PNI.
THEOREM LinkedDeviceHasACIKeys == LifeSpec => []LinkedHasACIKeys
<1>1. LifeInit => LinkInv
  BY InitLink DEF LifeInit
<1>2. LinkInv => LinkedHasACIKeys
  BY DEF LinkInv, Progress, LinkedHasACIKeys
<1> QED
  BY <1>1, <1>2, NextKeepsLink, PTL DEF LifeSpec

\* The import store grows only from an archive libsignal has validated, and
\* after the account it belongs to is saved.
THEOREM ImportsOnlyValidated == LifeSpec => OnlyValidatedImported
<1>1. LifeInit => LinkInv
  BY InitLink DEF LifeInit
<1>2. ASSUME LinkInv, [LifeNext]_lifeVars,
             contacts' # contacts \/ identities' # identities
      PROVE  archive = "valid" /\ account = attempt
  <2>1. link = "import"
    <3>1. LinkNext
      BY <1>2 DEF LifeNext, Linking, Running, lifeVars, linkVars, importVars
    <3> QED
      BY <1>2, <3>1 DEF LinkNext, StartLink, HandleAddress, HandleMessage, WsEnds, LinkStep,
         WatchReadLoop, TakeAddress, TakeEnvelope, TakeError, Register, CheckCount,
         uploadOneTimePreKeys, PersistBatch, UploadBatch, SaveAccount, StoreSignedPreKey,
         StoreKyberPreKey, Poll, PollTimesOut, PollDeadline, Download, importFrame,
         ImportDone, RegisterLost, ImportFails, StepFails, LinkCrash, LinkFails, importVars
  <2> QED
    BY <1>2, <2>1 DEF LinkInv, Progress
<1>3. LinkInv /\ [LifeNext]_lifeVars
        => [contacts' # contacts \/ identities' # identities
              => archive = "valid" /\ account = attempt]_linkVars
  BY <1>2
<1> QED
  BY <1>1, <1>3, NextKeepsLink, PTL DEF LifeSpec, OnlyValidatedImported

\* Whatever writers of the two maps interleave, a sealed send uses the UAK of
\* the cached profile key or one the application gave.
THEOREM UAKAlwaysFollowsKey == LifeSpec => []UAKFollowsKey
<1>1. LifeInit => UAKInv
  BY DEF LifeInit, StorageInit, ProfileInit, UAKInv, UAKFollowsKey
<1>2. UAKInv /\ [LifeNext]_lifeVars => UAKInv'
  BY StorageKeepsUAK DEF LifeNext, Linking, Running, lifeVars, storageVars, profileVars,
     UAKInv, UAKFollowsKey
<1>3. UAKInv => UAKFollowsKey
  BY DEF UAKInv
<1> QED
  BY <1>1, <1>2, <1>3, PTL DEF LifeSpec
\* A client at the service's version shows the service's lists, with any number
\* of overlapping syncs.
THEOREM CurrentMeansSynced == LifeSpec => []SyncedIfCurrent
<1>1. ListInv => SyncedIfCurrent
  BY DEF ListInv
<1> QED
  BY <1>1, InitList, NextKeepsList, PTL DEF LifeSpec

\* Only a restart, or a sync that others have overtaken, takes the version of
\* the lists back.
THEOREM VersionGoesBackOnlyThen == LifeSpec => VersionGoesBackOnlyWhenOvertaken
<1>1. ASSUME ListInv, [LifeNext]_lifeVars, storageManifestVersion' < storageManifestVersion
      PROVE  phase' = "closed"
               \/ \E c \in Calls : pc[c] = "cache" /\ local[c] # storageManifestVersion
  <2>1. storageManifestVersion' # storageManifestVersion /\ storageManifestVersion \in Nat
    BY <1>1 DEF ListInv, Versions
  <2>2. Restart \/ \E c \in Calls : CommitSync(c)
    <3>1. StorageNext
      BY <1>1, <2>1 DEF LifeNext, Linking, Running, lifeVars, storageVars, listVars
    <3>2. ~WriteManifest /\ ~ContactSends /\ ~ProfileCalls /\ ~OpenConnect
          /\ ~loadImportedBackupData
      BY <2>1 DEF WriteManifest, ContactSends, ProfileCalls, OpenConnect,
         loadImportedBackupData, listVars
    <3>3. ~dispatchContent
      BY <2>1 DEF dispatchContent, handleSyncMessage, handleDataMessage, listVars
    <3>4. \A c \in Calls : ~AppSync(c) /\ ~RequestFails(c) /\ ~FetchUnchanged(c)
             /\ ~FetchManifest(c) /\ ~ReadRecords(c) /\ ~CacheProfileKey(c) /\ ~ReturnError(c)
      BY <2>1 DEF AppSync, RequestFails, FetchUnchanged, FetchManifest, NoteManifest,
         ReadRecords, CacheProfileKey, ReturnError, listVars
    <3> QED
      BY <3>1, <3>2, <3>3, <3>4 DEF StorageNext, SyncStep
  <2>3. CASE Restart
    BY <2>3 DEF Restart
  <2>4. CASE \E c \in Calls : CommitSync(c)
    <3>1. PICK c \in Calls : CommitSync(c)
      BY <2>4
    <3>2. pc[c] = "cache" /\ storageManifestVersion' = manifest[c].version
      BY <3>1 DEF CommitSync
    <3>3. local[c] < manifest[c].version /\ local[c] \in Nat /\ manifest[c].version \in Nat
      BY <1>1, <3>2 DEF ListInv, Versions, FreshInHand, InHand
    <3>4. local[c] # storageManifestVersion
      BY <1>1, <2>1, <3>2, <3>3
    <3> QED
      BY <3>2, <3>4
  <2> QED
    BY <2>2, <2>3, <2>4
<1>2. ListInv /\ [LifeNext]_lifeVars
        => [storageManifestVersion' < storageManifestVersion =>
              \/ phase' = "closed"
              \/ \E c \in Calls : /\ pc[c] = "cache"
                                  /\ local[c] # storageManifestVersion]_storageVars
  BY <1>1
<1> QED
  BY <1>2, InitList, NextKeepsList, PTL DEF LifeSpec, VersionGoesBackOnlyWhenOvertaken
=============================================================================
