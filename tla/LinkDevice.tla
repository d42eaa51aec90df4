----------------------------- MODULE LinkDevice -----------------------------
(***************************************************************************)
(* internal/provisioning and pkg/signal/link.go, link_sync.go: linking a   *)
(* new device.  A handshake with the primary over a provisioning           *)
(* websocket, registration, upload of one-time prekeys, the saves, and     *)
(* the transfer archive, polled for, downloaded, validated and imported    *)
(* frame by frame.  The process may crash between any two of these, and    *)
(* Link may be called again on the same stores.                            *)
(*                                                                         *)
(* The keys an attempt generates are told by its number.  Each attempt     *)
(* uses the same prekey ids, so a store holds the keys of one attempt.     *)
(***************************************************************************)
EXTENDS Integers

CONSTANTS MaxAttempts,   \* bound: calls of Link
          MaxLinkFaults, \* bound: failed requests, stores and callbacks
          Counts,        \* OneTimePreKeyCount the callers pass
          MaxFrames,     \* frames of a transfer archive
          HTTPTimeout,   \* web.Client's request timeout
          PollChunk,     \* transferArchivePollChunk
          TotalWait      \* DefaultTransferArchiveTimeout, all three in one unit

ASSUME LinkAssumption ==
    /\ {MaxAttempts, MaxLinkFaults, MaxFrames} \subseteq Nat
    /\ Counts \subseteq Int
    /\ {HTTPTimeout, PollChunk, TotalWait} \subseteq Nat \ {0}

VARIABLES
    attempt,        \* number of the current call of Link
    link,           \* its program counter
    count, andSync, \* its OneTimePreKeyCount and LinkAndSync
    addrCh, envCh,  \* provisioning.Link's channels, of capacity 1
    wsUp, errCh,    \* the read loop runs; the error its end left
    linkFaults,
    devices,        \* the server: attempts it registered a device for
    published,      \* the server: attempts and namespaces with one-time keys
    account,        \* disk: attempt whose account is saved, 0 for none
    oneTime,        \* disk: attempt whose one-time keys are stored, by namespace
    signed, kyber,  \* disk: the same for the signed and last-resort prekeys
    waited,         \* time FetchTransferArchive has polled
    archive,        \* the archive: none, valid, corrupt
    frame,          \* frames imported so far
    contacts,       \* disk: frames whose contact the import store has
    identities      \* disk: frames whose identity key the store has

handshakeVars == <<wsUp, addrCh, envCh, errCh>>
serverVars == <<devices, published>>
linkDisk == <<account, oneTime, signed, kyber>>
importVars == <<waited, archive, frame, contacts, identities>>
linkVars == <<attempt, link, count, andSync, handshakeVars, linkFaults, serverVars,
              linkDisk, importVars>>

Attempts == 1..MaxAttempts
Namespaces == {"aci", "pni"}
Envelopes == {"ok", "incomplete", "undecryptable"}
Ended == {"idle", "linked", "failed"}

\* The types of the variables.
LinkTypeOK ==
    /\ attempt \in 0..MaxAttempts
    /\ link \in Ended \cup {"address", "envelope", "register", "count", "persist",
                     "uploadACI", "persistPNI", "uploadPNI", "save", "signed", "kyber", "poll", "download",
                     "import"}
    /\ count \in Counts
    /\ andSync \in BOOLEAN
    /\ addrCh \in BOOLEAN
    /\ envCh \in Envelopes \cup {"none"}
    /\ wsUp \in BOOLEAN
    /\ errCh \in BOOLEAN
    /\ linkFaults \in 0..MaxLinkFaults
    /\ devices \subseteq Attempts
    /\ published \subseteq Attempts \X Namespaces
    /\ {account, signed, kyber} \subseteq 0..attempt
    /\ oneTime \in [Namespaces -> 0..attempt]
    /\ waited \in 0..TotalWait
    /\ archive \in {"none", "valid", "corrupt"}
    /\ frame \in 0..MaxFrames
    /\ contacts \cup identities \subseteq 1..MaxFrames

LinkInit ==
    /\ attempt = 0
    /\ link = "idle"
    /\ count \in Counts /\ andSync = FALSE
    /\ wsUp = FALSE /\ addrCh = FALSE /\ envCh = "none" /\ errCh = FALSE
    /\ linkFaults = 0
    /\ devices = {} /\ published = {}
    /\ account = 0 /\ oneTime = [n \in Namespaces |-> 0] /\ signed = 0 /\ kyber = 0
    /\ waited = 0 /\ archive = "none" /\ frame = 0
    /\ contacts = {} /\ identities = {}

LinkGoto(label) == link' = label

\* A request, a store or a callback fails, and Link returns its error.
LinkFails(at) ==
    /\ link \in at
    /\ linkFaults < MaxLinkFaults
    /\ linkFaults' = linkFaults + 1
    /\ LinkGoto("failed")

-----------------------------------------------------------------------------
(* The handshake. *)

\* Link's checks and the dial of the provisioning websocket.
StartLink ==
    /\ link \in Ended
    /\ attempt < MaxAttempts
    /\ attempt' = attempt + 1
    /\ count' \in Counts
    /\ andSync' \in BOOLEAN
    /\ wsUp' = TRUE /\ addrCh' = FALSE /\ envCh' = "none" /\ errCh' = FALSE
    /\ waited' = 0 /\ archive' = "none" /\ frame' = 0
    /\ LinkGoto("address")
    /\ UNCHANGED <<linkFaults, serverVars, linkDisk, contacts, identities>>

InHandshake == link \in {"address", "envelope"}

\* PUT /v1/address; a second one is dropped.
HandleAddress ==
    /\ link = "address" /\ wsUp /\ ~addrCh
    /\ addrCh' = TRUE
    /\ UNCHANGED <<attempt, link, count, andSync, wsUp, envCh, errCh, linkFaults,
                   serverVars, linkDisk, importVars>>

\* PUT /v1/message, once the primary has scanned the URL; a second one is
\* dropped.
HandleMessage ==
    /\ link = "envelope" /\ wsUp /\ envCh = "none"
    /\ envCh' \in Envelopes
    /\ UNCHANGED <<attempt, link, count, andSync, wsUp, addrCh, errCh, linkFaults,
                   serverVars, linkDisk, importVars>>

\* The connection is lost, and the read loop ends.
WsEnds ==
    /\ InHandshake /\ wsUp
    /\ wsUp' = FALSE
    /\ UNCHANGED <<attempt, link, count, andSync, addrCh, envCh, errCh, linkFaults,
                   serverVars, linkDisk, importVars>>

\* Mutant of ReadLoopEnded: an end before the address came is not reported.
ReadLoopEndedLate == ~wsUp /\ link = "envelope"

ReadLoopEnded == ~wsUp

\* The watcher sees the end of the read loop and reports its error.
WatchReadLoop ==
    /\ InHandshake /\ ReadLoopEnded /\ ~errCh
    /\ errCh' = TRUE
    /\ UNCHANGED <<attempt, link, count, andSync, wsUp, addrCh, envCh, linkFaults,
                   serverVars, linkDisk, importVars>>

\* The select on the address, then OnURL.
TakeAddress ==
    /\ link = "address" /\ addrCh
    /\ addrCh' = FALSE
    /\ LinkGoto("envelope")
    /\ UNCHANGED <<attempt, count, andSync, wsUp, envCh, errCh, linkFaults, serverVars,
                   linkDisk, importVars>>

\* The select on the envelope, DecryptEnvelope, the check of the required
\* fields, buildIdentity for ACI and PNI.
TakeEnvelope ==
    /\ link = "envelope" /\ envCh # "none"
    /\ envCh' = "none"
    /\ LinkGoto(IF envCh = "ok" THEN "register" ELSE "failed")
    /\ UNCHANGED <<attempt, count, andSync, wsUp, addrCh, errCh, linkFaults, serverVars,
                   linkDisk, importVars>>

\* Both selects may as well take the error, also when the other is ready.
TakeError ==
    /\ InHandshake /\ errCh
    /\ errCh' = FALSE
    /\ LinkGoto("failed")
    /\ UNCHANGED <<attempt, count, andSync, wsUp, addrCh, envCh, linkFaults, serverVars,
                   linkDisk, importVars>>

-----------------------------------------------------------------------------
(* Registration, prekeys and the saves. *)

\* PUT /v1/devices/link.
Register ==
    /\ link = "register"
    /\ devices' = devices \cup {attempt}
    /\ LinkGoto("count")
    /\ UNCHANGED <<attempt, count, andSync, handshakeVars, linkFaults, published,
                   linkDisk, importVars>>

\* ... whose answer is lost, or names device 0: Link fails, the server has
\* the device.
RegisterLost ==
    /\ LinkFails({"register"})
    /\ devices' = devices \cup {attempt}
    /\ UNCHANGED <<attempt, count, andSync, handshakeVars, published, linkDisk,
                   importVars>>

\* OneTimePreKeyCount is looked at only now; 0 stands for the default.
CheckCount ==
    /\ link = "count"
    /\ LinkGoto(IF count < 0 THEN "failed" ELSE "persist")
    /\ UNCHANGED <<attempt, count, andSync, handshakeVars, linkFaults, serverVars,
                   linkDisk, importVars>>

\* Mutant of PersistOneTimePreKeys: nothing is stored.
PersistNothing(namespace, stores) == UNCHANGED oneTime

\* PersistOneTimePreKeys; a nil store takes nothing.
PersistOneTimePreKeys(namespace, stores) ==
    oneTime' = IF stores THEN [oneTime EXCEPT ![namespace] = attempt] ELSE oneTime

\* UploadOneTimeBatch: the private halves are stored,
PersistBatch(at, namespace, stores, label) ==
    /\ link = at
    /\ PersistOneTimePreKeys(namespace, stores)
    /\ LinkGoto(label)
    /\ UNCHANGED <<attempt, count, andSync, handshakeVars, linkFaults, serverVars,
                   account, signed, kyber, importVars>>

\* ... and the public ones uploaded.
UploadBatch(at, namespace, label) ==
    /\ link = at
    /\ published' = published \cup {<<attempt, namespace>>}
    /\ LinkGoto(label)
    /\ UNCHANGED <<attempt, count, andSync, handshakeVars, linkFaults, devices,
                   linkDisk, importVars>>

\* The batches of the ACI and of the PNI, the latter with no store.
uploadOneTimePreKeys ==
    \/ PersistBatch("persist", "aci", TRUE, "uploadACI")
    \/ UploadBatch("uploadACI", "aci", "persistPNI")
    \/ PersistBatch("persistPNI", "pni", FALSE, "uploadPNI")
    \/ UploadBatch("uploadPNI", "pni", "save")

SaveAccount ==
    /\ link = "save"
    /\ account' = attempt
    /\ LinkGoto("signed")
    /\ UNCHANGED <<attempt, count, andSync, handshakeVars, linkFaults, serverVars,
                   oneTime, signed, kyber, importVars>>

\* persistSignalStoreKeys: the signed prekey,
StoreSignedPreKey ==
    /\ link = "signed"
    /\ signed' = attempt
    /\ LinkGoto("kyber")
    /\ UNCHANGED <<attempt, count, andSync, handshakeVars, linkFaults, serverVars,
                   account, oneTime, kyber, importVars>>

\* ... and the last-resort Kyber prekey.  maybeSyncTransferArchive goes on only
\* if the primary sent an ephemeral backup key.
StoreKyberPreKey ==
    /\ link = "kyber"
    /\ kyber' = attempt
    /\ \E backupKey \in BOOLEAN :
         LinkGoto(IF andSync /\ backupKey THEN "poll" ELSE "linked")
    /\ UNCHANGED <<attempt, count, andSync, handshakeVars, linkFaults, serverVars,
                   account, oneTime, signed, importVars>>

-----------------------------------------------------------------------------
(* The transfer archive. *)

\* One request of FetchTransferArchive is asked to wait this long.
Chunk == IF TotalWait - waited < PollChunk THEN TotalWait - waited ELSE PollChunk

\* It is answered after t: the archive, one of the primary's two refusals, or
\* 204 and another round.
Poll(t, answer) ==
    /\ link = "poll" /\ waited < TotalWait
    /\ t <= Chunk /\ t <= HTTPTimeout
    /\ waited' = waited + t
    /\ archive' = IF answer \in {"valid", "corrupt"} THEN answer ELSE "none"
    /\ LinkGoto(CASE answer = "noContent" -> "poll"
                  [] answer = "refusal" -> "linked"
                  [] OTHER -> "download")
    /\ UNCHANGED <<attempt, count, andSync, handshakeVars, linkFaults, serverVars,
                   linkDisk, frame, contacts, identities>>

Answers == {"noContent", "refusal", "valid", "corrupt"}

\* There is no answer: web.Client gives up before the service would.
PollTimesOut ==
    /\ link = "poll" /\ waited < TotalWait
    /\ HTTPTimeout < Chunk
    /\ waited' = waited + HTTPTimeout
    /\ LinkGoto("failed")
    /\ UNCHANGED <<attempt, count, andSync, handshakeVars, linkFaults, serverVars,
                   linkDisk, archive, frame, contacts, identities>>

\* The deadline has passed.
PollDeadline ==
    /\ link = "poll" /\ waited = TotalWait
    /\ LinkGoto("failed")
    /\ UNCHANGED <<attempt, count, andSync, handshakeVars, linkFaults, serverVars,
                   linkDisk, importVars>>

\* DownloadAttachmentCDN and ValidateMessageBackup over the whole archive.
Validated == archive = "valid"

\* ... then the import, which the caller may switch off.
Download ==
    /\ link = "download"
    /\ frame' = 0
    /\ \E next \in {"import", "linked"} :
         LinkGoto(IF Validated THEN next ELSE "failed")
    /\ UNCHANGED <<attempt, count, andSync, handshakeVars, linkFaults, serverVars,
                   linkDisk, waited, archive, contacts, identities>>

\* NextFrame returns a frame, not io.EOF.
FramesLeft == frame < MaxFrames

\* importFrame: a contact has an entry and an identity key, a group an entry;
\* a chat item goes to a callback, and other frames are passed over.
importFrame(kind) ==
    /\ link = "import" /\ FramesLeft
    /\ frame' = frame + 1
    /\ contacts' = IF kind \in {"contact", "group"} THEN contacts \cup {frame + 1}
                   ELSE contacts
    /\ identities' = IF kind = "contact" THEN identities \cup {frame + 1}
                     ELSE identities
    /\ UNCHANGED <<attempt, link, count, andSync, handshakeVars, linkFaults,
                   serverVars, linkDisk, waited, archive>>

FrameKinds == {"contact", "group", "other"}

\* The store fails between the entry and the identity key of a contact.
ImportFails ==
    /\ LinkFails({"import"})
    /\ FramesLeft
    /\ contacts' \in {contacts, contacts \cup {frame + 1}}
    /\ UNCHANGED <<attempt, count, andSync, handshakeVars, serverVars, linkDisk,
                   waited, archive, frame, identities>>

\* Finalize.
ImportDone ==
    /\ link = "import" /\ frame = MaxFrames
    /\ LinkGoto("linked")
    /\ UNCHANGED <<attempt, count, andSync, handshakeVars, linkFaults, serverVars,
                   linkDisk, importVars>>

-----------------------------------------------------------------------------
\* Any other step fails and changes nothing.
StepFails ==
    /\ LinkFails({"address", "envelope", "register", "persist", "uploadACI",
                  "uploadPNI", "save", "signed", "kyber", "poll", "download"})
    /\ UNCHANGED <<attempt, count, andSync, handshakeVars, serverVars, linkDisk,
                   importVars>>

\* The process ends during Link.
LinkCrash ==
    /\ link \notin Ended
    /\ linkFaults < MaxLinkFaults
    /\ linkFaults' = linkFaults + 1
    /\ LinkGoto("idle")
    /\ UNCHANGED <<attempt, count, andSync, handshakeVars, serverVars, linkDisk,
                   importVars>>

LinkStep ==
    \/ WatchReadLoop \/ TakeAddress \/ TakeEnvelope \/ TakeError
    \/ Register \/ CheckCount \/ uploadOneTimePreKeys
    \/ SaveAccount \/ StoreSignedPreKey \/ StoreKyberPreKey
    \/ \E t \in 0..HTTPTimeout, answer \in Answers : Poll(t, answer)
    \/ PollTimesOut \/ PollDeadline \/ Download
    \/ \E kind \in FrameKinds : importFrame(kind)
    \/ ImportDone

LinkNext ==
    \/ StartLink
    \/ HandleAddress \/ HandleMessage \/ WsEnds
    \/ LinkStep
    \/ RegisterLost \/ ImportFails \/ StepFails \/ LinkCrash

-----------------------------------------------------------------------------
\* The one-time prekeys of the ACI that the server hands out for the newest
\* device have their private halves in the store, wherever Link was cut off.
PublishedHeld ==
    <<attempt, "aci">> \in published => oneTime.aci = attempt

\* A device Link goes on to report as linked, given stores to put keys into, is
\* registered, its account is saved, and its one-time, signed and Kyber prekeys
\* of the ACI are stored.  Those of the PNI are published and stored nowhere.
LinkedHasACIKeys ==
    link \in {"poll", "download", "import", "linked"} =>
        /\ attempt \in devices
        /\ <<attempt, "aci">> \in published
        /\ {account, oneTime.aci, signed, kyber} = {attempt}

\* Nothing of an archive that libsignal rejects reaches the stores: they grow
\* only while a validated archive is imported.
OnlyValidatedImported ==
    [][contacts' # contacts \/ identities' # identities
         => archive = "valid" /\ account = attempt]_linkVars

\* "the total time a secondary waits for the primary": the poll is given up
\* only after TotalWait.
WaitsForPrimary ==
    link = "failed" /\ linkFaults = 0 /\ archive = "none" /\ waited > 0
        => waited = TotalWait

\* An account in the store has its signed prekeys in the store.
SavedAccountHasKeys == link \in Ended /\ account # 0 => signed = account

\* Every one-time prekey on the server has its private half in the stores.
AllPublishedHeld ==
    link = "linked" =>
        \A n \in Namespaces : <<attempt, n>> \in published => oneTime[n] = attempt

\* A handshake whose websocket ends comes to an end.
HandshakeEnds == (InHandshake /\ ~wsUp) ~> ~InHandshake
=============================================================================
