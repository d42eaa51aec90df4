---------------------------- MODULE PreKeyMaint ----------------------------
(***************************************************************************)
(* internal/prekeymaint: the top-up of the ACI one-time prekeys after an   *)
(* inbound prekey message, over internal/prekeys (generation, local        *)
(* persistence) and the SQL stores.  Every inbound envelope is decrypted   *)
(* in a goroutine of its own, so several top-ups may run at a time.        *)
(*                                                                         *)
(* A key is <<id, tag>>: two batches generated for the same ids are told   *)
(* apart by their tag.  EC and Kyber keys have separate ids, stores and    *)
(* next-id counters, as in account.Identity.                               *)
(***************************************************************************)
EXTENDS Integers, FiniteSets

CONSTANTS Maintainers,   \* goroutines that decrypt prekey messages
          MinAvailable,  \* Maintainer.MinAvailable
          TopUpBatch,    \* Maintainer.TopUpBatch
          MaxID,         \* prekeys.MaxID
          MaxGen,        \* bound: batches ever generated
          MaxMessages,   \* bound: bundles handed out and not yet answered
          MaxFaults,     \* bound: store errors and refused uploads
          MaxLost,       \* bound: uploads applied whose answer is lost
          MaxCrashes     \* bound: crashes of the process

ASSUME PreKeyAssumption ==
    /\ MinAvailable \in Nat \ {0}
    /\ TopUpBatch \in Nat \ {0}
    /\ MaxID \in Nat
    /\ TopUpBatch < MaxID
    /\ MaxGen \in Nat \ {0}
    /\ {MaxMessages, MaxFaults, MaxLost, MaxCrashes} \subseteq Nat

VARIABLES
    ec,        \* local store, table prekeys
    kem,       \* local store, table kyber_prekeys without the last resort
    used,      \* ids of the kyber_prekeys marked used
    srvEC,     \* one-time keys the server can still hand out
    srvKEM,
    inflight,  \* prekey messages under way to this device
    next,      \* NextPreKeyID and NextKyberPreKeyID of the account in memory
    saved,     \* the same of the account in the account store
    gen,       \* batches generated
    pc,        \* program counter of each goroutine
    base,      \* the next ids it read
    tag,       \* the tag of the batch it generated
    faults, lost, crashes

storeVars == <<ec, kem, used>>
srvVars == <<srvEC, srvKEM, inflight>>
acctVars == <<next, saved>>
workVars == <<gen, base, tag>>
envVars == <<faults, lost, crashes>>
preKeyVars == <<storeVars, srvVars, acctVars, workVars, pc, envVars>>

Keys == Nat \X Nat
Counters == [ec : Nat, kem : Nat]

\* A message that uses no one-time key: the bundle had no EC prekey, or the
\* last-resort Kyber prekey.
NoKey == <<0, 0>>

Messages == [ec : Keys, kem : Keys]

Steps == {"idle", "count", "generate", "persistEC", "persistKEM", "upload",
          "advanceEC", "advanceKEM", "save"}

\* A table with the id as its primary key.
Table(t) == t \subseteq Keys /\ \A j, k \in t : j[1] = k[1] => j = k

\* The types of the variables; an id has one key in a store, also when an id
\* is generated again after a failed top-up.
PreKeyTypeOK ==
    /\ Table(ec)
    /\ Table(kem)
    /\ used \subseteq Nat
    /\ Table(srvEC)
    /\ Table(srvKEM)
    /\ inflight \subseteq Messages
    /\ next \in Counters
    /\ saved \in Counters
    /\ gen \in 0..MaxGen
    /\ pc \in [Maintainers -> Steps]
    /\ base \in [Maintainers -> Counters]
    /\ tag \in [Maintainers -> 0..MaxGen]
    /\ faults \in 0..MaxFaults
    /\ lost \in 0..MaxLost
    /\ crashes \in 0..MaxCrashes

----------------------------------------------------------------------------
\* The count keys with ids from start on, of the batch t.
Batch(start, count, t) == {<<id, t>> : id \in start..(start + count - 1)}

\* INSERT ... ON CONFLICT(id) DO UPDATE for each key of the batch.
Store(table, keys) == {k \in table : \A n \in keys : n[1] # k[1]} \cup keys

\* What CountAvailableOneTimePreKeys counts.
UnusedKyber == {k \in kem : k[1] \notin used}

\* Mutant of ValidIDs: only the first id is checked.
ValidIDsFirst(start, count) == start >= 1 /\ start <= MaxID

\* Every id of the batch passes validateID.
ValidIDs(start, count) == start >= 1 /\ start + count - 1 <= MaxID

ECBatch(m) == Batch(base[m].ec, TopUpBatch, tag[m])
KEMBatch(m) == Batch(base[m].kem, TopUpBatch, tag[m])

Goto(m, step) == pc' = [pc EXCEPT ![m] = step]

\* The account and the stores as Link leaves them: one batch from id 2 on,
\* stored, uploaded and counted.
PreKeyInit ==
    LET first == Batch(2, TopUpBatch, 1) IN
    /\ ec = first /\ kem = first /\ used = {}
    /\ srvEC = first /\ srvKEM = first /\ inflight = {}
    /\ next = [ec |-> 2 + TopUpBatch, kem |-> 2 + TopUpBatch]
    /\ saved = next
    /\ gen = 1
    /\ pc = [m \in Maintainers |-> "idle"]
    /\ base = [m \in Maintainers |-> next]
    /\ tag = [m \in Maintainers |-> 0]
    /\ faults = 0 /\ lost = 0 /\ crashes = 0

----------------------------------------------------------------------------
\* The server answers a peer's GET /v2/keys and forgets the one-time keys it
\* put in the bundle; the peer then sends its prekey message.
HandOut ==
    /\ Cardinality(inflight) < MaxMessages
    /\ \E e \in IF srvEC = {} THEN {NoKey} ELSE srvEC,
          k \in IF srvKEM = {} THEN {NoKey} ELSE srvKEM :
         /\ inflight' = inflight \cup {[ec |-> e, kem |-> k]}
         /\ srvEC' = srvEC \ {e}
         /\ srvKEM' = srvKEM \ {k}
    /\ UNCHANGED <<storeVars, acctVars, workVars, pc, envVars>>

\* The keys of the message are in the local store.
Held(msg) ==
    /\ msg.ec \in ec \cup {NoKey}
    /\ msg.kem \in kem \cup {NoKey}

\* Mutant of DecryptPreKey: maintainPreKeys is not called.
DecryptPreKeyAlone(m, msg) ==
    /\ pc[m] = "idle"
    /\ Held(msg)
    /\ inflight' = inflight \ {msg}
    /\ ec' = {k \in ec : k[1] # msg.ec[1]}
    /\ used' = IF msg.kem = NoKey THEN used ELSE used \cup {msg.kem[1]}
    /\ UNCHANGED <<kem, srvEC, srvKEM, acctVars, workVars, pc, envVars>>

\* decryptPreKey succeeds: libsignal removes the EC key and marks the Kyber
\* key used; Decrypt then calls maintainPreKeys.
DecryptPreKey(m, msg) ==
    /\ pc[m] = "idle"
    /\ Held(msg)
    /\ inflight' = inflight \ {msg}
    /\ ec' = {k \in ec : k[1] # msg.ec[1]}
    /\ used' = IF msg.kem = NoKey THEN used ELSE used \cup {msg.kem[1]}
    /\ Goto(m, "count")
    /\ UNCHANGED <<kem, srvEC, srvKEM, acctVars, workVars, envVars>>

\* decryptPreKey fails: no such key, or another one under its id.
DecryptFails(m, msg) ==
    /\ pc[m] = "idle"
    /\ ~Held(msg)
    /\ inflight' = inflight \ {msg}
    /\ UNCHANGED <<storeVars, srvEC, srvKEM, acctVars, workVars, pc, envVars>>

\* MaybeTopUp: both pools are large enough.
CountEnough(m) ==
    /\ pc[m] = "count"
    /\ Cardinality(ec) >= MinAvailable
    /\ Cardinality(UnusedKyber) >= MinAvailable
    /\ Goto(m, "idle")
    /\ UNCHANGED <<storeVars, srvVars, acctVars, workVars, envVars>>

\* MaybeTopUp: either pool is low; the account's next ids are read.
CountLow(m) ==
    /\ pc[m] = "count"
    /\ \/ Cardinality(ec) < MinAvailable
       \/ Cardinality(UnusedKyber) < MinAvailable
    /\ base' = [base EXCEPT ![m] = next]
    /\ Goto(m, "generate")
    /\ UNCHANGED <<storeVars, srvVars, acctVars, gen, tag, envVars>>

\* GenerateOneTimePreKeys validates the EC ids; the Kyber batch is generated
\* without a check of its own.
Generate(m) ==
    /\ pc[m] = "generate"
    /\ ValidIDs(base[m].ec, TopUpBatch)
    /\ gen < MaxGen
    /\ gen' = gen + 1
    /\ tag' = [tag EXCEPT ![m] = gen + 1]
    /\ Goto(m, "persistEC")
    /\ UNCHANGED <<storeVars, srvVars, acctVars, base, envVars>>

\* The ids are used up: the error ends the top-up, and every later one.
OutOfIDs(m) ==
    /\ pc[m] = "generate"
    /\ ~ValidIDs(base[m].ec, TopUpBatch)
    /\ Goto(m, "idle")
    /\ UNCHANGED <<storeVars, srvVars, acctVars, workVars, envVars>>

\* Mutant of PersistEC: as with a nil SignalStores, nothing is stored.
PersistECSkipped(m) ==
    /\ pc[m] = "persistEC"
    /\ Goto(m, "persistKEM")
    /\ UNCHANGED <<storeVars, srvVars, acctVars, workVars, envVars>>

\* PersistOneTimePreKeys: the EC keys first.
PersistEC(m) ==
    /\ pc[m] = "persistEC"
    /\ ec' = Store(ec, ECBatch(m))
    /\ Goto(m, "persistKEM")
    /\ UNCHANGED <<kem, used, srvVars, acctVars, workVars, envVars>>

\* Mutant of PersistKEM: only the EC keys are persisted before the upload.
PersistKEMSkipped(m) ==
    /\ pc[m] = "persistKEM"
    /\ Goto(m, "upload")
    /\ UNCHANGED <<storeVars, srvVars, acctVars, workVars, envVars>>

\* ... then the Kyber keys, each stored as unused.
PersistKEM(m) ==
    /\ pc[m] = "persistKEM"
    /\ kem' = Store(kem, KEMBatch(m))
    /\ used' = used \ {k[1] : k \in KEMBatch(m)}
    /\ Goto(m, "upload")
    /\ UNCHANGED <<ec, srvVars, acctVars, workVars, envVars>>

\* A StorePreKey fails after some of the batch: the top-up ends there.
PersistECFails(m) ==
    /\ pc[m] = "persistEC"
    /\ faults < MaxFaults
    /\ faults' = faults + 1
    /\ \E n \in 0..(TopUpBatch - 1) :
         ec' = Store(ec, Batch(base[m].ec, n, tag[m]))
    /\ Goto(m, "idle")
    /\ UNCHANGED <<kem, used, srvVars, acctVars, workVars, lost, crashes>>

\* The same in the loop over the Kyber keys.
PersistKEMFails(m) ==
    /\ pc[m] = "persistKEM"
    /\ faults < MaxFaults
    /\ faults' = faults + 1
    /\ \E n \in 0..(TopUpBatch - 1) :
         LET stored == Batch(base[m].kem, n, tag[m]) IN
         /\ kem' = Store(kem, stored)
         /\ used' = used \ {k[1] : k \in stored}
    /\ Goto(m, "idle")
    /\ UNCHANGED <<ec, srvVars, acctVars, workVars, lost, crashes>>

\* PUT /v2/keys as the server applies it.
Publish(m) ==
    /\ srvEC' = Store(srvEC, ECBatch(m))
    /\ srvKEM' = Store(srvKEM, KEMBatch(m))
    /\ UNCHANGED inflight

\* The upload succeeds.
Upload(m) ==
    /\ pc[m] = "upload"
    /\ Publish(m)
    /\ Goto(m, "advanceEC")
    /\ UNCHANGED <<storeVars, acctVars, workVars, envVars>>

\* The request never reaches the server, or is refused.
UploadFails(m) ==
    /\ pc[m] = "upload"
    /\ faults < MaxFaults
    /\ faults' = faults + 1
    /\ Goto(m, "idle")
    /\ UNCHANGED <<storeVars, srvVars, acctVars, workVars, lost, crashes>>

\* The server applies the request, and the client sees an error.
UploadLost(m) ==
    /\ pc[m] = "upload"
    /\ lost < MaxLost
    /\ lost' = lost + 1
    /\ Publish(m)
    /\ Goto(m, "idle")
    /\ UNCHANGED <<storeVars, acctVars, workVars, faults, crashes>>

\* Mutant of AdvanceEC: the new next id is not written back.
AdvanceECForgotten(m) ==
    /\ pc[m] = "advanceEC"
    /\ Goto(m, "advanceKEM")
    /\ UNCHANGED <<storeVars, srvVars, acctVars, workVars, envVars>>

\* acct.ACIIdentity.NextPreKeyID = upload.NextPreKeyID
AdvanceEC(m) ==
    /\ pc[m] = "advanceEC"
    /\ next' = [next EXCEPT !.ec = base[m].ec + TopUpBatch]
    /\ Goto(m, "advanceKEM")
    /\ UNCHANGED <<storeVars, srvVars, saved, workVars, envVars>>

\* acct.ACIIdentity.NextKyberPreKeyID = upload.NextKyberPreKeyID
AdvanceKEM(m) ==
    /\ pc[m] = "advanceKEM"
    /\ next' = [next EXCEPT !.kem = base[m].kem + TopUpBatch]
    /\ Goto(m, "save")
    /\ UNCHANGED <<storeVars, srvVars, saved, workVars, envVars>>

\* SaveAccount.
Save(m) ==
    /\ pc[m] = "save"
    /\ saved' = next
    /\ Goto(m, "idle")
    /\ UNCHANGED <<storeVars, srvVars, next, workVars, envVars>>

\* SaveAccount fails: the account in memory stays ahead of the stored one.
SaveFails(m) ==
    /\ pc[m] = "save"
    /\ faults < MaxFaults
    /\ faults' = faults + 1
    /\ Goto(m, "idle")
    /\ UNCHANGED <<storeVars, srvVars, acctVars, workVars, lost, crashes>>

\* The process stops and Open loads the stored account.
Crash ==
    /\ crashes < MaxCrashes
    /\ crashes' = crashes + 1
    /\ next' = saved
    /\ pc' = [m \in Maintainers |-> "idle"]
    /\ UNCHANGED <<storeVars, srvVars, saved, workVars, faults, lost>>

----------------------------------------------------------------------------
MaybeTopUp(m) ==
    \/ CountEnough(m) \/ CountLow(m)
    \/ Generate(m) \/ OutOfIDs(m)
    \/ PersistEC(m) \/ PersistKEM(m)
    \/ Upload(m)
    \/ AdvanceEC(m) \/ AdvanceKEM(m) \/ Save(m)

Failure(m) ==
    \/ PersistECFails(m) \/ PersistKEMFails(m)
    \/ UploadFails(m) \/ UploadLost(m) \/ SaveFails(m)

Receive(m, msg) == DecryptPreKey(m, msg) \/ DecryptFails(m, msg)

PreKeyNext ==
    \/ HandOut
    \/ Crash
    \/ \E m \in Maintainers : MaybeTopUp(m) \/ Failure(m)
    \/ \E m \in Maintainers, msg \in inflight : Receive(m, msg)

PreKeySpec == PreKeyInit /\ [][PreKeyNext]_preKeyVars

\* A message that uses a one-time key is delivered.
Delivery == \E m \in Maintainers, msg \in inflight :
                msg.ec # NoKey /\ Receive(m, msg)

\* A goroutine that runs goes on; a message under way is delivered, however
\* many last-resort messages overtake it.
PreKeyFairSpec ==
    /\ PreKeySpec
    /\ \A m \in Maintainers : WF_preKeyVars(MaybeTopUp(m))
    /\ SF_preKeyVars(Delivery)

----------------------------------------------------------------------------
\* Keys of a bundle the server handed out can be found when its message
\* arrives: DecryptPreKeySignalMessage does not fail for want of the key.
HandedOutDecryptable == \A msg \in inflight : Held(msg)

\* No answer of an upload was lost and the process has not crashed; and, for
\* Smooth, nothing failed at all.
Intact == lost = 0 /\ crashes = 0
Smooth == Intact /\ faults = 0

\* Every key the server has or handed out is in the local store, under its
\* id and not replaced by a later batch: UploadOneTimeBatch persists what it
\* uploads, and no id is used twice, whatever store errors and refused uploads
\* there were.
PublishedDecryptable ==
    Intact => /\ srvEC \subseteq ec
              /\ srvKEM \subseteq kem
              /\ HandedOutDecryptable

\* A Kyber id the server has or handed out is in the local store, if perhaps
\* with the key of another batch: through overlapping top-ups, lost answers
\* and crashes too, a batch is persisted before it is uploaded.
PublishedHasRow ==
    \A k \in (srvKEM \cup {msg.kem : msg \in inflight}) \ {NoKey} :
        \E j \in kem : j[1] = k[1]

\* Kyber ids stay in prekeys.MaxID although only the EC ids are validated:
\* the two counters of the account never part.
KyberIDsValid == \A k \in kem \cup srvKEM : k[1] \in 1..MaxID

\* "inventory counts stay accurate": between top-ups, while nothing failed,
\* the keys MaybeTopUp counts are the keys peers can use.
InventoryAccurate ==
    Smooth /\ (\A m \in Maintainers : pc[m] = "idle") =>
        /\ ec = (srvEC \cup {msg.ec : msg \in inflight}) \ {NoKey}
        /\ UnusedKyber = (srvKEM \cup {msg.kem : msg \in inflight}) \ {NoKey}

\* When the server has run out of one-time keys, the messages that used them
\* lead to an upload, unless the ids are used up.
ServerReplenished ==
    srvEC = {} ~> (srvEC # {} \/ ~ValidIDs(next.ec, TopUpBatch))

\* The same as long as nothing fails.
SmoothlyReplenished ==
    srvEC = {} ~> (srvEC # {} \/ ~ValidIDs(next.ec, TopUpBatch) \/ ~Smooth)
============================================================================
