--------------------------- MODULE SendPipeline ---------------------------
(***************************************************************************)
(* pkg/signal/send.go: sendContent for one recipient, called concurrently. *)
(* It discovers the recipient's devices, makes sure each has a session,    *)
(* encrypts for each and PUTs; a 409 or 410 answer is repaired and the PUT *)
(* retried once.  Basic-auth and sealed delivery take the same steps.      *)
(*                                                                         *)
(* A session or a prekey bundle is the registration id it was made for, 0  *)
(* for none; the server's registrations are reg.                           *)
(***************************************************************************)
EXTENDS Integers

CONSTANTS Sends,       \* callers; each calls Send again and again
          Devices,     \* device ids the recipient may ever have
          Primary,     \* the device it always has
          MaxReg,      \* registration ids are 1..MaxReg
          MaxChanges,  \* bound: changes of the recipient's devices
          MaxFaults,   \* bound: failed requests and store errors
          NoDevice     \* no device in hand

ASSUME SendAssumption ==
    /\ Primary \in Devices
    /\ NoDevice \notin Devices
    /\ MaxReg \in Nat \ {0}
    /\ MaxChanges \in Nat
    /\ MaxFaults \in Nat

VARIABLES
    reg,           \* server: registration id of each active device
    changes, faults,
    knownDevices,  \* Client.knownDevices[recipient]
    session,       \* the session store, by device
    cooling,       \* Client.keysRateLimit[recipient] lies in the future
    retryAfter,    \* the cooldown the last 429 set has not run out
    pc,            \* program counter of each Send
    addrs,         \* its device addresses
    todo,          \* devices its current loop has still to visit
    cur,           \* the device it is establishing a session with
    fetching,      \* its GET /v2/keys is on its way
    offer,         \* devices in the answer to GET /v2/keys/{aci}/*
    bundle,        \* the prekey bundle in hand
    missing,       \* missingDevices of the 409
    cipher,        \* registration id each envelope is encrypted for
    puts,          \* PUTs of this Send
    accepted       \* how many of them the server delivered

serverVars == <<reg, changes>>
limitVars == <<cooling, retryAfter>>
bundleVars == <<cur, fetching, offer, bundle>>
countVars == <<puts, accepted>>
localVars == <<addrs, todo, bundleVars, missing, cipher, countVars>>
sendVars == <<serverVars, faults, knownDevices, session, limitVars, pc, localVars>>

Reg == 0..MaxReg

\* A value knownDevices has before the first discovery only.
Nil == {NoDevice}

Active == {d \in Devices : reg[d] # 0}
Registrations == [Devices -> Reg]

\* The loops that establish sessions.
Establishing == {"install", "ensure", "missing", "stale"}

\* The types of the variables: knownDevices is nil only before the first
\* discovery, and no Send takes the nil for a device list.
SendTypeOK ==
    /\ reg \in Registrations
    /\ changes \in 0..MaxChanges
    /\ faults \in 0..MaxFaults
    /\ knownDevices \in {Nil} \cup SUBSET Devices
    /\ session \in Registrations
    /\ cooling \in BOOLEAN
    /\ retryAfter \in BOOLEAN
    /\ pc \in [Sends -> {"idle", "discover", "encrypt", "extra", "ok", "failed"}
                         \cup Establishing]
    /\ addrs \in [Sends -> SUBSET Devices]
    /\ todo \in [Sends -> SUBSET Devices]
    /\ cur \in [Sends -> Devices \cup {NoDevice}]
    /\ fetching \in [Sends -> BOOLEAN]
    /\ offer \in [Sends -> Registrations]
    /\ bundle \in [Sends -> Reg]
    /\ missing \in [Sends -> SUBSET Devices]
    /\ cipher \in [Sends -> Registrations]
    /\ puts \in [Sends -> Nat]
    /\ accepted \in [Sends -> Nat]

NoReg == [d \in Devices |-> 0]

\* After a restart the cache is empty; sessions may have been kept.
SendInit ==
    /\ reg \in {r \in [Devices -> {0, 1}] : r[Primary] = 1}
    /\ session \in [Devices -> {0, 1}]
    /\ knownDevices = Nil
    /\ changes = 0
    /\ faults = 0
    /\ cooling = FALSE
    /\ retryAfter = FALSE
    /\ pc = [s \in Sends |-> "idle"]
    /\ addrs = [s \in Sends |-> {}]
    /\ todo = [s \in Sends |-> {}]
    /\ cur = [s \in Sends |-> NoDevice]
    /\ fetching = [s \in Sends |-> FALSE]
    /\ offer = [s \in Sends |-> NoReg]
    /\ bundle = [s \in Sends |-> 0]
    /\ missing = [s \in Sends |-> {}]
    /\ cipher = [s \in Sends |-> NoReg]
    /\ puts = [s \in Sends |-> 0]
    /\ accepted = [s \in Sends |-> 0]

Goto(s, label) == pc' = [pc EXCEPT ![s] = label]

\* Any error return of sendContent.
Fail(s) ==
    /\ Goto(s, "failed")
    /\ fetching' = [fetching EXCEPT ![s] = FALSE]

-----------------------------------------------------------------------------
(* discoverAndEnsureSessions *)

\* The read of knownDevices, under the lock.
Start(s) ==
    /\ pc[s] = "idle"
    /\ puts' = [puts EXCEPT ![s] = 0]
    /\ accepted' = [accepted EXCEPT ![s] = 0]
    /\ cur' = [cur EXCEPT ![s] = NoDevice]
    /\ bundle' = [bundle EXCEPT ![s] = 0]
    /\ LET known == IF knownDevices = Nil THEN {} ELSE knownDevices
       IN  /\ addrs' = [addrs EXCEPT ![s] = known]
           /\ todo' = [todo EXCEPT ![s] = known]
    /\ Goto(s, IF knownDevices = Nil THEN "discover" ELSE "ensure")
    /\ UNCHANGED <<serverVars, faults, knownDevices, session, limitVars,
                   fetching, offer, missing, cipher>>

\* The loop over the devices lacking a session, one at a time: this one has
\* one after all.
KeepSession(s, d) ==
    /\ pc[s] \in {"install", "ensure"}
    /\ cur[s] = NoDevice
    /\ d \in todo[s]
    /\ session[d] # 0
    /\ todo' = [todo EXCEPT ![s] = @ \ {d}]
    /\ UNCHANGED <<serverVars, faults, knownDevices, session, limitVars, pc,
                   addrs, bundleVars, missing, cipher, countVars>>

\* LoadSession finds none; the first discovery has the bundle already.
NeedSession(s, d) ==
    /\ pc[s] \in {"install", "ensure", "missing"}
    /\ cur[s] = NoDevice
    /\ d \in todo[s]
    /\ pc[s] # "missing" => session[d] = 0
    /\ cur' = [cur EXCEPT ![s] = d]
    /\ bundle' = [bundle EXCEPT ![s] = IF pc[s] = "install" THEN offer[s][d] ELSE 0]
    /\ UNCHANGED <<serverVars, faults, knownDevices, session, limitVars, pc,
                   addrs, todo, fetching, offer, missing, cipher, countVars>>

\* Every discovered device has a session: cache the ids.
CacheDevices(s) ==
    /\ pc[s] = "install"
    /\ todo[s] = {}
    /\ knownDevices' = addrs[s]
    /\ todo' = [todo EXCEPT ![s] = addrs[s]]
    /\ Goto(s, "encrypt")
    /\ UNCHANGED <<serverVars, faults, session, limitVars, addrs, bundleVars,
                   missing, cipher, countVars>>

\* Every cached device has a session.
Ensured(s) ==
    /\ pc[s] = "ensure"
    /\ todo[s] = {}
    /\ todo' = [todo EXCEPT ![s] = addrs[s]]
    /\ Goto(s, "encrypt")
    /\ UNCHANGED <<serverVars, faults, knownDevices, session, limitVars, addrs,
                   bundleVars, missing, cipher, countVars>>

-----------------------------------------------------------------------------
(* fetchPreKeyBundleDefensive, fetchAndProcessBundle, processBundle *)

WantsBundle(s) ==
    /\ ~fetching[s]
    /\ \/ pc[s] = "discover"
       \/ pc[s] \in Establishing /\ cur[s] # NoDevice /\ bundle[s] = 0

\* keysRateLimitGate turns the request away.
GateRefuses(s) ==
    /\ WantsBundle(s)
    /\ cooling
    /\ Fail(s)
    /\ UNCHANGED <<serverVars, faults, knownDevices, session, limitVars, addrs,
                   todo, cur, offer, bundle, missing, cipher, countVars>>

\* The gate is open and the GET goes out.
Gate(s) ==
    /\ WantsBundle(s)
    /\ ~cooling
    /\ fetching' = [fetching EXCEPT ![s] = TRUE]
    /\ UNCHANGED <<serverVars, faults, knownDevices, session, limitVars, pc,
                   addrs, todo, cur, offer, bundle, missing, cipher, countVars>>

\* The answer to GET /v2/keys/{aci}/*; clearKeysRateLimit.
FetchedAll(s) ==
    /\ pc[s] = "discover"
    /\ fetching[s]
    /\ fetching' = [fetching EXCEPT ![s] = FALSE]
    /\ cooling' = FALSE
    /\ offer' = [offer EXCEPT ![s] = reg]
    /\ addrs' = [addrs EXCEPT ![s] = Active]
    /\ todo' = [todo EXCEPT ![s] = Active]
    /\ Goto(s, "install")
    /\ UNCHANGED <<serverVars, faults, knownDevices, session, retryAfter, cur,
                   bundle, missing, cipher, countVars>>

\* The answer to GET /v2/keys/{aci}/{device}.
FetchedOne(s) ==
    /\ pc[s] \in Establishing
    /\ fetching[s]
    /\ reg[cur[s]] # 0
    /\ fetching' = [fetching EXCEPT ![s] = FALSE]
    /\ cooling' = FALSE
    /\ bundle' = [bundle EXCEPT ![s] = reg[cur[s]]]
    /\ UNCHANGED <<serverVars, faults, knownDevices, session, retryAfter, pc,
                   addrs, todo, cur, offer, missing, cipher, countVars>>

\* 404: the device is gone.
FetchNotFound(s) ==
    /\ pc[s] \in Establishing
    /\ fetching[s]
    /\ reg[cur[s]] = 0
    /\ Fail(s)
    /\ UNCHANGED <<serverVars, faults, knownDevices, session, limitVars, addrs,
                   todo, cur, offer, bundle, missing, cipher, countVars>>

\* 429: setKeysRateLimit.
FetchLimited(s) ==
    /\ fetching[s]
    /\ faults < MaxFaults
    /\ faults' = faults + 1
    /\ cooling' = TRUE
    /\ retryAfter' = TRUE
    /\ Fail(s)
    /\ UNCHANGED <<serverVars, knownDevices, session, addrs, todo, cur, offer,
                   bundle, missing, cipher, countVars>>

\* ProcessPreKeyBundle stores a fresh session, whatever is there by now.
Install(s) ==
    /\ pc[s] \in Establishing
    /\ cur[s] # NoDevice
    /\ bundle[s] # 0
    /\ session' = [session EXCEPT ![cur[s]] = bundle[s]]
    /\ todo' = [todo EXCEPT ![s] = @ \ {cur[s]}]
    /\ addrs' = [addrs EXCEPT ![s] = IF pc[s] = "missing" THEN @ \cup {cur[s]} ELSE @]
    /\ cur' = [cur EXCEPT ![s] = NoDevice]
    /\ bundle' = [bundle EXCEPT ![s] = 0]
    /\ UNCHANGED <<serverVars, faults, knownDevices, limitVars, pc, fetching,
                   offer, missing, cipher, countVars>>

-----------------------------------------------------------------------------
(* buildSendRequest and SendMessage *)

\* encryptForDevice; the registration id is read back from the session.
Encrypt(s, d) ==
    /\ pc[s] = "encrypt"
    /\ d \in todo[s]
    /\ session[d] # 0
    /\ cipher' = [cipher EXCEPT ![s][d] = session[d]]
    /\ todo' = [todo EXCEPT ![s] = @ \ {d}]
    /\ UNCHANGED <<serverVars, faults, knownDevices, session, limitVars, pc,
                   addrs, bundleVars, missing, countVars>>

\* Another Send has deleted the session meanwhile.
EncryptFails(s, d) ==
    /\ pc[s] = "encrypt"
    /\ d \in todo[s]
    /\ session[d] = 0
    /\ Fail(s)
    /\ UNCHANGED <<serverVars, faults, knownDevices, session, limitVars, addrs,
                   todo, cur, offer, bundle, missing, cipher, countVars>>

Ready(s) == pc[s] = "encrypt" /\ todo[s] = {}
Stale(s) == {d \in addrs[s] \cap Active : cipher[s][d] # reg[d]}
Matches(s) == addrs[s] = Active /\ Stale(s) = {}

\* 200.
PutAccepted(s) ==
    /\ Ready(s)
    /\ Matches(s)
    /\ puts' = [puts EXCEPT ![s] = @ + 1]
    /\ accepted' = [accepted EXCEPT ![s] = @ + 1]
    /\ Goto(s, "ok")
    /\ UNCHANGED <<serverVars, faults, knownDevices, session, limitVars, addrs,
                   todo, bundleVars, missing, cipher>>

\* Mutant: any error is retried.
PutLostRetried(s) ==
    /\ Ready(s)
    /\ Matches(s)
    /\ faults < MaxFaults
    /\ faults' = faults + 1
    /\ puts' = [puts EXCEPT ![s] = @ + 1]
    /\ accepted' = [accepted EXCEPT ![s] = @ + 1]
    /\ todo' = [todo EXCEPT ![s] = addrs[s]]
    /\ UNCHANGED <<serverVars, knownDevices, session, limitVars, pc, addrs,
                   bundleVars, missing, cipher>>

\* The server delivers but its answer is lost: an error that is not retried.
PutLost(s) ==
    /\ Ready(s)
    /\ Matches(s)
    /\ faults < MaxFaults
    /\ faults' = faults + 1
    /\ puts' = [puts EXCEPT ![s] = @ + 1]
    /\ accepted' = [accepted EXCEPT ![s] = @ + 1]
    /\ Fail(s)
    /\ UNCHANGED <<serverVars, knownDevices, session, limitVars, addrs, todo,
                   cur, offer, bundle, missing, cipher>>

\* 409 to the first PUT.
PutMismatched(s) ==
    /\ Ready(s)
    /\ puts[s] = 0
    /\ addrs[s] # Active
    /\ puts' = [puts EXCEPT ![s] = @ + 1]
    /\ missing' = [missing EXCEPT ![s] = Active \ addrs[s]]
    /\ todo' = [todo EXCEPT ![s] = addrs[s] \ Active]
    /\ Goto(s, "extra")
    /\ UNCHANGED <<serverVars, faults, knownDevices, session, limitVars, addrs,
                   bundleVars, cipher, accepted>>

\* 410 to the first PUT.
PutStale(s) ==
    /\ Ready(s)
    /\ puts[s] = 0
    /\ addrs[s] = Active
    /\ Stale(s) # {}
    /\ puts' = [puts EXCEPT ![s] = @ + 1]
    /\ todo' = [todo EXCEPT ![s] = Stale(s)]
    /\ Goto(s, "stale")
    /\ UNCHANGED <<serverVars, faults, knownDevices, session, limitVars, addrs,
                   bundleVars, missing, cipher, accepted>>

\* 409 or 410 to the second PUT is returned to the caller.
PutRefusedAgain(s) ==
    /\ Ready(s)
    /\ puts[s] = 1
    /\ ~Matches(s)
    /\ puts' = [puts EXCEPT ![s] = @ + 1]
    /\ Fail(s)
    /\ UNCHANGED <<serverVars, faults, knownDevices, session, limitVars, addrs,
                   todo, cur, offer, bundle, missing, cipher, accepted>>

-----------------------------------------------------------------------------
(* handleSendError *)

\* 409: DeleteSession of an extra device.
DropExtra(s, d) ==
    /\ pc[s] = "extra"
    /\ d \in todo[s]
    /\ session' = [session EXCEPT ![d] = 0]
    /\ addrs' = [addrs EXCEPT ![s] = @ \ {d}]
    /\ todo' = [todo EXCEPT ![s] = @ \ {d}]
    /\ UNCHANGED <<serverVars, faults, knownDevices, limitVars, pc, bundleVars,
                   missing, cipher, countVars>>

\* Mutant: a 409 does not add the missing devices.
MissingIgnored(s) ==
    /\ pc[s] = "extra"
    /\ todo[s] = {}
    /\ Goto(s, "missing")
    /\ UNCHANGED <<serverVars, faults, knownDevices, session, limitVars, addrs,
                   todo, bundleVars, missing, cipher, countVars>>

ExtraDropped(s) ==
    /\ pc[s] = "extra"
    /\ todo[s] = {}
    /\ todo' = [todo EXCEPT ![s] = missing[s]]
    /\ Goto(s, "missing")
    /\ UNCHANGED <<serverVars, faults, knownDevices, session, limitVars, addrs,
                   bundleVars, missing, cipher, countVars>>

\* 409, last step: knownDevices, and the request is built again.
UpdateCache(s) ==
    /\ pc[s] = "missing"
    /\ todo[s] = {}
    /\ knownDevices' = addrs[s]
    /\ todo' = [todo EXCEPT ![s] = addrs[s]]
    /\ Goto(s, "encrypt")
    /\ UNCHANGED <<serverVars, faults, session, limitVars, addrs, bundleVars,
                   missing, cipher, countVars>>

\* 410: DeleteSession of a stale device, then its new bundle.
DropStale(s, d) ==
    /\ pc[s] = "stale"
    /\ cur[s] = NoDevice
    /\ d \in todo[s]
    /\ session' = [session EXCEPT ![d] = 0]
    /\ cur' = [cur EXCEPT ![s] = d]
    /\ UNCHANGED <<serverVars, faults, knownDevices, limitVars, pc, addrs, todo,
                   fetching, offer, bundle, missing, cipher, countVars>>

StaleRenewed(s) ==
    /\ pc[s] = "stale"
    /\ todo[s] = {}
    /\ todo' = [todo EXCEPT ![s] = addrs[s]]
    /\ Goto(s, "encrypt")
    /\ UNCHANGED <<serverVars, faults, knownDevices, session, limitVars, addrs,
                   bundleVars, missing, cipher, countVars>>

-----------------------------------------------------------------------------
(* Errors, the caller, and the environment *)

\* The operation at hand, a request, a store access or a libsignal call,
\* returns an error.
Fault(s) ==
    /\ \/ pc[s] \in {"discover", "encrypt"}
       \/ pc[s] \in Establishing \cup {"extra"} /\ todo[s] # {}
    /\ faults < MaxFaults
    /\ faults' = faults + 1
    /\ Fail(s)
    /\ UNCHANGED <<serverVars, knownDevices, session, limitVars, addrs, todo,
                   cur, offer, bundle, missing, cipher, countVars>>

\* The caller sends the next message, or the same one again.
Again(s) ==
    /\ pc[s] \in {"ok", "failed"}
    /\ Goto(s, "idle")
    /\ UNCHANGED <<serverVars, faults, knownDevices, session, limitVars,
                   localVars>>

\* The cooldown, capped by maxKeysRateLimitBackoff, runs out.
CooldownOver ==
    /\ retryAfter
    /\ retryAfter' = FALSE
    /\ cooling' = FALSE
    /\ UNCHANGED <<serverVars, faults, knownDevices, session, pc, localVars>>

\* The recipient links, relinks or unlinks a device.
DeviceChange(d, r) ==
    /\ changes < MaxChanges
    /\ r # reg[d]
    /\ d = Primary => r # 0
    /\ reg' = [reg EXCEPT ![d] = r]
    /\ changes' = changes + 1
    /\ UNCHANGED <<faults, knownDevices, session, limitVars, pc, localVars>>

-----------------------------------------------------------------------------
Discovery(s) ==
    \/ Start(s) \/ CacheDevices(s) \/ Ensured(s)
    \/ \E d \in Devices : KeepSession(s, d) \/ NeedSession(s, d)

Fetching(s) ==
    \/ GateRefuses(s) \/ Gate(s) \/ FetchedAll(s) \/ FetchedOne(s)
    \/ FetchNotFound(s) \/ Install(s)

Delivery(s) ==
    \/ PutAccepted(s) \/ PutMismatched(s) \/ PutStale(s) \/ PutRefusedAgain(s)
    \/ \E d \in Devices : Encrypt(s, d) \/ EncryptFails(s, d)

Repair(s) ==
    \/ ExtraDropped(s) \/ UpdateCache(s) \/ StaleRenewed(s)
    \/ \E d \in Devices : DropExtra(s, d) \/ DropStale(s, d)

Progress(s) == Discovery(s) \/ Fetching(s) \/ Delivery(s) \/ Repair(s) \/ Again(s)

Trouble(s) == FetchLimited(s) \/ PutLost(s) \/ Fault(s)

SendNext ==
    \/ \E s \in Sends : Progress(s) \/ Trouble(s)
    \/ \E d \in Devices, r \in Reg : DeviceChange(d, r)
    \/ CooldownOver

SendSpec == SendInit /\ [][SendNext]_sendVars

\* Calls proceed, requests are answered, callers try again, time passes.
SendFairSpec ==
    /\ SendSpec
    /\ \A s \in Sends : WF_sendVars(Progress(s))
    /\ WF_sendVars(CooldownOver)

-----------------------------------------------------------------------------
(* Properties *)

\* A Send delivers its message at most once: only a PUT the server refused is
\* repeated, "retries once", and a Send that succeeds has delivered.
DeliveredOnce ==
    \A s \in Sends : /\ accepted[s] <= 1
                     /\ pc[s] = "ok" => accepted[s] = 1
                     /\ accepted[s] = 1 => pc[s] \in {"ok", "failed", "idle"}

\* "At-most-one retry bounds the worst-case number of PUTs to 2."
PutsBounded == \A s \in Sends : puts[s] <= 2

\* The cache lists a device that is gone and has no session: every Send stops
\* at the 404 for its bundle, before the PUT that would repair the cache.
DeadEnd ==
    \E d \in Devices \ Active : knownDevices # Nil /\ d \in knownDevices /\ session[d] = 0

\* A caller that keeps sending succeeds again and again, unless the cache is
\* left in that dead end for good: nothing else a change of devices, a fault, a
\* cooldown or another caller does keeps it from succeeding.
RecoversOrDeadEnd ==
    \A s \in Sends : []<>(pc[s] = "ok") \/ <>[]DeadEnd

\* A caller that keeps sending succeeds, whatever the recipient's devices have
\* become: "Send transparently refreshes the affected sessions".
SendRecovers == \A s \in Sends : pc[s] # "ok" ~> pc[s] = "ok"

\* keysRateLimit is the "next allowed /v2/keys fetch time": no GET goes out
\* before the cooldown the last 429 set has run out.
CooldownRespected ==
    [][\A s \in Sends : fetching'[s] /\ ~fetching[s] => ~retryAfter]_sendVars

-----------------------------------------------------------------------------
(* The inductive invariant behind DeliveredOnce and PutsBounded *)

\* Where in a Send how many PUTs have been made.
PutsCounted ==
    \A s \in Sends :
        /\ pc[s] \in {"discover", "install", "ensure"} => puts[s] = 0
        /\ pc[s] \in {"extra", "missing", "stale"} => puts[s] = 1
        /\ pc[s] = "encrypt" => puts[s] <= 1
        /\ pc[s] \notin {"ok", "failed", "idle"} => accepted[s] = 0

\* The device in hand is one the loop has still to visit, and a bundle request
\* on its way is for it.
DeviceInHand ==
    \A s \in Sends :
        /\ pc[s] \in {"discover", "encrypt", "extra"} => cur[s] = NoDevice
        /\ pc[s] = "discover" => bundle[s] = 0
        /\ pc[s] \in Establishing => cur[s] \in todo[s] \cup {NoDevice}
        /\ fetching[s] => /\ bundle[s] = 0
                          /\ pc[s] = "discover" \/ (pc[s] \in Establishing /\ cur[s] # NoDevice)

SendInv == SendTypeOK /\ PutsCounted /\ DeviceInHand /\ PutsBounded /\ DeliveredOnce
=============================================================================
