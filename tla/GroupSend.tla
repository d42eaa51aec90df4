----------------------------- MODULE GroupSend -----------------------------
(***************************************************************************)
(* pkg/signal/group_send.go, group_control.go, group_endorsement.go over   *)
(* libsignal's sender keys: SendGroup and the other group deliveries.  A   *)
(* delivery fetches the group (GroupSync), distributes the sender key to   *)
(* every member one by one, encrypts with the next iteration of the chain, *)
(* chooses its authorisation and PUTs one multi-recipient message.         *)
(*                                                                         *)
(* A sender-key message, and a distribution message, is a chain and an     *)
(* iteration; who holds <<c, i>> decrypts <<c, j>> for j >= i.             *)
(***************************************************************************)
EXTENDS GroupSync

CONSTANTS MaxChain,  \* bound: sender-key chains ever made
          MaxIter,   \* bound: messages on a chain
          MaxDist    \* bound: distribution ids ever made

ASSUME GroupSendAssumption ==
    MaxChain \in Nat /\ MaxIter \in Nat /\ MaxDist \in Nat

VARIABLES
    groupDistID,  \* Client.groupDistID, 0 when absent
    distStore,    \* GroupDistributionStore, 0 when absent
    senderKeys,   \* SenderKeyStore: the chain and next iteration of each id
    chains,       \* chains made
    knownUAKs,    \* members whose access key is known
    holds,        \* what each member can decrypt from
    sent,         \* messages the service accepted
    dist,         \* distribution id of each call
    record,       \* the sender-key record it loaded
    skdm,         \* the distribution message it made
    todo,         \* members it has still to send skdm to
    msg,          \* the message it encrypted
    auth          \* how it authorises the PUT

keyVars == <<groupDistID, distStore, senderKeys, chains>>
deliveryVars == <<dist, record, skdm, todo, msg, auth>>
sendVars == <<keyVars, knownUAKs, holds, sent, deliveryVars>>
groupSendVars == <<groupVars, sendVars>>

NoRecord == <<0, 0>>
Records == (0..MaxChain) \X (0..MaxIter)
Others(g) == Members(g) \ {Self}

SendKinds == {"send", "notify"}
SendLabels == {"dist", "skdm", "skdmStore", "fanout", "encrypt", "encryptStore",
               "recipients", "put"}

\* The types of the variables; a PUT carries an authorisation.
GroupSendTypeOK ==
    /\ GroupTypeOK
    /\ pc \in [Calls -> SyncLabels \cup SendLabels]
    /\ kind \in [Calls -> SyncKinds \cup SendKinds]
    /\ then \in [Calls -> {"done", "dist"}]
    /\ groupDistID \in 0..MaxDist
    /\ distStore \in 0..MaxDist
    /\ senderKeys \in [1..MaxDist -> Records]
    /\ chains \in 0..MaxChain
    /\ knownUAKs \in SUBSET ACIs
    /\ holds \in [ACIs -> SUBSET Records]
    /\ \A m \in sent : m.key \in Records /\ m.to \in SUBSET ACIs
    /\ dist \in [Calls -> 0..MaxDist]
    /\ record \in [Calls -> Records]
    /\ skdm \in [Calls -> Records]
    /\ todo \in [Calls -> SUBSET ACIs]
    /\ msg \in [Calls -> Records]
    /\ auth \in [Calls -> {"none", "token", "uak"}]
    /\ \A s \in Calls : pc[s] = "put" => auth[s] # "none"

GroupSendInit ==
    /\ \E absent \in SUBSET (ACIs \ {Self}) :
         GroupInit([a \in ACIs |-> IF a \in absent THEN "none" ELSE "default"])
    /\ snapshots = FALSE
    /\ groupDistID = 0
    /\ distStore = 0
    /\ senderKeys = [d \in 1..MaxDist |-> NoRecord]
    /\ chains = 0
    /\ knownUAKs \in {{}, ACIs}
    /\ holds = [a \in ACIs |-> {}]
    /\ sent = {}
    /\ dist = [s \in Calls |-> 0]
    /\ record = [s \in Calls |-> NoRecord]
    /\ skdm = [s \in Calls |-> NoRecord]
    /\ todo = [s \in Calls |-> {}]
    /\ msg = [s \in Calls |-> NoRecord]
    /\ auth = [s \in Calls |-> "none"]

\* What no step of a delivery after FetchGroup changes.
fixedVars == <<serviceVars, advertised, groupRevision, expireTimer, kind, then,
               pageVars, got, began, knownUAKs>>

-----------------------------------------------------------------------------
(* SendGroup, SendGroupReaction and SendGroupTyping distribute the sender  *)
(* key; the notification of a group change (GroupChange) does not.         *)

StartDelivery(s, k) ==
    /\ Begin(s, k, "fetch", "dist")
    /\ UNCHANGED <<serviceVars, advertised, faults, cacheVars, pageVars, got,
                   began, sendVars>>

SendGroup(s) == StartDelivery(s, "send")

sendGroupContent(s) == StartDelivery(s, "notify")

\* groupDistributionID, under its lock: from memory, from the store, or a
\* new one; failing to persist it is only logged.
groupDistributionID(s) ==
    /\ pc[s] = "dist"
    /\ LET known == IF groupDistID # 0 THEN groupDistID ELSE distStore
           used == {d \in 1..MaxDist : d = groupDistID \/ d = distStore
                                       \/ senderKeys[d] # NoRecord}
       IN  IF known # 0
           THEN /\ groupDistID' = known
                /\ dist' = [dist EXCEPT ![s] = known]
                /\ UNCHANGED distStore
           ELSE \E d \in 1..MaxDist :
                  /\ d \notin used
                  /\ groupDistID' = d
                  /\ dist' = [dist EXCEPT ![s] = d]
                  /\ distStore' \in {d, distStore}
    /\ Goto(s, IF kind[s] = "send" THEN "skdm" ELSE "encrypt")
    /\ UNCHANGED <<fixedVars, endorsed, faults, senderKeys, chains, holds, sent,
                   record, skdm, todo, msg, auth>>

\* CreateSenderKeyDistributionMessage: libsignal loads the record, and
\* stores a new one when there is none; no lock is held between.
LoadForSKDM(s) ==
    /\ pc[s] = "skdm"
    /\ record' = [record EXCEPT ![s] = senderKeys[dist[s]]]
    /\ Goto(s, "skdmStore")
    /\ UNCHANGED <<fixedVars, endorsed, faults, keyVars, holds, sent, dist,
                   skdm, todo, msg, auth>>

CreateSenderKeyDistributionMessage(s) ==
    /\ pc[s] = "skdmStore"
    /\ IF record[s] # NoRecord
       THEN /\ skdm' = [skdm EXCEPT ![s] = record[s]]
            /\ UNCHANGED <<senderKeys, chains>>
       ELSE /\ chains < MaxChain
            /\ chains' = chains + 1
            /\ skdm' = [skdm EXCEPT ![s] = <<chains + 1, 0>>]
            /\ senderKeys' = [senderKeys EXCEPT ![dist[s]] = <<chains + 1, 0>>]
    /\ todo' = [todo EXCEPT ![s] = Others(hist[got[s]])]
    /\ Goto(s, "fanout")
    /\ UNCHANGED <<fixedVars, endorsed, faults, groupDistID, distStore, holds,
                   sent, dist, record, msg, auth>>

\* distributeSenderKeyToMembers: one 1:1 message after the other; the first
\* that fails ends the call.
sendSenderKeyDistribution(s, a) ==
    /\ pc[s] = "fanout"
    /\ a \in todo[s]
    /\ todo' = [todo EXCEPT ![s] = @ \ {a}]
    /\ holds' = [holds EXCEPT ![a] = @ \cup {skdm[s]}]
    /\ UNCHANGED <<fixedVars, pc, endorsed, faults, keyVars, sent, dist, record,
                   skdm, msg, auth>>

\* Mutant: the fan-out goes on when a member cannot be reached.
DistributedAnyway(s) ==
    /\ pc[s] = "fanout"
    /\ Goto(s, "encrypt")
    /\ UNCHANGED <<fixedVars, endorsed, faults, keyVars, holds, sent, dist,
                   record, skdm, todo, msg, auth>>

distributeSenderKeyToMembers(s) ==
    /\ pc[s] = "fanout"
    /\ todo[s] = {}
    /\ Goto(s, "encrypt")
    /\ UNCHANGED <<fixedVars, endorsed, faults, keyVars, holds, sent, dist,
                   record, skdm, todo, msg, auth>>

\* GroupEncryptMessage: load the record, store it one iteration on.
LoadForEncrypt(s) ==
    /\ pc[s] = "encrypt"
    /\ record' = [record EXCEPT ![s] = senderKeys[dist[s]]]
    /\ Goto(s, IF senderKeys[dist[s]] = NoRecord THEN "failed" ELSE "encryptStore")
    /\ UNCHANGED <<fixedVars, endorsed, faults, keyVars, holds, sent, dist,
                   skdm, todo, msg, auth>>

\* Mutant: the ratchet is stored only after the message went out, so that it
\* is lost with a failed PUT or a restart.
EncryptWithoutStore(s) ==
    /\ pc[s] = "encryptStore"
    /\ record[s][2] < MaxIter
    /\ msg' = [msg EXCEPT ![s] = record[s]]
    /\ Goto(s, "recipients")
    /\ UNCHANGED <<fixedVars, endorsed, faults, keyVars, holds, sent, dist,
                   record, skdm, todo, auth>>

GroupEncryptMessage(s) ==
    /\ pc[s] = "encryptStore"
    /\ record[s][2] < MaxIter
    /\ msg' = [msg EXCEPT ![s] = record[s]]
    /\ senderKeys' = [senderKeys EXCEPT ![dist[s]] = <<record[s][1], record[s][2] + 1>>]
    /\ Goto(s, "recipients")
    /\ UNCHANGED <<fixedVars, endorsed, faults, groupDistID, distStore, chains,
                   holds, sent, dist, record, skdm, todo, auth>>

\* groupSendTokenForRecipients: an endorsement for each recipient.
groupSendTokenForRecipients(s) == Others(hist[got[s]]) \subseteq endorsed

\* combinedMemberUAKs: an access key for each.
combinedMemberUAKs(s) == Others(hist[got[s]]) \subseteq knownUAKs

\* buildGroupMultiRecipientPayload after the encryption: the sessions of all
\* members (discovered and established like those of a 1:1 message), then
\* the token, else the combined key, else an error.
buildGroupMultiRecipientPayload(s) ==
    /\ pc[s] = "recipients"
    /\ auth' = [auth EXCEPT ![s] =
                  IF groupSendTokenForRecipients(s) THEN "token"
                  ELSE IF combinedMemberUAKs(s) THEN "uak" ELSE "none"]
    /\ Goto(s, IF Others(hist[got[s]]) # {} /\ auth'[s] # "none" THEN "put" ELSE "failed")
    /\ UNCHANGED <<fixedVars, endorsed, faults, keyVars, holds, sent, dist,
                   record, skdm, todo, msg>>

\* SendMultiRecipientMessage, accepted; the answer may be lost.
SendMultiRecipientMessage(s) ==
    /\ pc[s] = "put"
    /\ sent' = sent \cup {[key |-> msg[s], to |-> Others(hist[got[s]]), kind |-> kind[s]]}
    /\ \/ Goto(s, "done") /\ UNCHANGED faults
       \/ faults < MaxFaults /\ faults' = faults + 1 /\ Goto(s, "failed")
    /\ UNCHANGED <<fixedVars, endorsed, keyVars, holds, deliveryVars>>

\* A store, a request or the encryption fails.
DeliveryFault(s) ==
    /\ pc[s] \in {"skdm", "skdmStore", "fanout", "encrypt", "encryptStore",
                  "recipients", "put"}
    /\ faults < MaxFaults
    /\ faults' = faults + 1
    /\ Goto(s, "failed")
    /\ UNCHANGED <<fixedVars, endorsed, sendVars>>

DeliveryReturn(s) ==
    /\ Return(s)
    /\ dist' = [dist EXCEPT ![s] = 0]
    /\ record' = [record EXCEPT ![s] = NoRecord]
    /\ skdm' = [skdm EXCEPT ![s] = NoRecord]
    /\ todo' = [todo EXCEPT ![s] = {}]
    /\ msg' = [msg EXCEPT ![s] = NoRecord]
    /\ auth' = [auth EXCEPT ![s] = "none"]
    /\ UNCHANGED <<keyVars, knownUAKs, holds, sent>>

-----------------------------------------------------------------------------
\* The endorsements run out.
Expire ==
    /\ endorsed # {}
    /\ endorsed' = {}
    /\ UNCHANGED <<serviceVars, advertised, faults, groupRevision, expireTimer,
                   callVars, sendVars>>

\* LeaveGroup's effect on the sender key: the id is forgotten in memory only;
\* and the process restarting, which ends every call.
ForgetDistributionID ==
    /\ groupDistID # 0
    /\ groupDistID' = 0
    /\ UNCHANGED <<groupVars, distStore, senderKeys, chains, knownUAKs, holds,
                   sent, deliveryVars>>

Restart ==
    /\ \E s \in Calls : pc[s] # "idle"
    /\ faults < MaxFaults
    /\ faults' = faults + 1
    /\ groupDistID' = 0
    /\ groupRevision' = 0
    /\ expireTimer' = 0
    /\ pc' = [s \in Calls |-> "failed"]
    /\ UNCHANGED <<serviceVars, advertised, endorsed, kind, then, pageVars, got,
                   began, distStore, senderKeys, chains, knownUAKs, holds,
                   sent, deliveryVars>>

DeliverySteps(s) ==
    \/ groupDistributionID(s)
    \/ LoadForSKDM(s)
    \/ CreateSenderKeyDistributionMessage(s)
    \/ \E a \in ACIs : sendSenderKeyDistribution(s, a)
    \/ distributeSenderKeyToMembers(s)
    \/ LoadForEncrypt(s)
    \/ GroupEncryptMessage(s)
    \/ buildGroupMultiRecipientPayload(s)
    \/ SendMultiRecipientMessage(s)
    \/ DeliveryReturn(s)

\* Members come and go.
MembershipChanges ==
    {[Now EXCEPT !.role[a] = r] : a \in ACIs \ {Self}, r \in {"none", "default"}}

GroupSendNext ==
    \/ (\E g \in MembershipChanges : OthersChange(g)) /\ UNCHANGED sendVars
    \/ \E s \in Calls : SendGroup(s)
    \/ \E s \in Calls : sendGroupContent(s)
    \/ \E s \in Calls : DeliverySteps(s)
    \/ \E s \in Calls : FetchSteps(s) /\ UNCHANGED sendVars
    \/ \E s \in Calls : Fault(s) /\ UNCHANGED sendVars
    \/ \E s \in Calls : DeliveryFault(s)
    \/ Expire
    \/ ForgetDistributionID
    \/ Restart

GroupSendSpec == GroupSendInit /\ [][GroupSendNext]_groupSendVars

-----------------------------------------------------------------------------
(* Properties *)

CanDecrypt(a, key) == \E k \in holds[a] : k[1] = key[1] /\ k[2] <= key[2]

\* Every member a text was addressed to can decrypt it: through fan-outs that
\* broke off half-way, ids that were not persisted, restarts between any two
\* steps, and members who joined since the last message.  Notifications are
\* exempt: they are sent without distributing the key.
SentDecryptable ==
    \A m \in sent : m.kind = "send" => \A a \in m.to : CanDecrypt(a, m.key)

\* Also with them.
AllSentDecryptable == \A m \in sent : \A a \in m.to : CanDecrypt(a, m.key)

\* No iteration of a chain carries two messages (the second one is dropped by
\* its receivers as a duplicate), whichever of them failed or was retried.
IterationsFresh ==
    \A s \in Calls : pc[s] \in {"recipients", "put"} =>
        /\ \A m \in sent : m.key # msg[s]
        /\ \A t \in Calls \ {s} : pc[t] \in {"recipients", "put"} => msg[t] # msg[s]
=============================================================================
