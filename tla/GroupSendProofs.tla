-------------------------- MODULE GroupSendProofs --------------------------
(***************************************************************************)
(* Proofs about GroupSend, for any group, any number of chains, messages   *)
(* and distribution ids.  The types hold with any number of concurrent     *)
(* deliveries; what they encrypt is decryptable and fresh only when one    *)
(* delivery runs at a time (OneCall): nothing locks the sender-key record  *)
(* between its load and its store, and the run of two calls shows both     *)
(* properties fail.                                                        *)
(***************************************************************************)
EXTENDS GroupSend, TLAPS

OneCall == \A s, t \in Calls : s = t

\* The steps of a delivery that use the distribution id.
KeyLabels == {"skdm", "skdmStore", "fanout", "encrypt", "encryptStore", "recipients", "put"}

\* What a call has in hand when it uses it.
InHand(s) ==
    /\ got[s] <= rev
    /\ pc[s] \in {"fetched", "dist"} \cup KeyLabels => got[s] # None
    /\ pc[s] \in KeyLabels => dist[s] # 0

TypeInv == GroupSendTypeOK /\ \A s \in Calls : InHand(s)

\* Every record is the tip of its own chain, and what was sent on a chain is
\* behind the tip.
StoreOK ==
    /\ \A d \in 1..MaxDist : /\ senderKeys[d][1] <= chains
                             /\ senderKeys[d][1] = 0 => senderKeys[d] = NoRecord
    /\ \A d, e \in 1..MaxDist : senderKeys[d][1] = senderKeys[e][1] => d = e \/ senderKeys[d][1] = 0
    /\ \A m \in sent : m.key[1] \in 1..chains
    /\ \A m \in sent, d \in 1..MaxDist :
         senderKeys[d][1] = m.key[1] => m.key[2] < senderKeys[d][2]

\* The sender key as the call that is under way knows it.
TipKnown(s) ==
    /\ pc[s] \in {"skdmStore", "encryptStore"} => record[s] = senderKeys[dist[s]]
    /\ pc[s] = "encryptStore" => record[s] # NoRecord
    /\ pc[s] \in {"skdm", "skdmStore", "fanout"} => kind[s] = "send"
    /\ kind[s] = "send" /\ pc[s] \in {"fanout", "encrypt", "encryptStore"} =>
         skdm[s] = senderKeys[dist[s]] /\ skdm[s] # NoRecord
    /\ pc[s] \in {"recipients", "put"} =>
         /\ senderKeys[dist[s]] = <<msg[s][1], msg[s][2] + 1>>
         /\ msg[s][1] # 0
         /\ \A m \in sent : m.key # msg[s]
         /\ kind[s] = "send" => skdm[s] = msg[s]

\* Who has the sender key when.
Distributed(s) ==
    /\ pc[s] = "fanout" => \A a \in Others(hist[got[s]]) \ todo[s] : skdm[s] \in holds[a]
    /\ kind[s] = "send" /\ pc[s] \in {"encrypt", "encryptStore", "recipients", "put"} =>
         \A a \in Others(hist[got[s]]) : skdm[s] \in holds[a]

KeyInv == StoreOK /\ SentDecryptable /\ \A s \in Calls : TipKnown(s) /\ Distributed(s)

\* The part of the types that deliveries change.
KeyTypes ==
    /\ groupDistID \in 0..MaxDist /\ distStore \in 0..MaxDist
    /\ senderKeys \in [1..MaxDist -> Records]
    /\ chains \in 0..MaxChain
    /\ holds \in [ACIs -> SUBSET Records]
    /\ \A m \in sent : m.key \in Records /\ m.to \in SUBSET ACIs
    /\ dist \in [Calls -> 0..MaxDist]
    /\ record \in [Calls -> Records]
    /\ skdm \in [Calls -> Records]
    /\ todo \in [Calls -> SUBSET ACIs]
    /\ msg \in [Calls -> Records]
    /\ auth \in [Calls -> {"none", "token", "uak"}]

AllLabels == SyncLabels \cup SendLabels

USE GroupAssumption, GroupSendAssumption DEF Revs, Snapshots, None

LEMMA HaveKeyTypes == TypeInv => KeyTypes
  BY DEF TypeInv, GroupSendTypeOK, KeyTypes

LEMMA RecordParts ==
    ASSUME NEW r \in Records
    PROVE  r[1] \in 0..MaxChain /\ r[2] \in 0..MaxIter /\ r = <<r[1], r[2]>>
  BY DEF Records

LEMMA NoRecordType == NoRecord \in Records
  BY DEF NoRecord, Records

LEMMA InitTypes == GroupSendInit => TypeInv
<1> SUFFICES ASSUME GroupSendInit PROVE TypeInv
  OBVIOUS
<1>1. PICK absent \in SUBSET (ACIs \ {Self}) :
        GroupInit([a \in ACIs |-> IF a \in absent THEN "none" ELSE "default"])
  BY DEF GroupSendInit
<1> DEFINE roles == [a \in ACIs |-> IF a \in absent THEN "none" ELSE "default"]
<1>2. roles \in [ACIs -> Roles] /\ GroupInit(roles)
  BY <1>1 DEF Roles
<1> HIDE DEF roles
<1>3. /\ rev = 0 /\ floor = 0 /\ snapshots \in BOOLEAN /\ advertised = {} /\ faults = 0
      /\ groupRevision = 0 /\ expireTimer = 0 /\ endorsed = {}
      /\ from = [s \in Calls |-> 0] /\ cursor = [s \in Calls |-> 0]
      /\ pages = [s \in Calls |-> 0] /\ began = [s \in Calls |-> 0]
      /\ got = [s \in Calls |-> None]
      /\ pc = [s \in Calls |-> "idle"] /\ kind = [s \in Calls |-> "fetch"]
      /\ then = [s \in Calls |-> "done"]
  BY <1>2 DEF GroupInit
<1>4. hist \in [Revs -> GroupStates]
  BY <1>2 DEF GroupInit, GroupStates, Links
<1>5. GroupTypeOK
  BY <1>3, <1>4 DEF GroupTypeOK
<1>6. KeyTypes /\ knownUAKs \in SUBSET ACIs
  BY NoRecordType DEF GroupSendInit, KeyTypes
<1> QED
  BY <1>3, <1>5, <1>6 DEF TypeInv, GroupSendTypeOK, KeyTypes, InHand, KeyLabels, SyncLabels,
     SyncKinds

\* A step of a delivery after FetchGroup, to label l.
LEMMA DeliveryTypes ==
    ASSUME TypeInv, NEW s \in Calls, NEW l \in AllLabels, pc' = [pc EXCEPT ![s] = l],
           UNCHANGED <<fixedVars, endorsed>>, faults' \in 0..MaxFaults, KeyTypes',
           l \in {"fetched", "dist"} \cup KeyLabels => got[s] # None,
           l \in KeyLabels => dist'[s] # 0,
           l = "put" => auth'[s] # "none",
           \A t \in Calls \ {s} : dist'[t] = dist[t] /\ auth'[t] = auth[t]
    PROVE  TypeInv'
<1>1. UNCHANGED <<rev, hist, floor, snapshots, advertised, groupRevision, expireTimer, kind, then,
                  from, cursor, pages, got, began, knownUAKs, endorsed>>
  BY DEF fixedVars, serviceVars, pageVars
<1>2. GroupTypeOK'
  BY <1>1 DEF TypeInv, GroupSendTypeOK, GroupTypeOK
<1>3. pc' \in [Calls -> SyncLabels \cup SendLabels]
  BY DEF TypeInv, GroupSendTypeOK, AllLabels
<1>4. pc'[s] = l /\ \A t \in Calls \ {s} : pc'[t] = pc[t]
  BY DEF TypeInv, GroupSendTypeOK
<1>5. \A t \in Calls : pc'[t] = "put" => auth'[t] # "none"
  BY <1>4 DEF TypeInv, GroupSendTypeOK
<1>6. GroupSendTypeOK'
  BY <1>1, <1>2, <1>3, <1>5 DEF TypeInv, GroupSendTypeOK, KeyTypes
<1>7. \A t \in Calls : InHand(t)'
  BY <1>1, <1>4 DEF TypeInv, InHand
<1> QED BY <1>6, <1>7 DEF TypeInv

LEMMA DistTypes == ASSUME TypeInv, NEW s \in Calls, groupDistributionID(s) PROVE TypeInv'
<1>1. KeyTypes
  BY HaveKeyTypes
<1>2. /\ groupDistID' \in 0..MaxDist /\ distStore' \in 0..MaxDist
      /\ \E d \in 1..MaxDist : dist' = [dist EXCEPT ![s] = d]
  <2> DEFINE known == IF groupDistID # 0 THEN groupDistID ELSE distStore
  <2>1. CASE known # 0
    <3>1. known \in 1..MaxDist
      BY <1>1, <2>1 DEF KeyTypes
    <3>2. groupDistID' = known /\ dist' = [dist EXCEPT ![s] = known] /\ distStore' = distStore
      BY <2>1 DEF groupDistributionID
    <3> QED BY <1>1, <3>1, <3>2 DEF KeyTypes
  <2>2. CASE known = 0
    <3>1. PICK d \in 1..MaxDist : /\ groupDistID' = d /\ dist' = [dist EXCEPT ![s] = d]
                                  /\ distStore' \in {d, distStore}
      BY <2>2 DEF groupDistributionID
    <3>2. d \in 0..MaxDist /\ distStore \in 0..MaxDist
      BY <1>1 DEF KeyTypes
    <3> QED BY <3>1, <3>2
  <2> QED BY <2>1, <2>2
<1>3. PICK d \in 1..MaxDist : dist' = [dist EXCEPT ![s] = d]
  BY <1>2
<1>4. dist' \in [Calls -> 0..MaxDist] /\ dist'[s] # 0
      /\ \A t \in Calls \ {s} : dist'[t] = dist[t]
  BY <1>1, <1>3 DEF KeyTypes
<1>5. UNCHANGED <<faults, senderKeys, chains, holds, sent, record, skdm, todo, msg, auth>>
      /\ UNCHANGED <<fixedVars, endorsed>>
  BY DEF groupDistributionID
<1>6. KeyTypes'
  BY <1>1, <1>2, <1>4, <1>5 DEF KeyTypes
<1>7. got[s] # None /\ faults \in 0..MaxFaults
  BY DEF groupDistributionID, TypeInv, InHand, GroupSendTypeOK, GroupTypeOK
<1>8. \E l \in {"skdm", "encrypt"} : pc' = [pc EXCEPT ![s] = l]
  BY DEF groupDistributionID, Goto
<1> QED
  BY <1>4, <1>5, <1>6, <1>7, <1>8, DeliveryTypes DEF AllLabels, SendLabels, KeyLabels

\* The sender-key record of a delivery's id.
LEMMA TipType ==
    ASSUME TypeInv, NEW s \in Calls, pc[s] \in KeyLabels
    PROVE  dist[s] \in 1..MaxDist /\ senderKeys[dist[s]] \in Records /\ got[s] \in Revs
  BY DEF TypeInv, GroupSendTypeOK, GroupTypeOK, InHand

LEMMA OthersType ==
    ASSUME NEW g PROVE Others(g) \in SUBSET ACIs
  BY DEF Others, Members

LEMMA SKDMTypes ==
    ASSUME TypeInv, NEW s \in Calls,
           LoadForSKDM(s) \/ CreateSenderKeyDistributionMessage(s)
    PROVE  TypeInv'
<1>1. KeyTypes /\ faults \in 0..MaxFaults
  BY HaveKeyTypes DEF TypeInv, GroupSendTypeOK, GroupTypeOK
<1>2. pc[s] \in KeyLabels
  BY DEF LoadForSKDM, CreateSenderKeyDistributionMessage, KeyLabels
<1>3. dist[s] \in 1..MaxDist /\ dist[s] # 0 /\ senderKeys[dist[s]] \in Records /\ got[s] # None
  BY <1>2, TipType
<1>4. CASE LoadForSKDM(s)
  <2>1. /\ record' = [record EXCEPT ![s] = senderKeys[dist[s]]]
        /\ pc' = [pc EXCEPT ![s] = "skdmStore"]
        /\ UNCHANGED <<fixedVars, endorsed, faults, groupDistID, distStore, senderKeys, chains,
                       holds, sent, dist, skdm, todo, msg, auth>>
    BY <1>4 DEF LoadForSKDM, Goto, keyVars
  <2>2. KeyTypes'
    BY <1>1, <1>3, <2>1 DEF KeyTypes
  <2> QED BY <1>1, <1>3, <2>1, <2>2, DeliveryTypes DEF AllLabels, SendLabels
<1>5. CASE CreateSenderKeyDistributionMessage(s)
  <2>1. /\ todo' = [todo EXCEPT ![s] = Others(hist[got[s]])]
        /\ pc' = [pc EXCEPT ![s] = "fanout"]
        /\ UNCHANGED <<fixedVars, endorsed, faults, groupDistID, distStore,
                       holds, sent, dist, record, msg, auth>>
    BY <1>5 DEF CreateSenderKeyDistributionMessage, Goto
  <2>2. /\ skdm' \in [Calls -> Records] /\ chains' \in 0..MaxChain
        /\ senderKeys' \in [1..MaxDist -> Records]
    <3>1. CASE record[s] # NoRecord
      BY <1>1, <1>5, <3>1 DEF CreateSenderKeyDistributionMessage, KeyTypes
    <3>2. CASE record[s] = NoRecord
      <4>1. /\ chains < MaxChain /\ chains' = chains + 1
            /\ skdm' = [skdm EXCEPT ![s] = <<chains + 1, 0>>]
            /\ senderKeys' = [senderKeys EXCEPT ![dist[s]] = <<chains + 1, 0>>]
        BY <1>5, <3>2 DEF CreateSenderKeyDistributionMessage
      <4>2. chains + 1 \in 0..MaxChain /\ <<chains + 1, 0>> \in Records
        BY <1>1, <4>1 DEF KeyTypes, Records
      <4> QED BY <1>1, <1>3, <4>1, <4>2 DEF KeyTypes
    <3> QED BY <3>1, <3>2
  <2>3. todo' \in [Calls -> SUBSET ACIs]
    BY <1>1, <2>1, OthersType DEF KeyTypes
  <2>4. KeyTypes'
    BY <1>1, <2>1, <2>2, <2>3 DEF KeyTypes
  <2> QED BY <1>1, <1>3, <2>1, <2>4, DeliveryTypes DEF AllLabels, SendLabels
<1> QED BY <1>4, <1>5

LEMMA FanoutTypes ==
    ASSUME TypeInv, NEW s \in Calls,
           (\E a \in ACIs : sendSenderKeyDistribution(s, a)) \/ distributeSenderKeyToMembers(s)
    PROVE  TypeInv'
<1>1. KeyTypes /\ faults \in 0..MaxFaults
  BY HaveKeyTypes DEF TypeInv, GroupSendTypeOK, GroupTypeOK
<1>2. pc[s] = "fanout" /\ pc \in [Calls -> AllLabels]
  BY DEF sendSenderKeyDistribution, distributeSenderKeyToMembers, TypeInv, GroupSendTypeOK, AllLabels
<1>3. dist[s] # 0 /\ got[s] # None
  BY <1>2 DEF TypeInv, InHand, KeyLabels
<1>4. ASSUME NEW a \in ACIs, sendSenderKeyDistribution(s, a) PROVE TypeInv'
  <2>1. /\ todo' = [todo EXCEPT ![s] = @ \ {a}]
        /\ holds' = [holds EXCEPT ![a] = @ \cup {skdm[s]}] /\ pc' = pc
        /\ UNCHANGED <<fixedVars, endorsed, faults, groupDistID, distStore, senderKeys, chains,
                       sent, dist, record, skdm, msg, auth>>
    BY <1>4 DEF sendSenderKeyDistribution, keyVars
  <2>2. KeyTypes'
    <3>1. todo' \in [Calls -> SUBSET ACIs] /\ holds' \in [ACIs -> SUBSET Records]
      BY <1>1, <2>1 DEF KeyTypes
    <3> QED BY <1>1, <2>1, <3>1 DEF KeyTypes
  <2>3. pc' = [pc EXCEPT ![s] = "fanout"]
    BY <1>2, <2>1
  <2> QED BY <1>1, <1>3, <2>1, <2>2, <2>3, DeliveryTypes DEF AllLabels, SendLabels
<1>5. CASE distributeSenderKeyToMembers(s)
  <2>1. /\ pc' = [pc EXCEPT ![s] = "encrypt"]
        /\ UNCHANGED <<fixedVars, endorsed, faults, groupDistID, distStore, senderKeys, chains,
                       holds, sent, dist, record, skdm, todo, msg, auth>>
    BY <1>5 DEF distributeSenderKeyToMembers, Goto, keyVars
  <2>2. KeyTypes'
    BY <1>1, <2>1 DEF KeyTypes
  <2> QED BY <1>1, <1>3, <2>1, <2>2, DeliveryTypes DEF AllLabels, SendLabels
<1> QED BY <1>4, <1>5

LEMMA EncryptTypes ==
    ASSUME TypeInv, NEW s \in Calls, LoadForEncrypt(s) \/ GroupEncryptMessage(s)
    PROVE  TypeInv'
<1>1. KeyTypes /\ faults \in 0..MaxFaults
  BY HaveKeyTypes DEF TypeInv, GroupSendTypeOK, GroupTypeOK
<1>2. pc[s] \in KeyLabels
  BY DEF LoadForEncrypt, GroupEncryptMessage, KeyLabels
<1>3. dist[s] \in 1..MaxDist /\ dist[s] # 0 /\ senderKeys[dist[s]] \in Records /\ got[s] # None
  BY <1>2, TipType
<1>4. CASE LoadForEncrypt(s)
  <2>1. /\ record' = [record EXCEPT ![s] = senderKeys[dist[s]]]
        /\ \E l \in {"failed", "encryptStore"} : pc' = [pc EXCEPT ![s] = l]
        /\ UNCHANGED <<fixedVars, endorsed, faults, groupDistID, distStore, senderKeys, chains,
                       holds, sent, dist, skdm, todo, msg, auth>>
    BY <1>4 DEF LoadForEncrypt, Goto, keyVars
  <2>2. KeyTypes'
    BY <1>1, <1>3, <2>1 DEF KeyTypes
  <2> QED
    BY <1>1, <1>3, <2>1, <2>2, DeliveryTypes DEF AllLabels, SendLabels, SyncLabels
<1>5. CASE GroupEncryptMessage(s)
  <2>1. /\ record[s][2] < MaxIter
        /\ msg' = [msg EXCEPT ![s] = record[s]]
        /\ senderKeys' = [senderKeys EXCEPT ![dist[s]] = <<record[s][1], record[s][2] + 1>>]
        /\ pc' = [pc EXCEPT ![s] = "recipients"]
        /\ UNCHANGED <<fixedVars, endorsed, faults, groupDistID, distStore, chains,
                       holds, sent, dist, record, skdm, todo, auth>>
    BY <1>5 DEF GroupEncryptMessage, Goto
  <2>2. record[s] \in Records
    BY <1>1 DEF KeyTypes
  <2>3. <<record[s][1], record[s][2] + 1>> \in Records
    <3>1. record[s][1] \in 0..MaxChain /\ record[s][2] \in 0..MaxIter
      BY <2>2, RecordParts
    <3>2. record[s][2] + 1 \in 0..MaxIter
      BY <2>1, <3>1
    <3> QED BY <3>1, <3>2 DEF Records
  <2>4. msg' \in [Calls -> Records] /\ senderKeys' \in [1..MaxDist -> Records]
    BY <1>1, <1>3, <2>1, <2>2, <2>3 DEF KeyTypes
  <2>5. KeyTypes'
    BY <1>1, <2>1, <2>4 DEF KeyTypes
  <2> QED BY <1>1, <1>3, <2>1, <2>5, DeliveryTypes DEF AllLabels, SendLabels
<1> QED BY <1>4, <1>5

LEMMA PutTypes ==
    ASSUME TypeInv, NEW s \in Calls,
           buildGroupMultiRecipientPayload(s) \/ SendMultiRecipientMessage(s)
    PROVE  TypeInv'
<1>1. KeyTypes /\ faults \in 0..MaxFaults
  BY HaveKeyTypes DEF TypeInv, GroupSendTypeOK, GroupTypeOK
<1>2. dist[s] # 0 /\ got[s] # None
  BY DEF buildGroupMultiRecipientPayload, SendMultiRecipientMessage, TypeInv, InHand, KeyLabels
<1>3. CASE buildGroupMultiRecipientPayload(s)
  <2>1. PICK a \in {"none", "token", "uak"} : auth' = [auth EXCEPT ![s] = a]
    BY <1>3 DEF buildGroupMultiRecipientPayload
  <2>2. auth' \in [Calls -> {"none", "token", "uak"}] /\ auth'[s] = a
        /\ \A t \in Calls \ {s} : auth'[t] = auth[t]
    BY <1>1, <2>1 DEF KeyTypes
  <2>3. PICK l \in {"put", "failed"} : /\ pc' = [pc EXCEPT ![s] = l]
                                       /\ l = "put" => auth'[s] # "none"
    BY <1>3 DEF buildGroupMultiRecipientPayload, Goto
  <2>4. UNCHANGED <<fixedVars, endorsed>>
        /\ UNCHANGED <<faults, groupDistID, distStore, senderKeys, chains, holds, sent, dist,
                       record, skdm, todo, msg>>
    BY <1>3 DEF buildGroupMultiRecipientPayload, keyVars
  <2>5. KeyTypes'
    BY <1>1, <2>2, <2>4 DEF KeyTypes
  <2>6. l \in AllLabels
    BY DEF AllLabels, SendLabels, SyncLabels
  <2> QED BY <1>1, <1>2, <2>2, <2>3, <2>4, <2>5, <2>6, DeliveryTypes
<1>4. CASE SendMultiRecipientMessage(s)
  <2>1. sent' = sent \cup {[key |-> msg[s], to |-> Others(hist[got[s]]), kind |-> kind[s]]}
    BY <1>4 DEF SendMultiRecipientMessage
  <2>2. PICK l \in {"done", "failed"} : pc' = [pc EXCEPT ![s] = l]
    BY <1>4 DEF SendMultiRecipientMessage, Goto
  <2>3. faults' \in 0..MaxFaults
    BY <1>1, <1>4 DEF SendMultiRecipientMessage
  <2>4. UNCHANGED <<fixedVars, endorsed>>
        /\ UNCHANGED <<groupDistID, distStore, senderKeys, chains, holds, dist, record, skdm,
                       todo, msg, auth>>
    BY <1>4 DEF SendMultiRecipientMessage, keyVars, deliveryVars
  <2>5. \A m \in sent' : m.key \in Records /\ m.to \in SUBSET ACIs
    BY <1>1, <2>1, OthersType DEF KeyTypes
  <2>6. KeyTypes'
    BY <1>1, <2>4, <2>5 DEF KeyTypes
  <2>7. l \in AllLabels /\ l # "put"
    BY DEF AllLabels, SyncLabels
  <2> QED BY <1>1, <1>2, <2>2, <2>3, <2>4, <2>6, <2>7, DeliveryTypes
<1> QED BY <1>3, <1>4

LEMMA FailTypes == ASSUME TypeInv, NEW s \in Calls, DeliveryFault(s) PROVE TypeInv'
<1>1. KeyTypes
  BY HaveKeyTypes
<1>2. faults' \in 0..MaxFaults
  BY DEF DeliveryFault, TypeInv, GroupSendTypeOK, GroupTypeOK
<1>3. /\ pc' = [pc EXCEPT ![s] = "failed"] /\ UNCHANGED <<fixedVars, endorsed>>
      /\ UNCHANGED <<groupDistID, distStore, senderKeys, chains, holds, sent, dist, record, skdm,
                     todo, msg, auth>>
  BY DEF DeliveryFault, Goto, sendVars, keyVars, deliveryVars
<1>4. KeyTypes'
  BY <1>1, <1>3 DEF KeyTypes
<1>5. "failed" \in AllLabels /\ "failed" \notin {"fetched", "dist"} \cup KeyLabels
  BY DEF AllLabels, SyncLabels, KeyLabels
<1> QED BY <1>2, <1>3, <1>4, <1>5, DeliveryTypes

\* The steps of GroupSync's calls that leave the deliveries' variables alone.
LEMMA CallTypes ==
    ASSUME TypeInv, UNCHANGED sendVars, GroupTypeOK',
           pc' \in [Calls -> AllLabels], kind' \in [Calls -> SyncKinds \cup SendKinds],
           then' \in [Calls -> {"done", "dist"}],
           \A t \in Calls : /\ got'[t] <= rev'
                            /\ pc'[t] \in {"fetched", "dist"} => got'[t] # None
                            /\ pc'[t] \in KeyLabels => pc[t] = pc'[t] /\ got'[t] = got[t]
    PROVE  TypeInv'
<1>1. UNCHANGED <<groupDistID, distStore, senderKeys, chains, knownUAKs, holds, sent, dist, record,
                  skdm, todo, msg, auth>>
  BY DEF sendVars, keyVars, deliveryVars
<1>2. "put" \in KeyLabels
  BY DEF KeyLabels
<1>3. \A t \in Calls : pc'[t] = "put" => auth'[t] # "none"
  BY <1>1, <1>2 DEF TypeInv, GroupSendTypeOK
<1>4. GroupSendTypeOK'
  BY <1>1, <1>3 DEF TypeInv, GroupSendTypeOK, AllLabels
<1>5. \A t \in Calls : InHand(t)'
  BY <1>1 DEF TypeInv, InHand
<1> QED BY <1>4, <1>5 DEF TypeInv

LEMMA StartTypes ==
    ASSUME TypeInv, NEW s \in Calls, NEW k \in SendKinds, StartDelivery(s, k)
    PROVE  TypeInv'
<1>1. /\ pc' = [pc EXCEPT ![s] = "fetch"] /\ kind' = [kind EXCEPT ![s] = k]
      /\ then' = [then EXCEPT ![s] = "dist"]
      /\ UNCHANGED <<rev, hist, floor, snapshots, advertised, faults, groupRevision, expireTimer,
                     endorsed, from, cursor, pages, got, began>>
      /\ UNCHANGED sendVars
  BY DEF StartDelivery, Begin, Goto, serviceVars, cacheVars, pageVars
<1>2. GroupTypeOK'
  BY <1>1 DEF TypeInv, GroupSendTypeOK, GroupTypeOK
<1>3. /\ pc' \in [Calls -> AllLabels] /\ kind' \in [Calls -> SyncKinds \cup SendKinds]
      /\ then' \in [Calls -> {"done", "dist"}]
  BY <1>1 DEF TypeInv, GroupSendTypeOK, AllLabels, SyncLabels
<1>4. pc'[s] = "fetch" /\ \A t \in Calls \ {s} : pc'[t] = pc[t]
  BY <1>1 DEF TypeInv, GroupSendTypeOK
<1>5. \A t \in Calls : /\ got'[t] <= rev'
                       /\ pc'[t] \in {"fetched", "dist"} => got'[t] # None
                       /\ pc'[t] \in KeyLabels => pc[t] = pc'[t] /\ got'[t] = got[t]
  BY <1>1, <1>4 DEF TypeInv, InHand, KeyLabels
<1> QED BY <1>1, <1>2, <1>3, <1>5, CallTypes

LEMMA FetchTypes ==
    ASSUME TypeInv, NEW s \in Calls, FetchSteps(s) \/ Fault(s), UNCHANGED sendVars
    PROVE  TypeInv'
<1>1. CASE FetchGroupState(s)
  <2>1. /\ \/ got' = [got EXCEPT ![s] = rev] /\ pc' = [pc EXCEPT ![s] = "fetched"]
           \/ got' = got /\ pc' = [pc EXCEPT ![s] = "failed"]
        /\ UNCHANGED <<rev, hist, floor, snapshots, advertised, faults, groupRevision, expireTimer,
                       endorsed, kind, then, from, cursor, pages, began>>
    BY <1>1 DEF FetchGroupState, Goto, serviceVars, cacheVars, pageVars
  <2>2. rev \in Revs /\ got \in [Calls -> Snapshots] /\ pc \in [Calls -> AllLabels]
    BY DEF TypeInv, GroupSendTypeOK, GroupTypeOK, AllLabels
  <2>3. /\ \A t \in Calls \ {s} : got'[t] = got[t] /\ pc'[t] = pc[t]
        /\ (got'[s] = rev /\ pc'[s] = "fetched") \/ (got'[s] = got[s] /\ pc'[s] = "failed")
        /\ got' \in [Calls -> Snapshots] /\ pc' \in [Calls -> AllLabels]
    BY <2>1, <2>2 DEF AllLabels, SyncLabels
  <2>4. GroupTypeOK'
    BY <2>1, <2>3 DEF TypeInv, GroupSendTypeOK, GroupTypeOK
  <2>5. \A t \in Calls : /\ got'[t] <= rev'
                         /\ pc'[t] \in {"fetched", "dist"} => got'[t] # None
                         /\ pc'[t] \in KeyLabels => pc[t] = pc'[t] /\ got'[t] = got[t]
    BY <2>1, <2>2, <2>3 DEF TypeInv, InHand, KeyLabels
  <2> QED BY <2>1, <2>3, <2>4, <2>5, CallTypes DEF TypeInv, GroupSendTypeOK
<1>2. CASE FetchGroup(s)
  <2>1. /\ pc[s] = "fetched" /\ storeGroupRevision(got[s]) /\ storeGroupSendEndorsements(got[s])
        /\ expireTimer' \in {hist[got[s]].timer, expireTimer}
        /\ pc' = [pc EXCEPT ![s] = then[s]]
        /\ UNCHANGED <<rev, hist, floor, snapshots, advertised, faults,
                       kind, then, from, cursor, pages, got, began>>
    BY <1>2 DEF FetchGroup, Goto, serviceVars, pageVars
  <2>2. got[s] \in Revs /\ hist[got[s]] \in GroupStates /\ then[s] \in {"done", "dist"}
    BY <2>1 DEF TypeInv, GroupSendTypeOK, GroupTypeOK, InHand
  <2>3. groupRevision' \in Revs
    BY <2>1, <2>2 DEF storeGroupRevision, TypeInv, GroupSendTypeOK, GroupTypeOK
  <2>4. endorsed' \in SUBSET ACIs /\ expireTimer' \in Timers
    BY <2>1, <2>2 DEF storeGroupSendEndorsements, Members, GroupStates, TypeInv, GroupSendTypeOK,
       GroupTypeOK
  <2>5. GroupTypeOK'
    BY <2>1, <2>3, <2>4 DEF TypeInv, GroupSendTypeOK, GroupTypeOK
  <2>6. /\ pc' \in [Calls -> AllLabels] /\ pc'[s] = then[s]
        /\ \A t \in Calls \ {s} : pc'[t] = pc[t]
    BY <2>1, <2>2 DEF TypeInv, GroupSendTypeOK, AllLabels, SyncLabels, SendLabels
  <2>7. \A t \in Calls : /\ got'[t] <= rev'
                         /\ pc'[t] \in {"fetched", "dist"} => got'[t] # None
                         /\ pc'[t] \in KeyLabels => pc[t] = pc'[t] /\ got'[t] = got[t]
    BY <2>1, <2>2, <2>6 DEF TypeInv, InHand, KeyLabels
  <2> QED BY <2>1, <2>5, <2>6, <2>7, CallTypes DEF TypeInv, GroupSendTypeOK
<1>3. CASE Fault(s)
  <2>1. /\ faults' \in 0..MaxFaults /\ pc' = [pc EXCEPT ![s] = "failed"]
        /\ UNCHANGED <<rev, hist, floor, snapshots, advertised, groupRevision, expireTimer, endorsed,
                       kind, then, from, cursor, pages, got, began>>
    BY <1>3 DEF Fault, Goto, serviceVars, cacheVars, pageVars, TypeInv, GroupSendTypeOK, GroupTypeOK
  <2>2. GroupTypeOK'
    BY <2>1 DEF TypeInv, GroupSendTypeOK, GroupTypeOK
  <2>3. /\ pc' \in [Calls -> AllLabels] /\ pc'[s] = "failed"
        /\ \A t \in Calls \ {s} : pc'[t] = pc[t]
    BY <2>1 DEF TypeInv, GroupSendTypeOK, AllLabels, SyncLabels
  <2>4. \A t \in Calls : /\ got'[t] <= rev'
                         /\ pc'[t] \in {"fetched", "dist"} => got'[t] # None
                         /\ pc'[t] \in KeyLabels => pc[t] = pc'[t] /\ got'[t] = got[t]
    BY <2>1, <2>3 DEF TypeInv, InHand, KeyLabels
  <2> QED BY <2>1, <2>2, <2>3, <2>4, CallTypes DEF TypeInv, GroupSendTypeOK
<1> QED BY <1>1, <1>2, <1>3 DEF FetchSteps

LEMMA ReturnTypes == ASSUME TypeInv, NEW s \in Calls, DeliveryReturn(s) PROVE TypeInv'
<1>1. /\ pc' = [pc EXCEPT ![s] = "idle"]
      /\ kind' = [kind EXCEPT ![s] = "fetch"] /\ then' = [then EXCEPT ![s] = "done"]
      /\ got' = [got EXCEPT ![s] = None] /\ from' = [from EXCEPT ![s] = 0]
      /\ cursor' = [cursor EXCEPT ![s] = 0] /\ pages' = [pages EXCEPT ![s] = 0]
      /\ began' = [began EXCEPT ![s] = 0]
      /\ UNCHANGED <<rev, hist, floor, snapshots, advertised, faults, groupRevision, expireTimer,
                     endorsed>>
  BY DEF DeliveryReturn, Return, Goto, serviceVars, cacheVars
<1>2. /\ dist' = [dist EXCEPT ![s] = 0] /\ record' = [record EXCEPT ![s] = NoRecord]
      /\ skdm' = [skdm EXCEPT ![s] = NoRecord] /\ todo' = [todo EXCEPT ![s] = {}]
      /\ msg' = [msg EXCEPT ![s] = NoRecord] /\ auth' = [auth EXCEPT ![s] = "none"]
      /\ UNCHANGED <<groupDistID, distStore, senderKeys, chains, knownUAKs, holds, sent>>
  BY DEF DeliveryReturn, keyVars
<1>3. KeyTypes
  BY HaveKeyTypes
<1>4. dist' \in [Calls -> 0..MaxDist] /\ record' \in [Calls -> Records]
      /\ skdm' \in [Calls -> Records] /\ todo' \in [Calls -> SUBSET ACIs]
      /\ msg' \in [Calls -> Records] /\ auth' \in [Calls -> {"none", "token", "uak"}]
  BY <1>2, <1>3, NoRecordType DEF KeyTypes
<1>5. KeyTypes'
  BY <1>2, <1>3, <1>4 DEF KeyTypes
<1>6. GroupTypeOK'
  BY <1>1 DEF TypeInv, GroupSendTypeOK, GroupTypeOK
<1>7. /\ pc' \in [Calls -> SyncLabels \cup SendLabels]
      /\ kind' \in [Calls -> SyncKinds \cup SendKinds] /\ then' \in [Calls -> {"done", "dist"}]
  BY <1>1 DEF TypeInv, GroupSendTypeOK, SyncLabels, SyncKinds
<1>8. /\ pc'[s] = "idle" /\ got'[s] = None
      /\ \A t \in Calls \ {s} : pc'[t] = pc[t] /\ got'[t] = got[t] /\ dist'[t] = dist[t]
                                /\ auth'[t] = auth[t]
  BY <1>1, <1>2 DEF TypeInv, GroupSendTypeOK, GroupTypeOK
<1>9. \A t \in Calls : pc'[t] = "put" => auth'[t] # "none"
  BY <1>8 DEF TypeInv, GroupSendTypeOK
<1>10. GroupSendTypeOK'
  BY <1>2, <1>5, <1>6, <1>7, <1>9 DEF TypeInv, GroupSendTypeOK, KeyTypes
<1>11. \A t \in Calls : InHand(t)'
  BY <1>1, <1>8 DEF TypeInv, InHand, KeyLabels, GroupSendTypeOK, GroupTypeOK
<1> QED BY <1>10, <1>11 DEF TypeInv

LEMMA MembershipTypes ==
    ASSUME TypeInv, NEW g \in MembershipChanges, OthersChange(g), UNCHANGED sendVars
    PROVE  TypeInv' /\ \A r \in 0..rev : hist'[r] = hist[r]
<1>1. g \in GroupStates
  <2>1. Now \in GroupStates
    BY DEF TypeInv, GroupSendTypeOK, GroupTypeOK, Now
  <2>2. PICK a \in ACIs \ {Self}, r \in {"none", "default"} : g = [Now EXCEPT !.role[a] = r]
    BY DEF MembershipChanges
  <2>3. [Now.role EXCEPT ![a] = r] \in [ACIs -> Roles]
    BY <2>1 DEF GroupStates, Roles
  <2> QED BY <2>1, <2>2, <2>3 DEF GroupStates
<1>2. /\ rev < MaxRev /\ rev' = rev + 1 /\ hist' = [hist EXCEPT ![rev + 1] = g]
      /\ advertised' = advertised \cup {rev + 1} \/ advertised' = advertised
      /\ UNCHANGED <<floor, snapshots, faults, groupRevision, expireTimer, endorsed, pc, kind,
                     then, from, cursor, pages, got, began>>
  BY DEF OthersChange, Accept, cacheVars, callVars, pageVars
<1>3. rev \in Revs /\ hist \in [Revs -> GroupStates] /\ advertised \in SUBSET Revs
  BY DEF TypeInv, GroupSendTypeOK, GroupTypeOK
<1>4. rev + 1 \in Revs /\ \A r \in 0..rev : r # rev + 1 /\ r \in Revs
  BY <1>2, <1>3
<1>5. hist' \in [Revs -> GroupStates] /\ advertised' \in SUBSET Revs
      /\ \A r \in 0..rev : hist'[r] = hist[r]
  BY <1>1, <1>2, <1>3, <1>4
<1>6. GroupTypeOK'
  BY <1>2, <1>4, <1>5 DEF TypeInv, GroupSendTypeOK, GroupTypeOK
<1>7. \A t \in Calls : got[t] \in Snapshots /\ got[t] <= rev
  BY DEF TypeInv, InHand, GroupSendTypeOK, GroupTypeOK
<1>8. \A t \in Calls : got'[t] <= rev'
  BY <1>2, <1>3, <1>7
<1>9. \A t \in Calls : /\ pc'[t] \in {"fetched", "dist"} => got'[t] # None
                       /\ pc'[t] \in KeyLabels => pc[t] = pc'[t] /\ got'[t] = got[t]
  BY <1>2 DEF TypeInv, InHand
<1>10. TypeInv'
  BY <1>2, <1>6, <1>8, <1>9, CallTypes DEF TypeInv, GroupSendTypeOK, AllLabels
<1> QED BY <1>5, <1>10

LEMMA ClientTypes ==
    ASSUME TypeInv, Expire \/ ForgetDistributionID \/ Restart
    PROVE  TypeInv'
<1>1. KeyTypes
  BY HaveKeyTypes
<1>2. CASE Expire
  <2>1. /\ endorsed' = {} /\ UNCHANGED sendVars
        /\ UNCHANGED <<rev, hist, floor, snapshots, advertised, faults, groupRevision, expireTimer,
                       pc, kind, then, from, cursor, pages, got, began>>
    BY <1>2 DEF Expire, serviceVars, callVars, pageVars
  <2>2. GroupTypeOK'
    BY <2>1 DEF TypeInv, GroupSendTypeOK, GroupTypeOK
  <2>3. \A t \in Calls : /\ got'[t] <= rev'
                         /\ pc'[t] \in {"fetched", "dist"} => got'[t] # None
                         /\ pc'[t] \in KeyLabels => pc[t] = pc'[t] /\ got'[t] = got[t]
    BY <2>1 DEF TypeInv, InHand
  <2> QED BY <2>1, <2>2, <2>3, CallTypes DEF TypeInv, GroupSendTypeOK, AllLabels
<1>3. CASE ForgetDistributionID
  <2>1. /\ groupDistID' = 0
        /\ UNCHANGED <<rev, hist, floor, snapshots, advertised, faults, groupRevision, expireTimer,
                       endorsed, pc, kind, then, from, cursor, pages, got, began>>
        /\ UNCHANGED <<distStore, senderKeys, chains, knownUAKs, holds, sent, dist, record, skdm,
                       todo, msg, auth>>
    BY <1>3 DEF ForgetDistributionID, groupVars, serviceVars, cacheVars, callVars, pageVars,
       deliveryVars
  <2>2. GroupTypeOK'
    BY <2>1 DEF TypeInv, GroupSendTypeOK, GroupTypeOK
  <2>3. GroupSendTypeOK'
    BY <2>1, <2>2 DEF TypeInv, GroupSendTypeOK
  <2>4. \A t \in Calls : InHand(t)'
    BY <2>1 DEF TypeInv, InHand
  <2> QED BY <2>3, <2>4 DEF TypeInv
<1>4. CASE Restart
  <2>1. /\ groupDistID' = 0 /\ groupRevision' = 0 /\ expireTimer' = 0
        /\ pc' = [s \in Calls |-> "failed"]
        /\ UNCHANGED <<rev, hist, floor, snapshots, advertised,
                       endorsed, kind, then, from, cursor, pages, got, began>>
        /\ UNCHANGED <<distStore, senderKeys, chains, knownUAKs, holds, sent, dist, record, skdm,
                       todo, msg, auth>>
    BY <1>4 DEF Restart, serviceVars, pageVars, deliveryVars
  <2>2. faults' \in 0..MaxFaults
    BY <1>4 DEF Restart, TypeInv, GroupSendTypeOK, GroupTypeOK
  <2>3. GroupTypeOK'
    BY <2>1, <2>2 DEF TypeInv, GroupSendTypeOK, GroupTypeOK
  <2>4. GroupSendTypeOK'
    BY <2>1, <2>3 DEF TypeInv, GroupSendTypeOK, SyncLabels
  <2>5. \A t \in Calls : InHand(t)'
    BY <2>1 DEF TypeInv, InHand, KeyLabels
  <2> QED BY <2>4, <2>5 DEF TypeInv
<1> QED BY <1>2, <1>3, <1>4

LEMMA NextKeepsTypes == TypeInv /\ [GroupSendNext]_groupSendVars => TypeInv'
<1> SUFFICES ASSUME TypeInv, [GroupSendNext]_groupSendVars PROVE TypeInv'
  OBVIOUS
<1>1. CASE (\E g \in MembershipChanges : OthersChange(g)) /\ UNCHANGED sendVars
  BY <1>1, MembershipTypes
<1>2. CASE \E s \in Calls : SendGroup(s) \/ sendGroupContent(s)
  BY <1>2, StartTypes DEF SendGroup, sendGroupContent, SendKinds
<1>3. CASE \E s \in Calls : DeliverySteps(s)
  BY <1>3, DistTypes, SKDMTypes, FanoutTypes, EncryptTypes, PutTypes, ReturnTypes DEF DeliverySteps
<1>4. CASE \E s \in Calls : (FetchSteps(s) \/ Fault(s)) /\ UNCHANGED sendVars
  BY <1>4, FetchTypes
<1>5. CASE \E s \in Calls : DeliveryFault(s)
  BY <1>5, FailTypes
<1>6. CASE Expire \/ ForgetDistributionID \/ Restart
  BY <1>6, ClientTypes
<1>7. CASE UNCHANGED groupSendVars
  <2>1. /\ UNCHANGED sendVars
        /\ UNCHANGED <<rev, hist, floor, snapshots, advertised, faults, groupRevision, expireTimer,
                       endorsed, pc, kind, then, from, cursor, pages, got, began>>
    BY <1>7 DEF groupSendVars, groupVars, serviceVars, cacheVars, callVars, pageVars
  <2>2. GroupTypeOK'
    BY <2>1 DEF TypeInv, GroupSendTypeOK, GroupTypeOK
  <2>3. \A t \in Calls : /\ got'[t] <= rev'
                         /\ pc'[t] \in {"fetched", "dist"} => got'[t] # None
                         /\ pc'[t] \in KeyLabels => pc[t] = pc'[t] /\ got'[t] = got[t]
    BY <2>1 DEF TypeInv, InHand
  <2> QED BY <2>1, <2>2, <2>3, CallTypes DEF TypeInv, GroupSendTypeOK, AllLabels
<1> QED BY <1>1, <1>2, <1>3, <1>4, <1>5, <1>6, <1>7 DEF GroupSendNext

\* The variables of group sending keep their types with any number of
\* concurrent deliveries: an id is looked up before it is used, no iteration or
\* chain passes its bound, and no PUT goes out without an authorisation.
THEOREM GroupSendTypes == GroupSendSpec => []GroupSendTypeOK
<1>1. TypeInv => GroupSendTypeOK
  BY DEF TypeInv
<1> QED BY <1>1, InitTypes, NextKeepsTypes, PTL DEF GroupSendSpec

-----------------------------------------------------------------------------
(* The sender key, with one delivery at a time.  Between the load and the   *)
(* store of a record no other call touches it, so that what the call loaded *)
(* is still the tip of its chain, what it distributed is at most the tip,   *)
(* and what it sends is one behind.                                         *)

\* Labels at which a call has no claim on the sender key.
QuietLabels == AllLabels \ KeyLabels

\* A step that leaves the keys alone: every call keeps its claim or drops it.
LEMMA KeysStay ==
    ASSUME TypeInv, TypeInv', KeyInv, UNCHANGED <<senderKeys, chains, holds, sent>>,
           \A r \in 0..rev : hist'[r] = hist[r],
           \A t \in Calls :
              \/ pc'[t] \in QuietLabels
              \/ /\ pc'[t] = pc[t] /\ kind'[t] = kind[t] /\ got'[t] = got[t] /\ dist'[t] = dist[t]
                 /\ record'[t] = record[t] /\ skdm'[t] = skdm[t] /\ todo'[t] = todo[t]
                 /\ msg'[t] = msg[t]
    PROVE  KeyInv'
<1>1. StoreOK' /\ SentDecryptable'
  BY DEF KeyInv, StoreOK, SentDecryptable, CanDecrypt
<1>2. ASSUME NEW t \in Calls PROVE TipKnown(t)' /\ Distributed(t)'
  <2>1. CASE pc'[t] \in QuietLabels
    BY <2>1 DEF QuietLabels, KeyLabels, TipKnown, Distributed
  <2>2. CASE pc'[t] \notin QuietLabels
    <3>1. pc[t] \in KeyLabels
      BY <2>2 DEF QuietLabels, AllLabels, TypeInv, GroupSendTypeOK
    <3>2. got[t] \in 0..rev
      <4>1. got[t] \in Revs /\ got[t] <= rev
        BY <3>1, TipType DEF TypeInv, InHand
      <4> QED BY <4>1 DEF TypeInv, GroupSendTypeOK, GroupTypeOK
    <3>3. hist'[got[t]] = hist[got[t]]
      BY <3>2
    <3>4. TipKnown(t)'
      <4>1. /\ pc'[t] = pc[t] /\ kind'[t] = kind[t] /\ dist'[t] = dist[t]
            /\ record'[t] = record[t] /\ skdm'[t] = skdm[t] /\ msg'[t] = msg[t]
            /\ senderKeys' = senderKeys /\ sent' = sent
        BY <2>2
      <4>2. TipKnown(t)
        BY DEF KeyInv
      <4> QED BY <4>1, <4>2 DEF TipKnown
    <3>5. Distributed(t)'
      BY <2>2, <3>3 DEF KeyInv, Distributed
    <3> QED BY <3>4, <3>5
  <2> QED BY <2>1, <2>2
<1> QED BY <1>1, <1>2 DEF KeyInv

\* A step of the only call.
LEMMA TheCallMoves ==
    ASSUME OneCall, NEW s \in Calls, StoreOK', SentDecryptable', TipKnown(s)', Distributed(s)'
    PROVE  KeyInv'
  BY DEF OneCall, KeyInv

LEMMA InitKeys == GroupSendInit => KeyInv
<1> SUFFICES ASSUME GroupSendInit PROVE KeyInv
  OBVIOUS
<1>1. /\ senderKeys = [d \in 1..MaxDist |-> NoRecord] /\ chains = 0 /\ sent = {}
  BY DEF GroupSendInit
<1>2. \A s \in Calls : pc[s] = "idle"
  BY DEF GroupSendInit, GroupInit
<1>3. StoreOK /\ SentDecryptable
  BY <1>1 DEF StoreOK, SentDecryptable, NoRecord
<1> QED BY <1>2, <1>3 DEF KeyInv, TipKnown, Distributed

\* The steps of a delivery that read the keys only.
LEMMA ReadKeys ==
    ASSUME OneCall, TypeInv, TypeInv', KeyInv, NEW s \in Calls,
           groupDistributionID(s) \/ LoadForSKDM(s) \/ distributeSenderKeyToMembers(s)
             \/ LoadForEncrypt(s) \/ buildGroupMultiRecipientPayload(s)
    PROVE  KeyInv'
<1>1. UNCHANGED <<hist, got, kind, senderKeys, chains, holds, sent, skdm, todo, msg>>
  BY DEF groupDistributionID, LoadForSKDM, distributeSenderKeyToMembers, LoadForEncrypt,
     buildGroupMultiRecipientPayload, fixedVars, serviceVars, keyVars
<1>2. StoreOK' /\ SentDecryptable'
  BY <1>1 DEF KeyInv, StoreOK, SentDecryptable, CanDecrypt
<1>3. TipKnown(s) /\ Distributed(s)
  BY DEF KeyInv
<1>4. pc \in [Calls -> AllLabels] /\ record \in [Calls -> Records]
  BY DEF TypeInv, GroupSendTypeOK, AllLabels
<1>5. CASE groupDistributionID(s)
  <2>1. pc'[s] = IF kind[s] = "send" THEN "skdm" ELSE "encrypt"
    BY <1>4, <1>5 DEF groupDistributionID, Goto
  <2>2. TipKnown(s)' /\ Distributed(s)'
    BY <1>1, <2>1 DEF TipKnown, Distributed
  <2> QED BY <1>2, <2>2, TheCallMoves
<1>6. CASE LoadForSKDM(s)
  <2>1. pc'[s] = "skdmStore" /\ record'[s] = senderKeys[dist[s]] /\ dist' = dist /\ pc[s] = "skdm"
    BY <1>4, <1>6 DEF LoadForSKDM, Goto
  <2>2. TipKnown(s)' /\ Distributed(s)'
    BY <1>1, <1>3, <2>1 DEF TipKnown, Distributed
  <2> QED BY <1>2, <2>2, TheCallMoves
<1>7. CASE distributeSenderKeyToMembers(s)
  <2>1. pc'[s] = "encrypt" /\ record' = record /\ dist' = dist /\ pc[s] = "fanout" /\ todo[s] = {}
    BY <1>4, <1>7 DEF distributeSenderKeyToMembers, Goto
  <2>2. TipKnown(s)' /\ Distributed(s)'
    BY <1>1, <1>3, <2>1 DEF TipKnown, Distributed
  <2> QED BY <1>2, <2>2, TheCallMoves
<1>8. CASE LoadForEncrypt(s)
  <2>1. /\ pc'[s] = (IF senderKeys[dist[s]] = NoRecord THEN "failed" ELSE "encryptStore")
        /\ record'[s] = senderKeys[dist[s]] /\ dist' = dist /\ pc[s] = "encrypt"
    BY <1>4, <1>8 DEF LoadForEncrypt, Goto
  <2>2. TipKnown(s)' /\ Distributed(s)'
    BY <1>1, <1>3, <2>1 DEF TipKnown, Distributed
  <2> QED BY <1>2, <2>2, TheCallMoves
<1>9. CASE buildGroupMultiRecipientPayload(s)
  <2>1. pc'[s] \in {"put", "failed"} /\ record' = record /\ dist' = dist /\ pc[s] = "recipients"
    BY <1>4, <1>9 DEF buildGroupMultiRecipientPayload, Goto
  <2>2. TipKnown(s)' /\ Distributed(s)'
    BY <1>1, <1>3, <2>1 DEF TipKnown, Distributed
  <2> QED BY <1>2, <2>2, TheCallMoves
<1> QED BY <1>5, <1>6, <1>7, <1>8, <1>9

\* A new chain is one that no record and no message has used.
LEMMA CreateKeys ==
    ASSUME OneCall, TypeInv, TypeInv', KeyInv, NEW s \in Calls,
           CreateSenderKeyDistributionMessage(s)
    PROVE  KeyInv'
<1>1. /\ pc[s] = "skdmStore" /\ pc' = [pc EXCEPT ![s] = "fanout"]
      /\ todo' = [todo EXCEPT ![s] = Others(hist[got[s]])]
      /\ UNCHANGED <<hist, got, kind, holds, sent, dist, record, msg>>
  BY DEF CreateSenderKeyDistributionMessage, Goto, fixedVars, serviceVars
<1>2. KeyTypes /\ KeyTypes'
  BY HaveKeyTypes DEF TypeInv, GroupSendTypeOK, KeyTypes
<1>3. pc'[s] = "fanout" /\ todo'[s] = Others(hist[got[s]])
  BY <1>1, <1>2 DEF TypeInv, GroupSendTypeOK, KeyTypes
<1>4. record[s] = senderKeys[dist[s]] /\ kind[s] = "send" /\ StoreOK
  BY <1>1 DEF KeyInv, TipKnown
<1>5. SentDecryptable'
  BY <1>1 DEF KeyInv, SentDecryptable, CanDecrypt
<1>6. Distributed(s)'
  BY <1>1, <1>3 DEF Distributed
<1>7. dist[s] \in 1..MaxDist
  BY <1>1, TipType DEF KeyLabels
<1>8. CASE record[s] # NoRecord
  <2>1. skdm' = [skdm EXCEPT ![s] = record[s]] /\ UNCHANGED <<senderKeys, chains>>
    BY <1>8 DEF CreateSenderKeyDistributionMessage
  <2>2. skdm'[s] = record[s]
    BY <1>2, <2>1 DEF KeyTypes
  <2>3. StoreOK'
    BY <1>1, <1>4, <2>1 DEF StoreOK
  <2>4. TipKnown(s)'
    BY <1>1, <1>3, <1>4, <1>8, <2>1, <2>2 DEF TipKnown
  <2> QED BY <1>5, <1>6, <2>3, <2>4, TheCallMoves
<1>9. CASE record[s] = NoRecord
  <2> DEFINE new == <<chains + 1, 0>>
  <2>1. /\ chains' = chains + 1 /\ skdm' = [skdm EXCEPT ![s] = new]
        /\ senderKeys' = [senderKeys EXCEPT ![dist[s]] = new]
    BY <1>9 DEF CreateSenderKeyDistributionMessage
  <2>2. /\ skdm'[s] = new /\ senderKeys'[dist[s]] = new
        /\ \A d \in 1..MaxDist : d # dist[s] => senderKeys'[d] = senderKeys[d]
    BY <1>2, <1>7, <2>1 DEF KeyTypes
  <2>3. chains \in Nat /\ new # NoRecord /\ new[1] = chains + 1 /\ new[2] = 0
    BY <1>2 DEF KeyTypes, NoRecord
  <2>4. \A d \in 1..MaxDist : senderKeys[d][1] \in Nat /\ senderKeys[d][1] <= chains
    BY <1>2, <1>4, RecordParts DEF StoreOK, KeyTypes
  <2>5. \A m \in sent : m.key[1] \in 1..chains
    BY <1>4 DEF StoreOK
  <2> HIDE DEF new
  <2>6. StoreOK'
    <3>1. \A d \in 1..MaxDist : /\ senderKeys'[d][1] <= chains'
                                /\ senderKeys'[d][1] = 0 => senderKeys'[d] = NoRecord
      BY <1>4, <2>1, <2>2, <2>3, <2>4 DEF StoreOK
    <3>2. \A d, e \in 1..MaxDist :
            senderKeys'[d][1] = senderKeys'[e][1] => d = e \/ senderKeys'[d][1] = 0
      <4> SUFFICES ASSUME NEW d \in 1..MaxDist, NEW e \in 1..MaxDist, d # e,
                          senderKeys'[d][1] = senderKeys'[e][1]
                   PROVE  senderKeys'[d][1] = 0
        OBVIOUS
      <4>1. CASE d # dist[s] /\ e # dist[s]
        BY <1>4, <2>2, <4>1 DEF StoreOK
      <4>2. CASE d = dist[s] \/ e = dist[s]
        BY <2>2, <2>3, <2>4, <4>2
      <4> QED BY <4>1, <4>2
    <3>3. \A m \in sent' : m.key[1] \in 1..chains'
      BY <1>1, <2>1, <2>3, <2>5
    <3>4. \A m \in sent', d \in 1..MaxDist :
            senderKeys'[d][1] = m.key[1] => m.key[2] < senderKeys'[d][2]
      <4> SUFFICES ASSUME NEW m \in sent, NEW d \in 1..MaxDist, senderKeys'[d][1] = m.key[1]
                   PROVE  m.key[2] < senderKeys'[d][2]
        BY <1>1
      <4>1. d # dist[s]
        BY <2>2, <2>3, <2>5
      <4> QED BY <1>4, <2>2, <4>1 DEF StoreOK
    <3> QED BY <3>1, <3>2, <3>3, <3>4 DEF StoreOK
  <2>7. TipKnown(s)'
    BY <1>1, <1>3, <1>4, <2>2, <2>3 DEF TipKnown
  <2> QED BY <1>5, <1>6, <2>6, <2>7, TheCallMoves
<1> QED BY <1>8, <1>9

LEMMA FanoutKeys ==
    ASSUME OneCall, TypeInv, TypeInv', KeyInv, NEW s \in Calls, NEW a \in ACIs,
           sendSenderKeyDistribution(s, a)
    PROVE  KeyInv'
<1>1. /\ pc[s] = "fanout" /\ pc' = pc
      /\ todo' = [todo EXCEPT ![s] = @ \ {a}]
      /\ holds' = [holds EXCEPT ![a] = @ \cup {skdm[s]}]
      /\ UNCHANGED <<hist, got, kind, senderKeys, chains, sent, dist, record, skdm, msg>>
  BY DEF sendSenderKeyDistribution, fixedVars, serviceVars, keyVars
<1>2. KeyTypes
  BY HaveKeyTypes
<1>3. /\ \A b \in ACIs : holds[b] \subseteq holds'[b]
      /\ skdm[s] \in holds'[a] /\ todo'[s] = todo[s] \ {a}
  BY <1>1, <1>2 DEF KeyTypes
<1>4. StoreOK'
  BY <1>1 DEF KeyInv, StoreOK
<1>5. SentDecryptable'
  BY <1>1, <1>2, <1>3 DEF KeyInv, SentDecryptable, CanDecrypt, KeyTypes
<1>6. TipKnown(s)'
  BY <1>1 DEF KeyInv, TipKnown
<1>7. Distributed(s)'
  <2>1. \A b \in Others(hist[got[s]]) \ todo[s] : skdm[s] \in holds[b]
    BY <1>1 DEF KeyInv, Distributed
  <2>2. \A b \in Others(hist[got[s]]) \ todo'[s] : skdm[s] \in holds'[b]
    BY <1>3, <2>1, OthersType
  <2> QED BY <1>1, <2>2 DEF Distributed
<1> QED BY <1>4, <1>5, <1>6, <1>7, TheCallMoves

\* The message takes the tip, which is past everything sent on its chain, and
\* leaves the tip one iteration on.
LEMMA EncryptKeys ==
    ASSUME OneCall, TypeInv, TypeInv', KeyInv, NEW s \in Calls, GroupEncryptMessage(s)
    PROVE  KeyInv'
<1> DEFINE r == record[s]
           next == <<r[1], r[2] + 1>>
<1>1. /\ pc[s] = "encryptStore" /\ pc' = [pc EXCEPT ![s] = "recipients"]
      /\ msg' = [msg EXCEPT ![s] = r]
      /\ senderKeys' = [senderKeys EXCEPT ![dist[s]] = next]
      /\ UNCHANGED <<hist, got, kind, chains, holds, sent, dist, record, skdm, todo>>
  BY DEF GroupEncryptMessage, Goto, fixedVars, serviceVars
<1>2. KeyTypes /\ StoreOK
  BY HaveKeyTypes DEF KeyInv
<1>3. dist[s] \in 1..MaxDist
  BY <1>1, TipType DEF KeyLabels
<1>4. /\ pc'[s] = "recipients" /\ msg'[s] = r /\ senderKeys'[dist[s]] = next
      /\ \A d \in 1..MaxDist : d # dist[s] => senderKeys'[d] = senderKeys[d]
  BY <1>1, <1>2, <1>3 DEF TypeInv, GroupSendTypeOK, KeyTypes
<1>5. /\ r = senderKeys[dist[s]] /\ r # NoRecord
      /\ kind[s] = "send" => skdm[s] = r
  BY <1>1 DEF KeyInv, TipKnown
<1>6. r[1] \in Nat /\ r[2] \in Nat /\ r[1] # 0
  <2>1. r \in Records
    BY <1>2 DEF KeyTypes
  <2> QED BY <1>2, <1>3, <1>5, <2>1, RecordParts DEF StoreOK
<1>7. next[1] = r[1] /\ next[2] = r[2] + 1
  OBVIOUS
<1>8. \A m \in sent : m.key[1] = r[1] => m.key[2] < r[2]
  BY <1>2, <1>3, <1>5 DEF StoreOK
<1>9. \A m \in sent : m.key \in Records /\ m.key[2] \in Nat
  BY <1>2, RecordParts DEF KeyTypes
<1> HIDE DEF r, next
<1>10. StoreOK'
  <2>1. \A d \in 1..MaxDist : senderKeys'[d][1] = senderKeys[d][1]
    BY <1>3, <1>4, <1>5, <1>7
  <2>2. \A d \in 1..MaxDist : /\ senderKeys'[d][1] <= chains'
                              /\ senderKeys'[d][1] = 0 => senderKeys'[d] = NoRecord
    BY <1>1, <1>2, <1>4, <1>5, <1>6, <1>7, <2>1 DEF StoreOK
  <2>3. \A m \in sent', d \in 1..MaxDist :
          senderKeys'[d][1] = m.key[1] => m.key[2] < senderKeys'[d][2]
    <3> SUFFICES ASSUME NEW m \in sent, NEW d \in 1..MaxDist, senderKeys'[d][1] = m.key[1]
                 PROVE  m.key[2] < senderKeys'[d][2]
      BY <1>1
    <3>1. CASE d = dist[s]
      BY <1>4, <1>6, <1>7, <1>8, <1>9, <3>1
    <3>2. CASE d # dist[s]
      BY <1>2, <1>4, <3>2 DEF StoreOK
    <3> QED BY <3>1, <3>2
  <2> QED BY <1>1, <1>2, <2>1, <2>2, <2>3 DEF StoreOK
<1>11. SentDecryptable'
  BY <1>1 DEF KeyInv, SentDecryptable, CanDecrypt
<1>12. TipKnown(s)'
  <2>1. \A m \in sent : m.key # r
    BY <1>6, <1>8
  <2> QED BY <1>1, <1>4, <1>5, <1>6, <2>1 DEF TipKnown, next
<1>13. Distributed(s)'
  BY <1>1, <1>4 DEF KeyInv, Distributed
<1> QED BY <1>10, <1>11, <1>12, <1>13, TheCallMoves

\* The message is accepted: it is behind the tip, and its addressees hold the
\* record it was encrypted from.
LEMMA PutKeys ==
    ASSUME OneCall, TypeInv, TypeInv', KeyInv, NEW s \in Calls, SendMultiRecipientMessage(s)
    PROVE  KeyInv'
<1> DEFINE new == [key |-> msg[s], to |-> Others(hist[got[s]]), kind |-> kind[s]]
<1>1. /\ pc[s] = "put" /\ sent' = sent \cup {new}
      /\ UNCHANGED <<hist, got, kind, senderKeys, chains, holds, dist, record, skdm, todo, msg>>
  BY DEF SendMultiRecipientMessage, fixedVars, serviceVars, keyVars, deliveryVars
<1>2. pc'[s] \in {"done", "failed"}
  BY DEF SendMultiRecipientMessage, Goto, TypeInv, GroupSendTypeOK
<1>3. KeyTypes /\ StoreOK /\ TipKnown(s) /\ Distributed(s) /\ SentDecryptable
  BY HaveKeyTypes DEF KeyInv
<1>4. dist[s] \in 1..MaxDist
  BY <1>1, TipType DEF KeyLabels
<1>5. /\ senderKeys[dist[s]] = <<msg[s][1], msg[s][2] + 1>> /\ msg[s][1] # 0
      /\ kind[s] = "send" => skdm[s] = msg[s]
  BY <1>1, <1>3 DEF TipKnown
<1>6. msg[s][1] \in Nat /\ msg[s][2] \in Nat /\ chains \in Nat
  BY <1>3, RecordParts DEF KeyTypes
<1>7. senderKeys[dist[s]][1] = msg[s][1] /\ senderKeys[dist[s]][2] = msg[s][2] + 1
  BY <1>5
<1>8. new.key = msg[s] /\ new.kind = kind[s] /\ new.to = Others(hist[got[s]])
  OBVIOUS
<1> HIDE DEF new
<1>9. StoreOK'
  <2>1. msg[s][1] \in 1..chains
    BY <1>3, <1>4, <1>5, <1>6, <1>7 DEF StoreOK
  <2>2. \A d \in 1..MaxDist : senderKeys[d][1] = msg[s][1] => d = dist[s]
    BY <1>3, <1>4, <1>5, <1>7 DEF StoreOK
  <2>3. \A d \in 1..MaxDist : senderKeys[d][1] = msg[s][1] => msg[s][2] < senderKeys[d][2]
    BY <1>6, <1>7, <2>2
  <2>4. \A m \in sent' : m.key[1] \in 1..chains'
    BY <1>1, <1>3, <1>8, <2>1 DEF StoreOK
  <2>5. \A m \in sent', d \in 1..MaxDist :
          senderKeys'[d][1] = m.key[1] => m.key[2] < senderKeys'[d][2]
    BY <1>1, <1>3, <1>8, <2>3 DEF StoreOK
  <2> QED BY <1>1, <1>3, <2>4, <2>5 DEF StoreOK
<1>10. SentDecryptable'
  <2>1. ASSUME kind[s] = "send", NEW a \in new.to PROVE CanDecrypt(a, new.key)
    <3>1. msg[s] \in holds[a]
      BY <1>1, <1>3, <1>5, <1>8, <2>1 DEF Distributed
    <3>2. msg[s][2] <= msg[s][2]
      BY <1>6
    <3> QED BY <1>8, <3>1, <3>2 DEF CanDecrypt
  <2>2. \A m \in sent' : m.kind = "send" => \A a \in m.to : CanDecrypt(a, m.key)
    BY <1>1, <1>3, <1>8, <2>1 DEF SentDecryptable
  <2> QED BY <1>1, <2>2 DEF SentDecryptable, CanDecrypt
<1>11. TipKnown(s)' /\ Distributed(s)'
  BY <1>2 DEF TipKnown, Distributed
<1> QED BY <1>9, <1>10, <1>11, TheCallMoves

\* The steps that leave the keys alone.
LEMMA QuietKeys ==
    ASSUME TypeInv, TypeInv', KeyInv,
           \/ (\E g \in MembershipChanges : OthersChange(g)) /\ UNCHANGED sendVars
           \/ \E s \in Calls : SendGroup(s) \/ sendGroupContent(s) \/ DeliveryFault(s)
                                 \/ DeliveryReturn(s)
           \/ \E s \in Calls : (FetchSteps(s) \/ Fault(s)) /\ UNCHANGED sendVars
           \/ Expire \/ ForgetDistributionID \/ Restart \/ UNCHANGED groupSendVars
    PROVE  KeyInv'
<1> DEFINE Keeps(t) ==
      /\ pc'[t] = pc[t] /\ kind'[t] = kind[t] /\ got'[t] = got[t] /\ dist'[t] = dist[t]
      /\ record'[t] = record[t] /\ skdm'[t] = skdm[t] /\ todo'[t] = todo[t] /\ msg'[t] = msg[t]
<1>0. pc \in [Calls -> AllLabels] /\ KeyTypes /\ got \in [Calls -> Snapshots]
      /\ kind \in [Calls -> SyncKinds \cup SendKinds] /\ then \in [Calls -> {"done", "dist"}]
  BY HaveKeyTypes DEF TypeInv, GroupSendTypeOK, GroupTypeOK, AllLabels
<1>q. {"idle", "fetch", "fetched", "dist", "done", "failed"} \subseteq QuietLabels
  BY DEF QuietLabels, AllLabels, SyncLabels, SendLabels, KeyLabels
<1>1. UNCHANGED <<senderKeys, chains, holds, sent>>
  BY DEF SendGroup, sendGroupContent, StartDelivery, DeliveryFault, DeliveryReturn, Expire,
     ForgetDistributionID, Restart, groupSendVars, sendVars, keyVars
<1>2. CASE (\E g \in MembershipChanges : OthersChange(g)) /\ UNCHANGED sendVars
  <2>1. \A r \in 0..rev : hist'[r] = hist[r]
    BY <1>2, MembershipTypes
  <2>2. \A t \in Calls : Keeps(t)
    BY <1>2 DEF OthersChange, callVars, sendVars, deliveryVars
  <2> QED BY <1>1, <2>1, <2>2, KeysStay
<1>3. CASE \E s \in Calls : SendGroup(s) \/ sendGroupContent(s)
  <2>1. PICK s \in Calls, k \in SendKinds : StartDelivery(s, k)
    BY <1>3 DEF SendGroup, sendGroupContent, SendKinds
  <2>2. /\ pc' = [pc EXCEPT ![s] = "fetch"] /\ kind' = [kind EXCEPT ![s] = k]
        /\ UNCHANGED <<hist, got, dist, record, skdm, todo, msg>>
    BY <2>1 DEF StartDelivery, Begin, Goto, serviceVars, sendVars, deliveryVars
  <2>3. \A t \in Calls : pc'[t] = "fetch" \/ Keeps(t)
    BY <1>0, <2>2
  <2> QED BY <1>1, <1>q, <2>2, <2>3, KeysStay
<1>4. CASE \E s \in Calls : DeliveryFault(s)
  <2>1. PICK s \in Calls : DeliveryFault(s)
    BY <1>4
  <2>2. /\ pc' = [pc EXCEPT ![s] = "failed"]
        /\ UNCHANGED <<hist, kind, got, dist, record, skdm, todo, msg>>
    BY <2>1 DEF DeliveryFault, Goto, fixedVars, serviceVars, sendVars, deliveryVars
  <2>3. \A t \in Calls : pc'[t] = "failed" \/ Keeps(t)
    BY <1>0, <2>2
  <2> QED BY <1>1, <1>q, <2>2, <2>3, KeysStay
<1>5. CASE \E s \in Calls : DeliveryReturn(s)
  <2>1. PICK s \in Calls : DeliveryReturn(s)
    BY <1>5
  <2>2. /\ pc' = [pc EXCEPT ![s] = "idle"] /\ kind' = [kind EXCEPT ![s] = "fetch"]
        /\ got' = [got EXCEPT ![s] = None] /\ dist' = [dist EXCEPT ![s] = 0]
        /\ record' = [record EXCEPT ![s] = NoRecord] /\ skdm' = [skdm EXCEPT ![s] = NoRecord]
        /\ todo' = [todo EXCEPT ![s] = {}] /\ msg' = [msg EXCEPT ![s] = NoRecord]
        /\ UNCHANGED hist
    BY <2>1 DEF DeliveryReturn, Return, Goto, serviceVars
  <2>3. \A t \in Calls : pc'[t] = "idle" \/ Keeps(t)
    BY <1>0, <2>2 DEF KeyTypes
  <2> QED BY <1>1, <1>q, <2>2, <2>3, KeysStay
<1>6. CASE \E s \in Calls : (FetchSteps(s) \/ Fault(s)) /\ UNCHANGED sendVars
  <2>1. PICK s \in Calls : (FetchSteps(s) \/ Fault(s)) /\ UNCHANGED sendVars
    BY <1>6
  <2>2. UNCHANGED <<hist, kind, dist, record, skdm, todo, msg>>
    BY <2>1 DEF FetchSteps, FetchGroupState, FetchGroup, Fault, serviceVars, sendVars, deliveryVars
  <2>3. \A t \in Calls : pc'[t] \in {"fetched", "dist", "done", "failed"}
                         \/ (pc'[t] = pc[t] /\ got'[t] = got[t])
    BY <1>0, <2>1 DEF FetchSteps, FetchGroupState, FetchGroup, Fault, Goto
  <2>4. \A t \in Calls : pc'[t] \in QuietLabels \/ Keeps(t)
    BY <1>q, <2>2, <2>3
  <2> QED BY <1>1, <2>2, <2>4, KeysStay
<1>7. CASE Expire \/ ForgetDistributionID \/ UNCHANGED groupSendVars
  <2>1. UNCHANGED <<hist, pc, kind, got, dist, record, skdm, todo, msg>>
    BY <1>7 DEF Expire, ForgetDistributionID, groupSendVars, groupVars, serviceVars, callVars,
       sendVars, deliveryVars
  <2>2. \A t \in Calls : Keeps(t)
    BY <2>1
  <2> QED BY <1>1, <2>1, <2>2, KeysStay
<1>8. CASE Restart
  <2>1. hist' = hist /\ \A t \in Calls : pc'[t] = "failed"
    BY <1>8 DEF Restart, serviceVars
  <2> QED BY <1>1, <1>q, <2>1, KeysStay
<1> QED BY <1>2, <1>3, <1>4, <1>5, <1>6, <1>7, <1>8

LEMMA NextKeepsKeys ==
    ASSUME OneCall
    PROVE  TypeInv /\ KeyInv /\ [GroupSendNext]_groupSendVars => TypeInv' /\ KeyInv'
<1> SUFFICES ASSUME TypeInv, KeyInv, [GroupSendNext]_groupSendVars PROVE TypeInv' /\ KeyInv'
  OBVIOUS
<1>1. TypeInv'
  BY NextKeepsTypes
<1>2. CASE \E s \in Calls : DeliverySteps(s)
  <2>1. PICK s \in Calls : DeliverySteps(s)
    BY <1>2
  <2>2. CASE DeliveryReturn(s)
    BY <1>1, <2>2, QuietKeys
  <2>3. CASE ~DeliveryReturn(s)
    BY <1>1, <2>1, <2>3, ReadKeys, CreateKeys, FanoutKeys, EncryptKeys, PutKeys DEF DeliverySteps
  <2> QED BY <1>1, <2>2, <2>3
<1>3. CASE ~\E s \in Calls : DeliverySteps(s)
  BY <1>1, <1>3, QuietKeys DEF GroupSendNext
<1> QED BY <1>2, <1>3

\* A member a text was addressed to can decrypt it, for any group and through
\* any sequence of broken-off fan-outs, forgotten ids and restarts, as long as
\* one delivery runs at a time.
THEOREM TextsDecryptable == ASSUME OneCall PROVE GroupSendSpec => []SentDecryptable
<1>1. KeyInv => SentDecryptable
  BY DEF KeyInv
<1> QED BY <1>1, InitTypes, InitKeys, NextKeepsKeys, PTL DEF GroupSendSpec

\* No iteration of a chain carries two messages, as long as one delivery runs
\* at a time: the ratchet is stored before the message leaves.
THEOREM IterationsNotReused == ASSUME OneCall PROVE GroupSendSpec => []IterationsFresh
<1>1. KeyInv => IterationsFresh
  BY DEF KeyInv, TipKnown, IterationsFresh, OneCall
<1> QED BY <1>1, InitTypes, InitKeys, NextKeepsKeys, PTL DEF GroupSendSpec
=============================================================================
