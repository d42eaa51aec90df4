--------------------------- MODULE PreKeyProofs ---------------------------
(***************************************************************************)
(* Proofs about PreKeyMaint: type correctness for every number of          *)
(* goroutines and faults, and what holds when top-ups do not overlap.      *)
(***************************************************************************)
EXTENDS PreKeyMaint, TLAPS

\* A batch is a table whose ids are its range.
LEMMA BatchIsTable ==
    ASSUME NEW start \in Nat, NEW count \in Nat, NEW t \in Nat
    PROVE  /\ Table(Batch(start, count, t))
           /\ \A k \in Batch(start, count, t) :
                k[1] \in start..(start + count - 1)
           /\ \A id \in start..(start + count - 1) : <<id, t>> \in Batch(start, count, t)
  BY DEF Table, Batch, Keys

\* Storing a table into a table replaces rows and never doubles an id.
LEMMA StoreIsTable ==
    ASSUME NEW T, NEW K, Table(T), Table(K)
    PROVE  Table(Store(T, K))
  BY DEF Table, Store

LEMMA SubTable ==
    ASSUME NEW T, Table(T), NEW S \in SUBSET T
    PROVE  Table(S)
  BY DEF Table

LEMMA PreKeyInitType == PreKeyInit => PreKeyTypeOK
  <1> SUFFICES ASSUME PreKeyInit PROVE PreKeyTypeOK
    OBVIOUS
  <1> USE PreKeyAssumption
  <1>1. Table(Batch(2, TopUpBatch, 1))
    BY BatchIsTable
  <1>2. next \in Counters /\ 0 \in 0..MaxGen /\ 1 \in 0..MaxGen
    BY DEF PreKeyInit, Counters
  <1>3. QED
    BY <1>1, <1>2 DEF PreKeyInit, PreKeyTypeOK, Steps

LEMMA ReceiveKeepsType ==
    ASSUME PreKeyTypeOK, NEW m \in Maintainers, NEW msg \in inflight, Receive(m, msg)
    PROVE  PreKeyTypeOK'
  <1> USE PreKeyAssumption DEF PreKeyTypeOK, Goto, storeVars, acctVars, workVars, envVars
  <1>1. CASE DecryptPreKey(m, msg)
    <2>1. Table(ec') /\ inflight' \subseteq Messages
      BY <1>1, SubTable DEF DecryptPreKey
    <2>2. msg.kem[1] \in Nat
      BY DEF Messages, Keys
    <2>3. used' \subseteq Nat
      BY <1>1, <2>2 DEF DecryptPreKey
    <2>4. QED
      BY <1>1, <2>1, <2>3 DEF DecryptPreKey, Steps
  <1>2. CASE DecryptFails(m, msg)
    BY <1>2 DEF DecryptFails
  <1>3. QED
    BY <1>1, <1>2 DEF Receive

\* The batches of a goroutine are tables.
LEMMA OwnBatches ==
    ASSUME PreKeyTypeOK, NEW m \in Maintainers
    PROVE  /\ Table(ECBatch(m)) /\ Table(KEMBatch(m))
           /\ \A n \in Nat : /\ Table(Batch(base[m].ec, n, tag[m]))
                             /\ Table(Batch(base[m].kem, n, tag[m]))
           /\ base[m].ec \in Nat /\ base[m].kem \in Nat /\ tag[m] \in Nat
  <1> USE PreKeyAssumption
  <1>1. base[m].ec \in Nat /\ base[m].kem \in Nat /\ tag[m] \in Nat
    BY DEF PreKeyTypeOK, Counters
  <1>2. QED
    BY <1>1, BatchIsTable DEF ECBatch, KEMBatch

LEMMA TopUpKeepsType ==
    ASSUME PreKeyTypeOK, NEW m \in Maintainers, MaybeTopUp(m)
    PROVE  PreKeyTypeOK'
  <1> USE PreKeyAssumption, OwnBatches
          DEF PreKeyTypeOK, Goto, storeVars, srvVars, acctVars, workVars, envVars, Steps
  <1>1. CASE CountEnough(m)
    BY <1>1 DEF CountEnough
  <1>2. CASE CountLow(m)
    BY <1>2 DEF CountLow
  <1>3. CASE Generate(m)
    BY <1>3 DEF Generate
  <1>4. CASE OutOfIDs(m)
    BY <1>4 DEF OutOfIDs
  <1>5. CASE PersistEC(m)
    <2>1. Table(ec')
      BY <1>5, StoreIsTable DEF PersistEC
    <2>2. QED
      BY <1>5, <2>1 DEF PersistEC
  <1>6. CASE PersistKEM(m)
    <2>1. Table(kem') /\ used' \subseteq Nat
      BY <1>6, StoreIsTable DEF PersistKEM
    <2>2. QED
      BY <1>6, <2>1 DEF PersistKEM
  <1>7. CASE Upload(m)
    <2>1. Table(srvEC') /\ Table(srvKEM')
      BY <1>7, StoreIsTable DEF Upload, Publish
    <2>2. QED
      BY <1>7, <2>1 DEF Upload, Publish
  <1>8. CASE AdvanceEC(m)
    BY <1>8 DEF AdvanceEC, Counters
  <1>9. CASE AdvanceKEM(m)
    BY <1>9 DEF AdvanceKEM, Counters
  <1>10. CASE Save(m)
    BY <1>10 DEF Save
  <1>11. QED
    BY <1>1, <1>2, <1>3, <1>4, <1>5, <1>6, <1>7, <1>8, <1>9, <1>10 DEF MaybeTopUp

LEMMA FailureKeepsType ==
    ASSUME PreKeyTypeOK, NEW m \in Maintainers, Failure(m)
    PROVE  PreKeyTypeOK'
  <1> USE PreKeyAssumption, OwnBatches
          DEF PreKeyTypeOK, Goto, storeVars, srvVars, acctVars, workVars, envVars, Steps
  <1>1. CASE PersistECFails(m)
    <2>1. Table(ec')
      BY <1>1, StoreIsTable DEF PersistECFails
    <2>2. QED
      BY <1>1, <2>1 DEF PersistECFails
  <1>2. CASE PersistKEMFails(m)
    <2>1. PICK n \in 0..(TopUpBatch - 1) :
             /\ kem' = Store(kem, Batch(base[m].kem, n, tag[m]))
             /\ used' = used \ {k[1] : k \in Batch(base[m].kem, n, tag[m])}
      BY <1>2 DEF PersistKEMFails
    <2>2. Table(kem')
      BY <2>1, StoreIsTable
    <2>3. used' \subseteq Nat
      BY <2>1
    <2>4. QED
      BY <1>2, <2>2, <2>3 DEF PersistKEMFails
  <1>3. CASE UploadFails(m)
    BY <1>3 DEF UploadFails
  <1>4. CASE UploadLost(m)
    <2>1. Table(srvEC') /\ Table(srvKEM')
      BY <1>4, StoreIsTable DEF UploadLost, Publish
    <2>2. QED
      BY <1>4, <2>1 DEF UploadLost, Publish
  <1>5. CASE SaveFails(m)
    BY <1>5 DEF SaveFails
  <1>6. QED
    BY <1>1, <1>2, <1>3, <1>4, <1>5 DEF Failure

LEMMA HandOutKeepsType ==
    ASSUME PreKeyTypeOK, HandOut PROVE PreKeyTypeOK'
  <1>1. PICK e \in (IF srvEC = {} THEN {NoKey} ELSE srvEC),
             k \in (IF srvKEM = {} THEN {NoKey} ELSE srvKEM) :
             /\ inflight' = inflight \cup {[ec |-> e, kem |-> k]}
             /\ srvEC' = srvEC \ {e}
             /\ srvKEM' = srvKEM \ {k}
    BY DEF HandOut
  <1>2. e \in Keys /\ k \in Keys
    BY DEF PreKeyTypeOK, Table, NoKey, Keys
  <1>3. inflight' \subseteq Messages
    BY <1>1, <1>2 DEF PreKeyTypeOK, Messages
  <1>4. Table(srvEC') /\ Table(srvKEM')
    BY <1>1, SubTable DEF PreKeyTypeOK
  <1>5. QED
    BY <1>3, <1>4 DEF HandOut, PreKeyTypeOK, storeVars, acctVars, workVars, envVars

\* Type correctness, for any number of goroutines, faults and crashes: a
\* store never holds two keys under one id.
THEOREM PreKeyTypeCorrect == PreKeySpec => []PreKeyTypeOK
  <1>1. PreKeyTypeOK /\ [PreKeyNext]_preKeyVars => PreKeyTypeOK'
    <2> SUFFICES ASSUME PreKeyTypeOK, [PreKeyNext]_preKeyVars PROVE PreKeyTypeOK'
      OBVIOUS
    <2>1. CASE HandOut
      BY <2>1, HandOutKeepsType
    <2>2. CASE Crash
      BY <2>2, PreKeyAssumption DEF Crash, PreKeyTypeOK, storeVars, srvVars, workVars, Steps
    <2>3. ASSUME NEW m \in Maintainers, MaybeTopUp(m) PROVE PreKeyTypeOK'
      BY <2>3, TopUpKeepsType
    <2>4. ASSUME NEW m \in Maintainers, Failure(m) PROVE PreKeyTypeOK'
      BY <2>4, FailureKeepsType
    <2>5. ASSUME NEW m \in Maintainers, NEW msg \in inflight, Receive(m, msg)
          PROVE  PreKeyTypeOK'
      BY <2>5, ReceiveKeepsType
    <2>6. CASE UNCHANGED preKeyVars
      BY <2>6 DEF preKeyVars, PreKeyTypeOK, storeVars, srvVars, acctVars, workVars, envVars
    <2>7. QED
      BY <2>1, <2>2, <2>3, <2>4, <2>5, <2>6 DEF PreKeyNext
  <1>2. QED
    BY <1>1, PreKeyInitType, PTL DEF PreKeySpec

----------------------------------------------------------------------------
(***************************************************************************)
(* However many top-ups overlap, fail and crash: a published Kyber id has  *)
(* a row.                                                                  *)
(***************************************************************************)
HasRow(k) == \E j \in kem : j[1] = k[1]

\* A goroutine about to upload has stored its batch, under its ids at least.
RowsFirst == \A m \in Maintainers : pc[m] = "upload" => \A k \in KEMBatch(m) : HasRow(k)

\* No step takes a row away ...
LEMMA RowsStay ==
    ASSUME [PreKeyNext]_preKeyVars, NEW k, HasRow(k)
    PROVE  HasRow(k)'
  <1> USE DEF storeVars
  <1>1. ASSUME kem' = kem PROVE HasRow(k)'
    BY <1>1 DEF HasRow
  <1>2. ASSUME NEW K, kem' = Store(kem, K) PROVE HasRow(k)'
    <2>1. PICK j \in kem : j[1] = k[1]
      BY DEF HasRow
    <2>2. \E i \in Store(kem, K) : i[1] = k[1]
      BY <2>1 DEF Store
    <2>3. QED
      BY <1>2, <2>2 DEF HasRow
  <1>3. CASE HandOut \/ Crash \/ UNCHANGED preKeyVars
    BY <1>1, <1>3 DEF HandOut, Crash, preKeyVars
  <1>4. ASSUME NEW m \in Maintainers, MaybeTopUp(m) PROVE HasRow(k)'
    BY <1>1, <1>2, <1>4 DEF MaybeTopUp, CountEnough, CountLow, Generate, OutOfIDs, PersistEC,
                PersistKEM, Upload, AdvanceEC, AdvanceKEM, Save
  <1>5. ASSUME NEW m \in Maintainers, Failure(m) PROVE HasRow(k)'
    BY <1>1, <1>2, <1>5 DEF Failure, PersistECFails, PersistKEMFails, UploadFails, UploadLost, SaveFails
  <1>6. ASSUME NEW m \in Maintainers, NEW msg \in inflight, Receive(m, msg) PROVE HasRow(k)'
    BY <1>1, <1>6 DEF Receive, DecryptPreKey, DecryptFails
  <1>7. QED
    BY <1>3, <1>4, <1>5, <1>6 DEF PreKeyNext

\* ... a goroutine reaches its upload through PersistKEM ...
LEMMA RowsFirstStep ==
    ASSUME PreKeyTypeOK, RowsFirst, [PreKeyNext]_preKeyVars PROVE RowsFirst'
  <1> USE DEF workVars, Goto
  <1>t. /\ pc \in [Maintainers -> Steps] /\ base \in [Maintainers -> Counters]
        /\ tag \in [Maintainers -> 0..MaxGen]
    BY DEF PreKeyTypeOK
  <1>0. SUFFICES ASSUME NEW m \in Maintainers, pc'[m] = "upload", NEW k \in KEMBatch(m)'
                 PROVE  HasRow(k)'
    BY DEF RowsFirst
  <1>1. CASE pc[m] = "upload" /\ KEMBatch(m)' = KEMBatch(m)
    BY <1>1, RowsStay DEF RowsFirst
  <1>2. CASE PersistKEM(m)
    <2>1. KEMBatch(m)' = KEMBatch(m) /\ kem' = Store(kem, KEMBatch(m))
      BY <1>2 DEF PersistKEM, KEMBatch
    <2>2. QED
      BY <2>1 DEF HasRow, Store
  <1>3. CASE HandOut \/ Crash \/ UNCHANGED preKeyVars
    BY <1>0, <1>1, <1>3 DEF HandOut, Crash, preKeyVars, KEMBatch
  <1>4. ASSUME NEW n \in Maintainers, MaybeTopUp(n) PROVE HasRow(k)'
    BY <1>t, <1>0, <1>1, <1>2, <1>4 DEF KEMBatch, MaybeTopUp, CountEnough, CountLow, Generate,
         OutOfIDs, PersistEC, PersistKEM, Upload, AdvanceEC, AdvanceKEM, Save
  <1>5. ASSUME NEW n \in Maintainers, Failure(n) PROVE HasRow(k)'
    BY <1>t, <1>0, <1>1, <1>5 DEF KEMBatch, Failure, PersistECFails, PersistKEMFails,
         UploadFails, UploadLost, SaveFails
  <1>6. ASSUME NEW n \in Maintainers, NEW msg \in inflight, Receive(n, msg) PROVE HasRow(k)'
    BY <1>t, <1>0, <1>1, <1>6 DEF KEMBatch, Receive, DecryptPreKey, DecryptFails
  <1>7. QED
    BY <1>3, <1>4, <1>5, <1>6 DEF PreKeyNext

\* ... and only an upload publishes.
LEMMA RowsStep ==
    ASSUME PreKeyTypeOK, RowsFirst, PublishedHasRow, [PreKeyNext]_preKeyVars
    PROVE  PublishedHasRow'
  <1> USE DEF srvVars
  <1>1. SUFFICES ASSUME NEW k, k # NoKey,
                        k \in srvKEM' \/ \E msg \in inflight' : k = msg.kem
                 PROVE  HasRow(k)'
    BY DEF PublishedHasRow, HasRow
  <1>2. CASE k \in srvKEM \/ \E msg \in inflight : k = msg.kem
    BY <1>1, <1>2, RowsStay DEF PublishedHasRow, HasRow
  <1>3. ASSUME NEW m \in Maintainers, pc[m] = "upload", Publish(m) PROVE HasRow(k)'
    <2>1. CASE k \in KEMBatch(m)
      BY <1>3, <2>1, RowsStay DEF RowsFirst
    <2>2. QED
      BY <1>1, <1>2, <1>3, <2>1 DEF Publish, Store
  <1>4. CASE HandOut
    <2>1. PICK e \in (IF srvEC = {} THEN {NoKey} ELSE srvEC),
               j \in (IF srvKEM = {} THEN {NoKey} ELSE srvKEM) :
               /\ inflight' = inflight \cup {[ec |-> e, kem |-> j]}
               /\ srvKEM' = srvKEM \ {j}
      BY <1>4 DEF HandOut
    <2>2. QED
      BY <1>1, <1>2, <2>1
  <1>5. CASE Crash \/ UNCHANGED preKeyVars
    BY <1>1, <1>2, <1>5 DEF Crash, preKeyVars
  <1>6. ASSUME NEW m \in Maintainers, MaybeTopUp(m) PROVE HasRow(k)'
    BY <1>1, <1>2, <1>3, <1>6 DEF MaybeTopUp, CountEnough, CountLow, Generate, OutOfIDs, PersistEC,
                PersistKEM, Upload, AdvanceEC, AdvanceKEM, Save
  <1>7. ASSUME NEW m \in Maintainers, Failure(m) PROVE HasRow(k)'
    BY <1>1, <1>2, <1>3, <1>7 DEF Failure, PersistECFails, PersistKEMFails, UploadFails,
                UploadLost, SaveFails
  <1>8. ASSUME NEW m \in Maintainers, NEW msg \in inflight, Receive(m, msg) PROVE HasRow(k)'
    BY <1>1, <1>2, <1>8 DEF Receive, DecryptPreKey, DecryptFails
  <1>9. QED
    BY <1>4, <1>5, <1>6, <1>7, <1>8 DEF PreKeyNext

\* For any number of goroutines topping up at the same time, with any faults,
\* lost answers and crashes: PersistOneTimePreKeys comes before PUT /v2/keys,
\* and no step deletes a Kyber row, so a message that uses a one-time Kyber
\* key never meets an id the local store does not know.
THEOREM PreKeyRows == PreKeySpec => []PublishedHasRow
  <1>1. PreKeyInit => RowsFirst /\ PublishedHasRow
    BY DEF PreKeyInit, RowsFirst, PublishedHasRow
  <1>2. PreKeyTypeOK /\ RowsFirst /\ PublishedHasRow /\ [PreKeyNext]_preKeyVars
        => RowsFirst' /\ PublishedHasRow'
    BY RowsFirstStep, RowsStep
  <1>3. QED
    BY <1>1, <1>2, PreKeyTypeCorrect, PTL DEF PreKeySpec

----------------------------------------------------------------------------
(***************************************************************************)
(* What holds of any number of goroutines as long as no two of them top up *)
(* at the same time.  The code does not see to that: MaybeTopUp takes no   *)
(* lock, and with two top-ups at a time all of this fails.  Messages may   *)
(* be decrypted, and keys counted, in the middle of another's top-up.      *)
(***************************************************************************)
\* The steps outside of a top-up.
Away == {"idle", "count"}

OneTopUp == \A m, n \in Maintainers : pc[m] \notin Away /\ pc[n] \notin Away => m = n

\* The goroutine works on ids it read from the account ...
Working == {"generate", "persistEC", "persistKEM", "upload", "advanceEC", "advanceKEM"}

\* ... and has validated the EC ones.
Validated == {"persistEC", "persistKEM", "upload"}

\* The EC and the Kyber counter part only between the two assignments that
\* advance them, so the validation of the EC ids covers the Kyber ids.
CountersTogether ==
    /\ saved.ec = saved.kem
    /\ (\A m \in Maintainers : pc[m] # "advanceKEM") => next.ec = next.kem
    /\ \A m \in Maintainers :
         /\ pc[m] = "advanceKEM" => next.ec = base[m].ec + TopUpBatch
         /\ pc[m] \in Working => base[m].ec = base[m].kem
         /\ pc[m] \in Validated => ValidIDs(base[m].ec, TopUpBatch)

KyberInv == PreKeyTypeOK /\ CountersTogether /\ KyberIDsValid

LEMMA KyberInit == PreKeyInit => CountersTogether /\ KyberIDsValid
  <1> SUFFICES ASSUME PreKeyInit PROVE CountersTogether /\ KyberIDsValid
    OBVIOUS
  <1> USE PreKeyAssumption
  <1>1. CountersTogether
    BY DEF PreKeyInit, CountersTogether, Working, Validated
  <1>2. KyberIDsValid
    BY BatchIsTable DEF PreKeyInit, KyberIDsValid
  <1>3. QED
    BY <1>1, <1>2

\* The Kyber keys a goroutine stores or uploads have valid ids.
LEMMA OwnKyberIDs ==
    ASSUME KyberInv, NEW m \in Maintainers, pc[m] \in Validated,
           NEW n \in 0..TopUpBatch
    PROVE  \A k \in Batch(base[m].kem, n, tag[m]) : k[1] \in 1..MaxID
  <1> USE PreKeyAssumption
  <1>1. base[m].kem >= 1 /\ base[m].kem + TopUpBatch - 1 <= MaxID
    BY DEF KyberInv, CountersTogether, Validated, Working, ValidIDs
  <1>2. base[m].kem \in Nat /\ tag[m] \in Nat
    BY OwnBatches DEF KyberInv
  <1>3. QED
    BY <1>1, <1>2, BatchIsTable

LEMMA KyberStep ==
    ASSUME OneTopUp, OneTopUp', KyberInv, [PreKeyNext]_preKeyVars
    PROVE  CountersTogether' /\ KyberIDsValid'
  <1> USE PreKeyAssumption DEF Goto, storeVars, srvVars, acctVars, workVars, envVars
  <1>t. /\ pc \in [Maintainers -> Steps] /\ base \in [Maintainers -> Counters]
        /\ next \in Counters /\ saved \in Counters
    BY DEF KyberInv, PreKeyTypeOK
  <1>0. ASSUME UNCHANGED <<kem, srvKEM, next, saved, base>>,
               NEW m \in Maintainers, NEW step \in {"idle", "count", "persistKEM", "save"},
               pc' = [pc EXCEPT ![m] = step] \/ pc' = pc,
               step = "persistKEM" => pc[m] = "persistEC",
               pc[m] # "advanceKEM"
        PROVE  CountersTogether' /\ KyberIDsValid'
    BY <1>0, <1>t DEF KyberInv, CountersTogether, KyberIDsValid, Working, Validated, ValidIDs
  <1>1. CASE HandOut
    <2>1. CountersTogether'
      BY <1>1 DEF HandOut, KyberInv, CountersTogether, ValidIDs
    <2>2. KyberIDsValid'
      BY <1>1 DEF HandOut, KyberInv, KyberIDsValid
    <2>3. QED
      BY <2>1, <2>2
  <1>2. CASE Crash
    <2>1. CountersTogether'
      BY <1>2, <1>t DEF Crash, KyberInv, CountersTogether, Working, Validated
    <2>2. KyberIDsValid'
      BY <1>2 DEF Crash, KyberInv, KyberIDsValid
    <2>3. QED
      BY <2>1, <2>2
  <1>3. ASSUME NEW m \in Maintainers, NEW msg \in inflight, Receive(m, msg)
        PROVE  CountersTogether' /\ KyberIDsValid'
    BY <1>3, <1>0 DEF Receive, DecryptPreKey, DecryptFails
  <1>4. ASSUME NEW m \in Maintainers, MaybeTopUp(m)
        PROVE  CountersTogether' /\ KyberIDsValid'
    <2>1. CASE CountEnough(m)
      BY <1>0, <2>1 DEF CountEnough
    <2>2. CASE CountLow(m)
      <3>1. \A n \in Maintainers : pc[n] # "advanceKEM"
        BY <2>2, <1>t DEF CountLow, OneTopUp, Away
      <3>2. next.ec = next.kem /\ base'[m] = next /\ pc'[m] = "generate"
        BY <2>2, <3>1, <1>t DEF CountLow, KyberInv, CountersTogether
      <3>3. CountersTogether'
        BY <2>2, <3>2, <1>t DEF CountLow, KyberInv, CountersTogether, OneTopUp, Away, Working, Validated
      <3>4. QED
        BY <2>2, <3>3 DEF CountLow, KyberInv, KyberIDsValid
    <2>3. CASE Generate(m)
      BY <2>3, <1>t DEF Generate, KyberInv, CountersTogether, KyberIDsValid, Working, Validated, ValidIDs
    <2>4. CASE OutOfIDs(m)
      BY <1>0, <2>4 DEF OutOfIDs
    <2>5. CASE PersistEC(m)
      BY <1>0, <2>5 DEF PersistEC
    <2>6. CASE PersistKEM(m)
      <3>1. CountersTogether'
        BY <2>6, <1>t DEF PersistKEM, KyberInv, CountersTogether, Working, Validated, ValidIDs
      <3>2. \A k \in KEMBatch(m) : k[1] \in 1..MaxID
        BY <2>6, OwnKyberIDs DEF PersistKEM, KEMBatch, Validated
      <3>3. KyberIDsValid'
        BY <2>6, <3>2 DEF PersistKEM, Store, KyberInv, KyberIDsValid
      <3>4. QED
        BY <3>1, <3>3
    <2>7. CASE Upload(m)
      <3>1. CountersTogether'
        BY <2>7, <1>t DEF Upload, Publish, KyberInv, CountersTogether, Working, Validated, ValidIDs
      <3>2. \A k \in KEMBatch(m) : k[1] \in 1..MaxID
        BY <2>7, OwnKyberIDs DEF Upload, KEMBatch, Validated
      <3>3. KyberIDsValid'
        BY <2>7, <3>2 DEF Upload, Publish, Store, KyberInv, KyberIDsValid
      <3>4. QED
        BY <3>1, <3>3
    <2>8. CASE AdvanceEC(m)
      <3>1. /\ pc' = [pc EXCEPT ![m] = "advanceKEM"] /\ base' = base /\ saved' = saved
            /\ next'.ec = base[m].ec + TopUpBatch
        BY <2>8, <1>t DEF AdvanceEC, Counters
      <3>2. CountersTogether'
        BY <2>8, <3>1, <1>t DEF AdvanceEC, KyberInv, CountersTogether, OneTopUp, Away, Working, Validated
      <3>3. QED
        BY <2>8, <3>2 DEF AdvanceEC, KyberInv, KyberIDsValid
    <2>9. CASE AdvanceKEM(m)
      <3>1. /\ pc' = [pc EXCEPT ![m] = "save"] /\ base' = base /\ saved' = saved
            /\ next'.kem = base[m].kem + TopUpBatch /\ next'.ec = next.ec
        BY <2>9, <1>t DEF AdvanceKEM, Counters
      <3>2. next'.kem = next'.ec
        BY <2>9, <3>1 DEF AdvanceKEM, KyberInv, CountersTogether, Working
      <3>3. CountersTogether'
        BY <2>9, <3>1, <3>2, <1>t DEF AdvanceKEM, KyberInv, CountersTogether, OneTopUp, Away, Working, Validated
      <3>4. QED
        BY <2>9, <3>3 DEF AdvanceKEM, KyberInv, KyberIDsValid
    <2>10. CASE Save(m)
      <3>1. next.ec = next.kem
        BY <2>10 DEF Save, KyberInv, CountersTogether, OneTopUp, Away
      <3>2. CountersTogether'
        BY <2>10, <3>1, <1>t DEF Save, KyberInv, CountersTogether, OneTopUp, Away, Working, Validated
      <3>3. QED
        BY <2>10, <3>2 DEF Save, KyberInv, KyberIDsValid
    <2>11. QED
      BY <1>4, <2>1, <2>2, <2>3, <2>4, <2>5, <2>6, <2>7, <2>8, <2>9, <2>10 DEF MaybeTopUp
  <1>5. ASSUME NEW m \in Maintainers, Failure(m)
        PROVE  CountersTogether' /\ KyberIDsValid'
    <2>1. CASE PersistECFails(m)
      BY <1>0, <2>1 DEF PersistECFails
    <2>2. CASE PersistKEMFails(m)
      <3>1. CountersTogether'
        BY <2>2, <1>t DEF PersistKEMFails, KyberInv, CountersTogether, Working, Validated, ValidIDs
      <3>2. PICK n \in 0..(TopUpBatch - 1) : kem' = Store(kem, Batch(base[m].kem, n, tag[m]))
        BY <2>2 DEF PersistKEMFails
      <3>3. \A k \in Batch(base[m].kem, n, tag[m]) : k[1] \in 1..MaxID
        BY <2>2, OwnKyberIDs DEF PersistKEMFails, Validated
      <3>4. KyberIDsValid'
        BY <2>2, <3>2, <3>3 DEF PersistKEMFails, Store, KyberInv, KyberIDsValid
      <3>5. QED
        BY <3>1, <3>4
    <2>3. CASE UploadFails(m)
      BY <1>0, <2>3 DEF UploadFails
    <2>4. CASE UploadLost(m)
      <3>1. CountersTogether'
        BY <2>4, <1>t DEF UploadLost, Publish, KyberInv, CountersTogether, Working, Validated, ValidIDs
      <3>2. \A k \in KEMBatch(m) : k[1] \in 1..MaxID
        BY <2>4, OwnKyberIDs DEF UploadLost, KEMBatch, Validated
      <3>3. KyberIDsValid'
        BY <2>4, <3>2 DEF UploadLost, Publish, Store, KyberInv, KyberIDsValid
      <3>4. QED
        BY <3>1, <3>3
    <2>5. CASE SaveFails(m)
      BY <1>0, <2>5 DEF SaveFails
    <2>6. QED
      BY <1>5, <2>1, <2>2, <2>3, <2>4, <2>5 DEF Failure
  <1>6. CASE UNCHANGED preKeyVars
    BY <1>6 DEF preKeyVars, KyberInv, CountersTogether, KyberIDsValid, ValidIDs
  <1>7. QED
    BY <1>1, <1>2, <1>3, <1>4, <1>5, <1>6 DEF PreKeyNext

\* In a run in which no two goroutines top up at a time, Kyber ids stay in
\* range through any faults, lost answers and crashes, although nothing
\* validates them: NextPreKeyID and NextKyberPreKeyID move together.
THEOREM PreKeyKyberIDs == PreKeySpec /\ []OneTopUp => []KyberIDsValid
  <1>1. PreKeyInit => CountersTogether /\ KyberIDsValid
    BY KyberInit
  <1>2. /\ OneTopUp /\ OneTopUp'
        /\ PreKeyTypeOK /\ CountersTogether /\ KyberIDsValid /\ [PreKeyNext]_preKeyVars
        => CountersTogether' /\ KyberIDsValid'
    BY KyberStep DEF KyberInv
  <1>3. QED
    BY <1>1, <1>2, PreKeyTypeCorrect, PTL DEF PreKeySpec

----------------------------------------------------------------------------
(***************************************************************************)
(* No lost answer and no crash: what the server has stays decryptable.     *)
(***************************************************************************)
PublishedEC == srvEC \cup ({msg.ec : msg \in inflight} \ {NoKey})
PublishedKEM == srvKEM \cup ({msg.kem : msg \in inflight} \ {NoKey})

\* Ids from the account's counters on are unpublished; between the upload
\* and the assignment they were advanced for, from the batch's end on.
IDsFresh ==
    /\ next.ec >= 1
    /\ \A k \in PublishedEC :
         /\ k[1] >= 1
         /\ \/ k[1] < next.ec
            \/ \E m \in Maintainers : pc[m] = "advanceEC" /\ k[1] < base[m].ec + TopUpBatch
    /\ \A k \in PublishedKEM :
         \/ k[1] < next.kem
         \/ \E m \in Maintainers : /\ pc[m] \in {"advanceEC", "advanceKEM"}
                                   /\ k[1] < base[m].kem + TopUpBatch

\* A goroutine works on the ids that are next, and has stored its batch
\* before it uploads it.
BatchReady ==
    \A m \in Maintainers :
        /\ pc[m] \in Working \ {"advanceKEM"} => base[m].ec = next.ec
        /\ pc[m] \in Working => base[m].kem = next.kem
        /\ pc[m] \in {"persistKEM", "upload"} => ECBatch(m) \subseteq ec
        /\ pc[m] = "upload" => KEMBatch(m) \subseteq kem

\* The server hands an EC key out once.
HandedOutOnce ==
    \A msg \in inflight :
        msg.ec # NoKey => /\ msg.ec \notin srvEC
                          /\ \A other \in inflight : other.ec = msg.ec => other = msg

\* The published EC, and Kyber, keys are in the local store.
StoredEC == PublishedEC \subseteq ec
StoredKEM == PublishedKEM \subseteq kem

PublishedInv == IDsFresh /\ BatchReady /\ HandedOutOnce /\ StoredEC /\ StoredKEM

LEMMA PublishedInit == PreKeyInit => PublishedInv
  <1> SUFFICES ASSUME PreKeyInit PROVE PublishedInv
    OBVIOUS
  <1> USE PreKeyAssumption
  <1> DEFINE first == Batch(2, TopUpBatch, 1)
  <1>1. \A k \in first : k[1] \in 2..(TopUpBatch + 1)
    BY BatchIsTable
  <1>2. PublishedEC = first /\ PublishedKEM = first /\ ec = first /\ kem = first
    BY DEF PreKeyInit, PublishedEC, PublishedKEM
  <1>3. IDsFresh
    BY <1>1, <1>2 DEF PreKeyInit, IDsFresh
  <1>4. BatchReady /\ HandedOutOnce /\ StoredEC /\ StoredKEM
    BY <1>2 DEF PreKeyInit, BatchReady, HandedOutOnce, StoredEC, StoredKEM, Working
  <1>5. QED
    BY <1>3, <1>4 DEF PublishedInv

\* Before the upload, the ids of a goroutine's batch are unpublished.
LEMMA OwnIDsFresh ==
    ASSUME OneTopUp, PreKeyTypeOK, PublishedInv, NEW m \in Maintainers,
           pc[m] \in {"generate", "persistEC", "persistKEM", "upload"},
           NEW n \in 0..TopUpBatch
    PROVE  /\ \A k \in PublishedEC, j \in Batch(base[m].ec, n, tag[m]) : j[1] # k[1]
           /\ \A k \in PublishedKEM, j \in Batch(base[m].kem, n, tag[m]) : j[1] # k[1]
  <1> USE PreKeyAssumption
  <1>1. base[m].ec = next.ec /\ base[m].kem = next.kem
    BY DEF PublishedInv, BatchReady, Working
  <1>2. /\ \A k \in PublishedEC : k[1] < base[m].ec
        /\ \A k \in PublishedKEM : k[1] < base[m].kem
    BY <1>1 DEF PublishedInv, IDsFresh, OneTopUp, Away
  <1>3. PublishedEC \subseteq Keys /\ PublishedKEM \subseteq Keys
    BY DEF PreKeyTypeOK, PublishedEC, PublishedKEM, Table, Messages
  <1>4. base[m].ec \in Nat /\ base[m].kem \in Nat /\ tag[m] \in Nat /\ n \in Nat
    BY OwnBatches
  <1>5. \A k \in Keys : k[1] \in Nat
    BY DEF Keys
  <1>6. /\ \A j \in Batch(base[m].ec, n, tag[m]) : j[1] \in Nat /\ j[1] >= base[m].ec
        /\ \A j \in Batch(base[m].kem, n, tag[m]) : j[1] \in Nat /\ j[1] >= base[m].kem
    <2>1. \A j \in Batch(base[m].ec, n, tag[m]) : j[1] \in base[m].ec..(base[m].ec + n - 1)
      BY <1>4, BatchIsTable
    <2>2. \A j \in Batch(base[m].kem, n, tag[m]) : j[1] \in base[m].kem..(base[m].kem + n - 1)
      BY <1>4, BatchIsTable
    <2>3. QED
      BY <1>4, <2>1, <2>2
  <1>7. QED
    BY <1>2, <1>3, <1>4, <1>5, <1>6

LEMMA PublishedHandOut ==
    ASSUME PreKeyTypeOK, PublishedInv, HandOut PROVE PublishedInv'
  <1> USE DEF storeVars, acctVars, workVars, envVars
  <1>1. PICK e \in (IF srvEC = {} THEN {NoKey} ELSE srvEC),
             k \in (IF srvKEM = {} THEN {NoKey} ELSE srvKEM) :
             /\ inflight' = inflight \cup {[ec |-> e, kem |-> k]}
             /\ srvEC' = srvEC \ {e}
             /\ srvKEM' = srvKEM \ {k}
    BY DEF HandOut
  <1>2. PublishedEC' \subseteq PublishedEC
    <2> SUFFICES ASSUME NEW x \in PublishedEC' PROVE x \in PublishedEC
      OBVIOUS
    <2>1. CASE x \in srvEC'
      BY <1>1, <2>1 DEF PublishedEC
    <2>2. CASE x # NoKey /\ \E msg \in inflight' : x = msg.ec
      <3>1. PICK msg \in inflight' : x = msg.ec
        BY <2>2
      <3>2. CASE msg \in inflight
        BY <2>2, <3>1, <3>2 DEF PublishedEC
      <3>3. CASE msg = [ec |-> e, kem |-> k]
        BY <1>1, <2>2, <3>1, <3>3 DEF PublishedEC
      <3>4. QED
        BY <1>1, <3>2, <3>3
    <2>3. QED
      BY <2>1, <2>2 DEF PublishedEC
  <1>3. PublishedKEM' \subseteq PublishedKEM
    <2> SUFFICES ASSUME NEW x \in PublishedKEM' PROVE x \in PublishedKEM
      OBVIOUS
    <2>1. CASE x \in srvKEM'
      BY <1>1, <2>1 DEF PublishedKEM
    <2>2. CASE x # NoKey /\ \E msg \in inflight' : x = msg.kem
      <3>1. PICK msg \in inflight' : x = msg.kem
        BY <2>2
      <3>2. CASE msg \in inflight
        BY <2>2, <3>1, <3>2 DEF PublishedKEM
      <3>3. CASE msg = [ec |-> e, kem |-> k]
        BY <1>1, <2>2, <3>1, <3>3 DEF PublishedKEM
      <3>4. QED
        BY <1>1, <3>2, <3>3
    <2>3. QED
      BY <2>1, <2>2 DEF PublishedKEM
  <1>4. UNCHANGED <<ec, kem, used, next, pc, base, tag>>
    BY DEF HandOut
  <1>5. IDsFresh' /\ StoredEC' /\ StoredKEM'
    BY <1>2, <1>3, <1>4 DEF PublishedInv, IDsFresh, StoredEC, StoredKEM
  <1>6. BatchReady'
    BY <1>4 DEF PublishedInv, BatchReady, ECBatch, KEMBatch
  <1>7. HandedOutOnce'
    <2> SUFFICES ASSUME NEW msg \in inflight', msg.ec # NoKey
                 PROVE  /\ msg.ec \notin srvEC'
                        /\ \A other \in inflight' : other.ec = msg.ec => other = msg
      BY DEF HandedOutOnce
    <2>1. CASE msg \in inflight
      <3>1. msg.ec \notin srvEC /\ \A other \in inflight : other.ec = msg.ec => other = msg
        BY <2>1 DEF PublishedInv, HandedOutOnce
      <3>2. e # msg.ec
        BY <3>1
      <3>3. QED
        BY <1>1, <3>1, <3>2
    <2>2. CASE msg = [ec |-> e, kem |-> k]
      <3>1. msg.ec = e /\ e \in srvEC
        BY <2>2
      <3>2. \A other \in inflight : other.ec # e
        BY <3>1 DEF PublishedInv, HandedOutOnce
      <3>3. QED
        BY <1>1, <2>2, <3>1, <3>2
    <2>3. QED
      BY <1>1, <2>1, <2>2
  <1>8. QED
    BY <1>5, <1>6, <1>7 DEF PublishedInv

\* A message does not use a key of a batch that is not uploaded.
LEMMA ForeignToBatch ==
    ASSUME OneTopUp, PreKeyTypeOK, PublishedInv, NEW n \in Maintainers,
           pc[n] \in {"persistKEM", "upload"}, NEW msg \in inflight
    PROVE  /\ \A k \in ECBatch(n) : k[1] # msg.ec[1]
           /\ msg.kem # NoKey => \A k \in KEMBatch(n) : k[1] # msg.kem[1]
  <1> USE PreKeyAssumption
  <1>3. msg.kem # NoKey => \A k \in KEMBatch(n) : k[1] # msg.kem[1]
    <2>1. msg.kem # NoKey => msg.kem \in PublishedKEM
      BY DEF PublishedKEM
    <2>2. QED
      BY <2>1, OwnIDsFresh DEF KEMBatch
  <1>1. CASE msg.ec = NoKey
    <2>1. base[n].ec >= 1 /\ base[n].ec \in Nat /\ tag[n] \in Nat
      BY OwnBatches DEF PublishedInv, IDsFresh, BatchReady, Working
    <2>2. \A k \in ECBatch(n) : k[1] \in base[n].ec..(base[n].ec + TopUpBatch - 1)
      BY <2>1, BatchIsTable DEF ECBatch
    <2>3. \A k \in ECBatch(n) : k[1] # 0
      BY <2>1, <2>2
    <2>4. msg.ec[1] = 0
      BY <1>1 DEF NoKey
    <2>5. QED
      BY <2>3, <2>4, <1>3
  <1>2. CASE msg.ec # NoKey
    <2>1. msg.ec \in PublishedEC
      BY <1>2 DEF PublishedEC
    <2>2. QED
      BY <2>1, <1>3, OwnIDsFresh DEF ECBatch
  <1>4. QED
    BY <1>1, <1>2

LEMMA PublishedReceive ==
    ASSUME OneTopUp, PreKeyTypeOK, PublishedInv,
           NEW m \in Maintainers, NEW msg \in inflight, Receive(m, msg)
    PROVE  PublishedInv'
  <1> USE DEF storeVars, acctVars, workVars, envVars, Goto
  <1>1. /\ inflight' = inflight \ {msg} /\ srvEC' = srvEC /\ srvKEM' = srvKEM
        /\ kem' = kem /\ next' = next /\ base' = base /\ tag' = tag
        /\ pc[m] = "idle" /\ pc' \in {pc, [pc EXCEPT ![m] = "count"]}
    BY DEF Receive, DecryptPreKey, DecryptFails
  <1>2. /\ pc'[m] \in {"idle", "count"}
        /\ \A n \in Maintainers : n # m => pc'[n] = pc[n]
    BY <1>1 DEF PreKeyTypeOK
  <1>3. PublishedEC' \subseteq PublishedEC /\ PublishedKEM' \subseteq PublishedKEM
    BY <1>1 DEF PublishedEC, PublishedKEM
  <1>4. IDsFresh' /\ StoredKEM'
    BY <1>1, <1>2, <1>3 DEF PublishedInv, IDsFresh, StoredKEM
  <1>b. BatchReady'
    <2>1. ASSUME NEW n \in Maintainers, pc'[n] \in {"persistKEM", "upload"}
          PROVE  ECBatch(n)' \subseteq ec'
      <3>1. /\ n # m /\ pc[n] \in {"persistKEM", "upload"} /\ ECBatch(n)' = ECBatch(n)
            /\ ECBatch(n) \subseteq ec
        BY <1>1, <1>2, <2>1 DEF PublishedInv, BatchReady, ECBatch
      <3>2. \A k \in ECBatch(n) : k[1] # msg.ec[1]
        BY <3>1, ForeignToBatch
      <3>3. QED
        BY <3>1, <3>2 DEF Receive, DecryptPreKey, DecryptFails
    <2>2. QED
      BY <1>1, <1>2, <2>1 DEF PublishedInv, BatchReady, Working, KEMBatch
  <1>5. HandedOutOnce'
    BY <1>1 DEF PublishedInv, HandedOutOnce
  <1>6. StoredEC'
    <2> SUFFICES ASSUME NEW k \in PublishedEC' PROVE k \in ec'
      BY DEF StoredEC
    <2>1. k \in ec /\ k \in PublishedEC
      BY <1>3 DEF PublishedInv, StoredEC
    <2>2. CASE DecryptFails(m, msg)
      BY <2>1, <2>2 DEF DecryptFails
    <2>3. CASE DecryptPreKey(m, msg)
      <3>1. SUFFICES k[1] # msg.ec[1]
        BY <2>1, <2>3 DEF DecryptPreKey
      <3>2. CASE msg.ec = NoKey
        <4>1. k[1] >= 1 /\ k[1] \in Nat
          BY <2>1 DEF PublishedInv, IDsFresh, PreKeyTypeOK, Table, Keys
        <4>2. QED
          BY <3>2, <4>1 DEF NoKey
      <3>3. CASE msg.ec # NoKey
        <4>1. msg.ec \in ec
          BY <2>3, <3>3 DEF DecryptPreKey, Held
        <4>2. k # msg.ec
          BY <1>1, <3>3 DEF PublishedEC, PublishedInv, HandedOutOnce
        <4>3. QED
          BY <2>1, <4>1, <4>2 DEF PreKeyTypeOK, Table
      <3>4. QED
        BY <3>2, <3>3
    <2>4. QED
      BY <2>2, <2>3 DEF Receive
  <1>7. QED
    BY <1>4, <1>b, <1>5, <1>6 DEF PublishedInv

\* A step that publishes nothing and removes nothing published.
LEMMA PublishedQuiet ==
    ASSUME PublishedInv, UNCHANGED <<srvEC, srvKEM, inflight>>,
           PublishedEC \subseteq ec', PublishedKEM \subseteq kem'
    PROVE  /\ PublishedEC' = PublishedEC /\ PublishedKEM' = PublishedKEM
           /\ HandedOutOnce' /\ StoredEC' /\ StoredKEM'
  BY DEF PublishedInv, PublishedEC, PublishedKEM, HandedOutOnce, StoredEC, StoredKEM

\* A goroutine that gives up or has nothing to do.
LEMMA PublishedIdle ==
    ASSUME OneTopUp, PreKeyTypeOK, PublishedInv, NEW m \in Maintainers,
           UNCHANGED <<srvEC, srvKEM, inflight, next, base, tag>>,
           PublishedEC \subseteq ec', PublishedKEM \subseteq kem',
           pc[m] \in Away => UNCHANGED <<ec, kem>>,
           pc[m] \notin {"advanceEC", "advanceKEM"},
           pc' = [pc EXCEPT ![m] = "idle"]
    PROVE  PublishedInv'
  <1>1. pc'[m] = "idle" /\ \A n \in Maintainers : n # m => pc'[n] = pc[n]
    BY DEF PreKeyTypeOK
  <1>2. IDsFresh'
    BY <1>1, PublishedQuiet DEF PublishedInv, IDsFresh
  <1>3. BatchReady'
    <2>1. CASE pc[m] \in Away
      BY <1>1, <2>1 DEF PublishedInv, BatchReady, Working, ECBatch, KEMBatch
    <2>2. CASE pc[m] \notin Away
      <3>1. \A n \in Maintainers : pc'[n] \in Away
        BY <1>1, <2>2 DEF OneTopUp, Away
      <3>2. QED
        BY <3>1 DEF BatchReady, Working, Away
    <2>3. QED
      BY <2>1, <2>2
  <1>4. QED
    BY <1>2, <1>3, PublishedQuiet DEF PublishedInv

\* Storing (a part of) the batch replaces no published key.
LEMMA StoreKeepsPublished ==
    ASSUME OneTopUp, PreKeyTypeOK, PublishedInv, NEW m \in Maintainers,
           pc[m] \in {"persistEC", "persistKEM"}, NEW n \in 0..TopUpBatch
    PROVE  /\ PublishedEC \subseteq Store(ec, Batch(base[m].ec, n, tag[m]))
           /\ PublishedKEM \subseteq Store(kem, Batch(base[m].kem, n, tag[m]))
  BY OwnIDsFresh DEF Store, PublishedInv, StoredEC, StoredKEM

LEMMA PublishedFailure ==
    ASSUME OneTopUp, Intact', PreKeyTypeOK, PublishedInv, NEW m \in Maintainers, Failure(m)
    PROVE  PublishedInv'
  <1> USE PreKeyAssumption DEF storeVars, srvVars, acctVars, workVars, envVars, Goto
  <1>0. PublishedEC \subseteq ec /\ PublishedKEM \subseteq kem
    BY DEF PublishedInv, StoredEC, StoredKEM
  <1>1. CASE PersistECFails(m)
    <2>1. PICK n \in 0..(TopUpBatch - 1) : ec' = Store(ec, Batch(base[m].ec, n, tag[m]))
      BY <1>1 DEF PersistECFails
    <2>2. PublishedEC \subseteq ec'
      BY <1>1, <2>1, StoreKeepsPublished DEF PersistECFails
    <2>3. QED
      BY <1>0, <1>1, <2>2, PublishedIdle DEF PersistECFails, Away
  <1>2. CASE PersistKEMFails(m)
    <2>1. PICK n \in 0..(TopUpBatch - 1) : kem' = Store(kem, Batch(base[m].kem, n, tag[m]))
      BY <1>2 DEF PersistKEMFails
    <2>2. PublishedKEM \subseteq kem'
      BY <1>2, <2>1, StoreKeepsPublished DEF PersistKEMFails
    <2>3. QED
      BY <1>0, <1>2, <2>2, PublishedIdle DEF PersistKEMFails, Away
  <1>3. CASE UploadFails(m)
    BY <1>0, <1>3, PublishedIdle DEF UploadFails, Away
  <1>4. CASE UploadLost(m)
    BY <1>4 DEF UploadLost, Intact, PreKeyTypeOK
  <1>5. CASE SaveFails(m)
    BY <1>0, <1>5, PublishedIdle DEF SaveFails, Away
  <1>6. QED
    BY <1>1, <1>2, <1>3, <1>4, <1>5 DEF Failure

LEMMA PublishedUpload ==
    ASSUME OneTopUp, PreKeyTypeOK, PublishedInv, NEW m \in Maintainers, Upload(m)
    PROVE  PublishedInv'
  <1> USE PreKeyAssumption DEF storeVars, acctVars, workVars, envVars, Goto
  <1>1. /\ srvEC' = Store(srvEC, ECBatch(m)) /\ srvKEM' = Store(srvKEM, KEMBatch(m))
        /\ UNCHANGED <<inflight, ec, kem, next, base, tag>>
        /\ pc[m] = "upload" /\ pc' = [pc EXCEPT ![m] = "advanceEC"]
    BY DEF Upload, Publish
  <1>2. /\ PublishedEC' \subseteq PublishedEC \cup ECBatch(m)
        /\ PublishedKEM' \subseteq PublishedKEM \cup KEMBatch(m)
    BY <1>1 DEF PublishedEC, PublishedKEM, Store
  <1>3. /\ base[m].ec = next.ec /\ base[m].kem = next.kem
        /\ ECBatch(m) \subseteq ec /\ KEMBatch(m) \subseteq kem
    BY <1>1 DEF PublishedInv, BatchReady, Working
  <1>4. StoredEC' /\ StoredKEM'
    BY <1>1, <1>2, <1>3 DEF PublishedInv, StoredEC, StoredKEM
  <1>5. /\ pc'[m] = "advanceEC"
        /\ \A n \in Maintainers : n # m => pc'[n] = pc[n] /\ pc[n] \in {"idle", "count"}
    BY <1>1 DEF OneTopUp, Away, PreKeyTypeOK
  <1>6. BatchReady'
    BY <1>1, <1>3, <1>5 DEF BatchReady, Working
  <1>7. HandedOutOnce'
    <2>1. \A msg \in inflight : msg.ec # NoKey => msg.ec \in PublishedEC
      BY DEF PublishedEC
    <2>2. \A msg \in inflight : msg.ec # NoKey => msg.ec \notin ECBatch(m)
      BY <1>1, <2>1, OwnIDsFresh DEF ECBatch
    <2>3. QED
      BY <1>1, <2>2 DEF PublishedInv, HandedOutOnce, Store
  <1>8. IDsFresh'
    <2>1. /\ \A k \in ECBatch(m) : k[1] \in Nat /\ k[1] >= base[m].ec /\ k[1] < base[m].ec + TopUpBatch
          /\ \A k \in KEMBatch(m) : k[1] \in Nat /\ k[1] < base[m].kem + TopUpBatch
      <3>1. base[m].ec \in Nat /\ base[m].kem \in Nat /\ tag[m] \in Nat
        BY OwnBatches
      <3>2. /\ \A k \in ECBatch(m) : k[1] \in base[m].ec..(base[m].ec + TopUpBatch - 1)
            /\ \A k \in KEMBatch(m) : k[1] \in base[m].kem..(base[m].kem + TopUpBatch - 1)
        BY <3>1, BatchIsTable DEF ECBatch, KEMBatch
      <3>3. QED
        BY <3>1, <3>2
    <2>2. /\ \A k \in PublishedEC : k[1] >= 1 /\ k[1] < next.ec
          /\ \A k \in PublishedKEM : k[1] < next.kem
      BY <1>1, <1>5 DEF PublishedInv, IDsFresh
    <2>3. next.ec >= 1 /\ next.ec \in Nat
      BY DEF PublishedInv, IDsFresh, PreKeyTypeOK, Counters
    <2>4. \A k \in PublishedEC' :
            k[1] >= 1 /\ (k[1] < next'.ec \/ k[1] < base'[m].ec + TopUpBatch)
      BY <1>1, <1>2, <1>3, <2>1, <2>2, <2>3
    <2>5. \A k \in PublishedKEM' : k[1] < next'.kem \/ k[1] < base'[m].kem + TopUpBatch
      BY <1>1, <1>2, <2>1, <2>2
    <2>6. QED
      BY <1>1, <1>5, <2>3, <2>4, <2>5 DEF IDsFresh
  <1>9. QED
    BY <1>4, <1>6, <1>7, <1>8 DEF PublishedInv

LEMMA PublishedTopUp ==
    ASSUME OneTopUp, OneTopUp', PreKeyTypeOK, PublishedInv, NEW m \in Maintainers, MaybeTopUp(m)
    PROVE  PublishedInv'
  <1> USE PreKeyAssumption DEF storeVars, srvVars, acctVars, workVars, envVars, Goto
  <1>0. PublishedEC \subseteq ec /\ PublishedKEM \subseteq kem
    BY DEF PublishedInv, StoredEC, StoredKEM
  <1>t. /\ pc \in [Maintainers -> Steps] /\ base \in [Maintainers -> Counters]
        /\ tag \in [Maintainers -> 0..MaxGen] /\ next \in Counters
        /\ TopUpBatch \in 0..TopUpBatch
    BY DEF PreKeyTypeOK
  <1>o. ASSUME NEW n \in Maintainers, n # m, pc[m] # "count" \/ CountLow(m)
        PROVE  pc'[n] = pc[n] /\ pc[n] \in {"idle", "count"}
    <2>1. pc'[n] = pc[n]
      BY <1>t, <1>o DEF MaybeTopUp, CountEnough, CountLow, Generate, OutOfIDs, PersistEC,
                        PersistKEM, Upload, AdvanceEC, AdvanceKEM, Save
    <2>2. CASE CountLow(m)
      BY <1>t, <1>o, <2>1, <2>2 DEF CountLow, OneTopUp, Away
    <2>3. CASE pc[m] # "count"
      <3>1. pc[m] # "idle"
        BY DEF MaybeTopUp, CountEnough, CountLow, Generate, OutOfIDs, PersistEC,
               PersistKEM, Upload, AdvanceEC, AdvanceKEM, Save
      <3>2. QED
        BY <1>o, <2>1, <2>3, <3>1 DEF OneTopUp, Away
    <2>4. QED
      BY <1>o, <2>2, <2>3
  <1>k. /\ \A k \in PublishedEC : k[1] \in Nat
        /\ \A k \in PublishedKEM : k[1] \in Nat
    BY <1>0 DEF PreKeyTypeOK, Table, Keys
  <1>1. CASE CountEnough(m)
    BY <1>0, <1>1, PublishedIdle DEF CountEnough, Away
  <1>2. CASE CountLow(m)
    <2>1. HandedOutOnce' /\ StoredEC' /\ StoredKEM'
      BY <1>0, <1>2, PublishedQuiet DEF CountLow
    <2>2. IDsFresh' /\ BatchReady'
      BY <1>0, <1>2, <1>t, <1>o, PublishedQuiet DEF CountLow, PublishedInv, IDsFresh, BatchReady, Working
    <2>3. QED
      BY <2>1, <2>2 DEF PublishedInv
  <1>3. CASE Generate(m)
    <2>1. HandedOutOnce' /\ StoredEC' /\ StoredKEM'
      BY <1>0, <1>3, PublishedQuiet DEF Generate
    <2>2. IDsFresh' /\ BatchReady'
      BY <1>0, <1>3, <1>t, <1>o, PublishedQuiet DEF Generate, PublishedInv, IDsFresh, BatchReady, Working
    <2>3. QED
      BY <2>1, <2>2 DEF PublishedInv
  <1>4. CASE OutOfIDs(m)
    BY <1>0, <1>4, PublishedIdle DEF OutOfIDs, Away
  <1>5. CASE PersistEC(m)
    <2>1. PublishedEC \subseteq ec' /\ ECBatch(m) \subseteq ec'
      BY <1>5, <1>t, StoreKeepsPublished DEF PersistEC, ECBatch, Store
    <2>2. HandedOutOnce' /\ StoredEC' /\ StoredKEM'
      BY <1>0, <1>5, <2>1, PublishedQuiet DEF PersistEC
    <2>3. IDsFresh'
      BY <1>0, <1>5, <2>1, <1>t, <1>o, PublishedQuiet DEF PersistEC, PublishedInv, IDsFresh
    <2>4. ECBatch(m)' = ECBatch(m)
      BY <1>5 DEF PersistEC, ECBatch
    <2>5. BatchReady'
      BY <1>5, <2>1, <2>4, <1>t, <1>o DEF PersistEC, PublishedInv, BatchReady, Working
    <2>6. QED
      BY <2>2, <2>3, <2>5 DEF PublishedInv
  <1>6. CASE PersistKEM(m)
    <2>1. PublishedKEM \subseteq kem' /\ KEMBatch(m) \subseteq kem'
      BY <1>6, <1>t, StoreKeepsPublished DEF PersistKEM, KEMBatch, Store
    <2>2. HandedOutOnce' /\ StoredEC' /\ StoredKEM'
      BY <1>0, <1>6, <2>1, PublishedQuiet DEF PersistKEM
    <2>3. IDsFresh'
      BY <1>0, <1>6, <2>1, <1>t, <1>o, PublishedQuiet DEF PersistKEM, PublishedInv, IDsFresh
    <2>4. KEMBatch(m)' = KEMBatch(m) /\ ECBatch(m)' = ECBatch(m)
      BY <1>6 DEF PersistKEM, ECBatch, KEMBatch
    <2>5. BatchReady'
      BY <1>6, <2>1, <2>4, <1>t, <1>o DEF PersistKEM, PublishedInv, BatchReady, Working
    <2>6. QED
      BY <2>2, <2>3, <2>5 DEF PublishedInv
  <1>7. CASE Upload(m)
    BY <1>7, PublishedUpload
  <1>8. CASE AdvanceEC(m)
    <2>1. /\ next' = [next EXCEPT !.ec = base[m].ec + TopUpBatch]
          /\ next'.ec = base[m].ec + TopUpBatch /\ next'.kem = next.kem
          /\ base' = base /\ pc[m] = "advanceEC" /\ pc'[m] = "advanceKEM"
      BY <1>8, <1>t DEF AdvanceEC, Counters
    <2>2. HandedOutOnce' /\ StoredEC' /\ StoredKEM'
      BY <1>0, <1>8, PublishedQuiet DEF AdvanceEC
    <2>3. base[m].ec = next.ec /\ base[m].kem = next.kem
      BY <2>1 DEF PublishedInv, BatchReady, Working
    <2>4. BatchReady'
      BY <2>1, <2>3, <1>t, <1>o DEF BatchReady, Working
    <2>5. PublishedEC' = PublishedEC /\ PublishedKEM' = PublishedKEM
      BY <1>0, <1>8, PublishedQuiet DEF AdvanceEC
    <2>6. IDsFresh'
      BY <2>1, <2>3, <2>5, <1>t, <1>o, <1>k DEF PublishedInv, IDsFresh, Counters
    <2>7. QED
      BY <2>2, <2>4, <2>6 DEF PublishedInv
  <1>9. CASE AdvanceKEM(m)
    <2>1. /\ next'.kem = base[m].kem + TopUpBatch /\ next'.ec = next.ec
          /\ base' = base /\ pc[m] = "advanceKEM" /\ pc'[m] = "save"
      BY <1>9, <1>t DEF AdvanceKEM, Counters
    <2>2. HandedOutOnce' /\ StoredEC' /\ StoredKEM'
      BY <1>0, <1>9, PublishedQuiet DEF AdvanceKEM
    <2>3. base[m].kem = next.kem
      BY <2>1 DEF PublishedInv, BatchReady, Working
    <2>4. BatchReady'
      BY <2>1, <1>t, <1>o DEF BatchReady, Working
    <2>5. PublishedEC' = PublishedEC /\ PublishedKEM' = PublishedKEM
      BY <1>0, <1>9, PublishedQuiet DEF AdvanceKEM
    <2>6. IDsFresh'
      BY <2>1, <2>3, <2>5, <1>t, <1>o, <1>k DEF PublishedInv, IDsFresh, Counters
    <2>7. QED
      BY <2>2, <2>4, <2>6 DEF PublishedInv
  <1>10. CASE Save(m)
    BY <1>0, <1>10, PublishedIdle DEF Save, Away
  <1>11. QED
    BY <1>1, <1>2, <1>3, <1>4, <1>5, <1>6, <1>7, <1>8, <1>9, <1>10 DEF MaybeTopUp

\* Lost answers and crashes are not forgotten.
LEMMA IntactBefore ==
    ASSUME PreKeyTypeOK, [PreKeyNext]_preKeyVars, Intact'
    PROVE  Intact
  <1> USE DEF Intact, envVars
  <1>1. CASE HandOut \/ Crash
    BY <1>1 DEF HandOut, Crash, PreKeyTypeOK
  <1>2. ASSUME NEW m \in Maintainers, MaybeTopUp(m) PROVE Intact
    BY <1>2 DEF MaybeTopUp, CountEnough, CountLow, Generate, OutOfIDs, PersistEC,
                PersistKEM, Upload, AdvanceEC, AdvanceKEM, Save
  <1>3. ASSUME NEW m \in Maintainers, Failure(m) PROVE Intact
    BY <1>3 DEF Failure, PersistECFails, PersistKEMFails, UploadFails, UploadLost,
                SaveFails, PreKeyTypeOK
  <1>4. ASSUME NEW m \in Maintainers, NEW msg \in inflight, Receive(m, msg) PROVE Intact
    BY <1>4 DEF Receive, DecryptPreKey, DecryptFails
  <1>5. CASE UNCHANGED preKeyVars
    BY <1>5 DEF preKeyVars
  <1>6. QED
    BY <1>1, <1>2, <1>3, <1>4, <1>5 DEF PreKeyNext

LEMMA PublishedAlways ==
    PreKeySpec /\ []OneTopUp => [](Intact => PublishedInv)
  <1> DEFINE Inv == Intact => PublishedInv
  <1>1. OneTopUp /\ OneTopUp' /\ PreKeyTypeOK /\ Inv /\ [PreKeyNext]_preKeyVars => Inv'
    <2> SUFFICES ASSUME OneTopUp, OneTopUp', PreKeyTypeOK, Inv, [PreKeyNext]_preKeyVars, Intact'
                 PROVE  PublishedInv'
      OBVIOUS
    <2>0. PublishedInv
      BY IntactBefore
    <2>1. CASE HandOut
      BY <2>0, <2>1, PublishedHandOut
    <2>2. CASE Crash
      BY <2>2 DEF Crash, Intact, PreKeyTypeOK
    <2>3. ASSUME NEW m \in Maintainers, MaybeTopUp(m) PROVE PublishedInv'
      BY <2>0, <2>3, PublishedTopUp
    <2>4. ASSUME NEW m \in Maintainers, Failure(m) PROVE PublishedInv'
      BY <2>0, <2>4, PublishedFailure
    <2>5. ASSUME NEW m \in Maintainers, NEW msg \in inflight, Receive(m, msg)
          PROVE  PublishedInv'
      BY <2>0, <2>5, PublishedReceive
    <2>6. CASE UNCHANGED preKeyVars
      <3>1. UNCHANGED <<ec, kem, srvEC, srvKEM, inflight, next, base, tag, pc>>
        BY <2>6 DEF preKeyVars, storeVars, srvVars, acctVars, workVars
      <3>2. PublishedEC \subseteq ec' /\ PublishedKEM \subseteq kem'
        BY <2>0, <3>1 DEF PublishedInv, StoredEC, StoredKEM
      <3>3. IDsFresh' /\ HandedOutOnce' /\ StoredEC' /\ StoredKEM'
        BY <2>0, <3>1, <3>2, PublishedQuiet DEF PublishedInv, IDsFresh
      <3>4. BatchReady'
        BY <2>0, <3>1 DEF PublishedInv, BatchReady, ECBatch, KEMBatch
      <3>5. QED
        BY <3>3, <3>4 DEF PublishedInv
    <2>7. QED
      BY <2>1, <2>2, <2>3, <2>4, <2>5, <2>6 DEF PreKeyNext
  <1>2. PreKeyInit => Inv
    BY PublishedInit
  <1>3. QED
    BY <1>1, <1>2, PreKeyTypeCorrect, PTL DEF PreKeySpec

\* In a run in which no two goroutines top up at a time, no answer is lost and
\* the process does not crash, every key the server has or handed out can be
\* decrypted with, whatever store errors and refused uploads happen and
\* whatever messages are decrypted in the middle of a top-up.
THEOREM PreKeyPublished == PreKeySpec /\ []OneTopUp => []PublishedDecryptable
  <1>1. (Intact => PublishedInv) => PublishedDecryptable
    BY DEF PublishedInv, StoredEC, StoredKEM, PublishedEC, PublishedKEM,
           PublishedDecryptable, HandedOutDecryptable, Held
  <1>2. PreKeySpec /\ []OneTopUp => [](Intact => PublishedInv)
    BY PublishedAlways
  <1>3. QED
    BY <1>1, <1>2, PTL

----------------------------------------------------------------------------
(***************************************************************************)
(* Nothing fails: the local store is exactly what the server has or handed *)
(* out, and the batch on its way there.                                    *)
(***************************************************************************)
\* The keys stored and not uploaded yet.
StagedEC == UNION {ECBatch(m) : m \in {n \in Maintainers : pc[n] \in {"persistKEM", "upload"}}}
StagedKEM == UNION {KEMBatch(m) : m \in {n \in Maintainers : pc[n] = "upload"}}

ExactEC == ec = PublishedEC \cup StagedEC
ExactKEM == UnusedKyber = PublishedKEM \cup StagedKEM

\* The server hands a Kyber key out once.
KyberOnce ==
    \A msg \in inflight :
        msg.kem # NoKey => /\ msg.kem \notin srvKEM
                           /\ \A other \in inflight : other.kem = msg.kem => other = msg

InventoryInv == ExactEC /\ ExactKEM /\ KyberOnce

\* What is staged while a goroutine tops up.
LEMMA StagedAlone ==
    ASSUME OneTopUp, NEW m \in Maintainers, pc[m] \notin Away
    PROVE  /\ pc[m] \in {"persistKEM", "upload"} => StagedEC = ECBatch(m)
           /\ pc[m] \notin {"persistKEM", "upload"} => StagedEC = {}
           /\ pc[m] = "upload" => StagedKEM = KEMBatch(m)
           /\ pc[m] # "upload" => StagedKEM = {}
  BY DEF OneTopUp, Away, StagedEC, StagedKEM

LEMMA StagedAloneNext ==
    ASSUME OneTopUp', NEW m \in Maintainers, pc'[m] \notin Away
    PROVE  /\ pc'[m] \in {"persistKEM", "upload"} => StagedEC' = ECBatch(m)'
           /\ pc'[m] \notin {"persistKEM", "upload"} => StagedEC' = {}
           /\ pc'[m] = "upload" => StagedKEM' = KEMBatch(m)'
           /\ pc'[m] # "upload" => StagedKEM' = {}
  BY DEF OneTopUp, Away, StagedEC, StagedKEM

LEMMA InventoryInit == PreKeyInit => InventoryInv
  <1> SUFFICES ASSUME PreKeyInit PROVE InventoryInv
    OBVIOUS
  <1>1. StagedEC = {} /\ StagedKEM = {}
    BY DEF PreKeyInit, StagedEC, StagedKEM
  <1>2. PublishedEC = ec /\ PublishedKEM = kem /\ UnusedKyber = kem
    BY DEF PreKeyInit, PublishedEC, PublishedKEM, UnusedKyber
  <1>3. QED
    BY <1>1, <1>2 DEF PreKeyInit, InventoryInv, ExactEC, ExactKEM, KyberOnce

\* No published key has the id of NoKey.
LEMMA PublishedIsKey ==
    ASSUME PreKeyTypeOK, PublishedInv, KyberIDsValid
    PROVE  /\ \A k \in PublishedEC : k \in Keys /\ k[1] # 0 /\ k # NoKey
           /\ \A k \in PublishedKEM : k \in Keys /\ k[1] # 0 /\ k # NoKey
  <1>1. PublishedEC \subseteq Keys /\ PublishedKEM \subseteq kem /\ kem \subseteq Keys
    BY DEF PublishedInv, StoredEC, StoredKEM, PreKeyTypeOK, Table
  <1>2. \A k \in Keys : k[1] \in Nat
    BY DEF Keys
  <1>3. \A k \in PublishedEC : k[1] >= 1
    BY DEF PublishedInv, IDsFresh
  <1>4. \A k \in PublishedKEM : k[1] >= 1
    BY <1>1, PreKeyAssumption DEF KyberIDsValid
  <1>5. NoKey[1] = 0
    BY DEF NoKey
  <1>6. QED
    BY <1>1, <1>2, <1>3, <1>4, <1>5

LEMMA InventoryHandOut ==
    ASSUME PreKeyTypeOK, PublishedInv, KyberIDsValid, InventoryInv, HandOut
    PROVE  InventoryInv'
  <1> USE DEF storeVars, acctVars, workVars, envVars
  <1>1. PICK e \in (IF srvEC = {} THEN {NoKey} ELSE srvEC),
             k \in (IF srvKEM = {} THEN {NoKey} ELSE srvKEM) :
             /\ inflight' = inflight \cup {[ec |-> e, kem |-> k]}
             /\ srvEC' = srvEC \ {e}
             /\ srvKEM' = srvKEM \ {k}
    BY DEF HandOut
  <1>2. \A x : x \in PublishedEC <=> x \in srvEC \/ (x # NoKey /\ \E msg \in inflight : x = msg.ec)
    BY DEF PublishedEC
  <1>3. \A x : x \in PublishedEC' <=> x \in srvEC' \/ (x # NoKey /\ \E msg \in inflight' : x = msg.ec)
    BY DEF PublishedEC
  <1>4. \A x : x \in PublishedKEM <=> x \in srvKEM \/ (x # NoKey /\ \E msg \in inflight : x = msg.kem)
    BY DEF PublishedKEM
  <1>5. \A x : x \in PublishedKEM' <=> x \in srvKEM' \/ (x # NoKey /\ \E msg \in inflight' : x = msg.kem)
    BY DEF PublishedKEM
  <1>6. (e = NoKey \/ e \in srvEC) /\ (k = NoKey \/ k \in srvKEM)
    BY <1>1
  <1>7. NoKey \notin srvEC /\ NoKey \notin srvKEM
    BY <1>2, <1>4, PublishedIsKey
  <1>8. PublishedEC' = PublishedEC
    <2>1. ASSUME NEW x \in PublishedEC PROVE x \in PublishedEC'
      <3>1. CASE x \in srvEC /\ x # e
        BY <1>1, <1>3, <3>1
      <3>2. CASE x \in srvEC /\ x = e
        <4>1. [ec |-> e, kem |-> k] \in inflight' /\ [ec |-> e, kem |-> k].ec = x
          BY <1>1, <3>2
        <4>2. QED
          BY <1>3, <1>7, <3>2, <4>1
      <3>3. CASE x \notin srvEC
        BY <1>1, <1>2, <1>3, <2>1, <3>3
      <3>4. QED
        BY <3>1, <3>2, <3>3
    <2>2. ASSUME NEW x \in PublishedEC' PROVE x \in PublishedEC
      <3>1. CASE x \in srvEC'
        BY <1>1, <1>2, <3>1
      <3>2. CASE x # NoKey /\ \E msg \in inflight : x = msg.ec
        BY <1>2, <3>2
      <3>3. CASE x # NoKey /\ x = [ec |-> e, kem |-> k].ec
        BY <1>2, <1>6, <3>3
      <3>4. QED
        BY <1>1, <1>3, <2>2, <3>1, <3>2, <3>3
    <2>3. QED
      BY <2>1, <2>2
  <1>9. PublishedKEM' = PublishedKEM
    <2>1. ASSUME NEW x \in PublishedKEM PROVE x \in PublishedKEM'
      <3>1. CASE x \in srvKEM /\ x # k
        BY <1>1, <1>5, <3>1
      <3>2. CASE x \in srvKEM /\ x = k
        <4>1. [ec |-> e, kem |-> k] \in inflight' /\ [ec |-> e, kem |-> k].kem = x
          BY <1>1, <3>2
        <4>2. QED
          BY <1>5, <1>7, <3>2, <4>1
      <3>3. CASE x \notin srvKEM
        BY <1>1, <1>4, <1>5, <2>1, <3>3
      <3>4. QED
        BY <3>1, <3>2, <3>3
    <2>2. ASSUME NEW x \in PublishedKEM' PROVE x \in PublishedKEM
      <3>1. CASE x \in srvKEM'
        BY <1>1, <1>4, <3>1
      <3>2. CASE x # NoKey /\ \E msg \in inflight : x = msg.kem
        BY <1>4, <3>2
      <3>3. CASE x # NoKey /\ x = [ec |-> e, kem |-> k].kem
        BY <1>4, <1>6, <3>3
      <3>4. QED
        BY <1>1, <1>5, <2>2, <3>1, <3>2, <3>3
    <2>3. QED
      BY <2>1, <2>2
  <1>10. KyberOnce'
    <2> SUFFICES ASSUME NEW msg \in inflight', msg.kem # NoKey
                 PROVE  /\ msg.kem \notin srvKEM'
                        /\ \A other \in inflight' : other.kem = msg.kem => other = msg
      BY DEF KyberOnce
    <2>1. CASE msg \in inflight
      <3>1. msg.kem \notin srvKEM /\ \A other \in inflight : other.kem = msg.kem => other = msg
        BY <2>1 DEF InventoryInv, KyberOnce
      <3>2. k # msg.kem
        BY <1>6, <3>1
      <3>3. QED
        BY <1>1, <3>1, <3>2
    <2>2. CASE msg = [ec |-> e, kem |-> k]
      <3>1. msg.kem = k /\ k \in srvKEM
        BY <1>6, <2>2
      <3>2. \A other \in inflight : other.kem # k
        BY <1>7, <3>1 DEF InventoryInv, KyberOnce
      <3>3. QED
        BY <1>1, <2>2, <3>1, <3>2
    <2>3. QED
      BY <1>1, <2>1, <2>2
  <1>11. UnusedKyber' = UnusedKyber /\ ec' = ec /\ StagedEC' = StagedEC /\ StagedKEM' = StagedKEM
    BY DEF HandOut, UnusedKyber, StagedEC, StagedKEM, ECBatch, KEMBatch
  <1>12. QED
    BY <1>8, <1>9, <1>10, <1>11 DEF InventoryInv, ExactEC, ExactKEM

\* The staged Kyber keys are in the store, so none of them has the id of NoKey.
LEMMA KeysAreStored ==
    ASSUME PublishedInv, KyberIDsValid, NEW n \in Maintainers, pc[n] = "upload"
    PROVE  NoKey \notin KEMBatch(n)
  <1>1. KEMBatch(n) \subseteq kem
    BY DEF PublishedInv, BatchReady
  <1>2. NoKey[1] = 0
    BY DEF NoKey
  <1>3. QED
    BY <1>1, <1>2, PreKeyAssumption DEF KyberIDsValid

\* The message takes exactly its own keys out of both pools.
LEMMA InventoryReceive ==
    ASSUME OneTopUp, PreKeyTypeOK, PublishedInv, KyberIDsValid, InventoryInv,
           NEW m \in Maintainers, NEW msg \in inflight, Receive(m, msg)
    PROVE  InventoryInv'
  <1> USE DEF storeVars, acctVars, workVars, envVars, Goto
  <1>1. Held(msg)
    BY DEF Held, PublishedInv, StoredEC, StoredKEM, PublishedEC, PublishedKEM
  <1>2. /\ inflight' = inflight \ {msg} /\ srvEC' = srvEC /\ srvKEM' = srvKEM /\ kem' = kem
        /\ ec' = {k \in ec : k[1] # msg.ec[1]}
        /\ used' = IF msg.kem = NoKey THEN used ELSE used \cup {msg.kem[1]}
        /\ pc[m] = "idle" /\ pc'[m] = "count" /\ base' = base /\ tag' = tag
        /\ \A n \in Maintainers : n # m => pc'[n] = pc[n]
    BY <1>1 DEF Receive, DecryptPreKey, DecryptFails, PreKeyTypeOK
  <1>3. StagedEC' = StagedEC /\ StagedKEM' = StagedKEM
    BY <1>2 DEF StagedEC, StagedKEM, ECBatch, KEMBatch
  <1>s. /\ \A k \in StagedEC : k[1] # msg.ec[1]
        /\ msg.kem # NoKey => \A k \in StagedKEM : k[1] # msg.kem[1]
    BY ForeignToBatch DEF StagedEC, StagedKEM
  <1>n. msg.ec \notin StagedEC /\ msg.kem \notin StagedKEM
    <2>1. NoKey \notin StagedKEM
      BY KeysAreStored DEF StagedKEM
    <2>2. QED
      BY <1>s, <2>1
  <1>4. ec = PublishedEC \cup StagedEC /\ UnusedKyber = PublishedKEM \cup StagedKEM
    BY DEF InventoryInv, ExactEC, ExactKEM
  <1>5. NoKey[1] = 0
    BY DEF NoKey
  <1>6. PublishedEC' = PublishedEC \ {msg.ec}
    <2>1. msg.ec # NoKey => msg.ec \notin srvEC /\ \A other \in inflight : other.ec = msg.ec => other = msg
      BY DEF PublishedInv, HandedOutOnce
    <2>2. NoKey \notin srvEC
      BY PublishedIsKey DEF PublishedEC
    <2>3. QED
      BY <1>2, <2>1, <2>2 DEF PublishedEC
  <1>7. PublishedKEM' = PublishedKEM \ {msg.kem}
    <2>1. msg.kem # NoKey => msg.kem \notin srvKEM /\ \A other \in inflight : other.kem = msg.kem => other = msg
      BY DEF InventoryInv, KyberOnce
    <2>2. NoKey \notin srvKEM
      BY PublishedIsKey DEF PublishedKEM
    <2>3. QED
      BY <1>2, <2>1, <2>2 DEF PublishedKEM
  <1>8. ec' = ec \ {msg.ec}
    <2>1. CASE msg.ec = NoKey
      BY <1>2, <1>4, <1>5, <1>s, <2>1, PublishedIsKey
    <2>2. CASE msg.ec # NoKey
      <3>1. msg.ec \in ec
        BY <1>1, <2>2 DEF Held
      <3>2. QED
        BY <1>2, <3>1 DEF PreKeyTypeOK, Table
    <2>3. QED
      BY <2>1, <2>2
  <1>9. UnusedKyber' = UnusedKyber \ {msg.kem}
    <2>1. CASE msg.kem = NoKey
      <3>1. UnusedKyber' = UnusedKyber
        BY <1>2, <2>1 DEF UnusedKyber
      <3>2. QED
        BY <1>4, <1>n, <2>1, <3>1, PublishedIsKey
    <2>2. CASE msg.kem # NoKey
      <3>1. msg.kem \in kem
        BY <1>1, <2>2 DEF Held
      <3>2. \A k \in kem : k[1] = msg.kem[1] => k = msg.kem
        BY <3>1 DEF PreKeyTypeOK, Table
      <3>3. used' = used \cup {msg.kem[1]}
        BY <1>2, <2>2
      <3>4. QED
        BY <1>2, <3>2, <3>3 DEF UnusedKyber
    <2>3. QED
      BY <2>1, <2>2
  <1>10. KyberOnce'
    BY <1>2 DEF InventoryInv, KyberOnce
  <1>11. QED
    BY <1>3, <1>4, <1>n, <1>6, <1>7, <1>8, <1>9, <1>10 DEF InventoryInv, ExactEC, ExactKEM

\* A step of a goroutine that neither stores nor publishes.
LEMMA InventoryQuiet ==
    ASSUME InventoryInv, NEW m \in Maintainers,
           UNCHANGED <<ec, kem, used, srvEC, srvKEM, inflight>>,
           {pc[m], pc'[m]} \cap {"persistKEM", "upload"} = {},
           \A n \in Maintainers \ {m} :
               pc'[n] = pc[n] /\ base'[n] = base[n] /\ tag'[n] = tag[n]
    PROVE  InventoryInv'
  <1>1. StagedEC' = StagedEC /\ StagedKEM' = StagedKEM
    <2>1. /\ {n \in Maintainers : pc'[n] \in {"persistKEM", "upload"}}
               = {n \in Maintainers : pc[n] \in {"persistKEM", "upload"}}
          /\ {n \in Maintainers : pc'[n] = "upload"} = {n \in Maintainers : pc[n] = "upload"}
      OBVIOUS
    <2>2. \A n \in Maintainers : pc[n] \in {"persistKEM", "upload"} =>
             ECBatch(n)' = ECBatch(n) /\ KEMBatch(n)' = KEMBatch(n)
      BY DEF ECBatch, KEMBatch
    <2>3. QED
      BY <2>1, <2>2 DEF StagedEC, StagedKEM
  <1>2. /\ PublishedEC' = PublishedEC /\ PublishedKEM' = PublishedKEM
        /\ UnusedKyber' = UnusedKyber /\ ec' = ec
    BY DEF PublishedEC, PublishedKEM, UnusedKyber
  <1>3. KyberOnce'
    BY DEF InventoryInv, KyberOnce
  <1>4. QED
    BY <1>1, <1>2, <1>3 DEF InventoryInv, ExactEC, ExactKEM

\* Storing a batch whose ids are new to a table only adds it.
LEMMA StoreNew ==
    ASSUME NEW T, NEW K, \A k \in T, j \in K : j[1] # k[1]
    PROVE  Store(T, K) = T \cup K
  BY DEF Store

LEMMA InventoryPersistEC ==
    ASSUME OneTopUp, OneTopUp', PreKeyTypeOK, PublishedInv, InventoryInv,
           NEW m \in Maintainers, PersistEC(m)
    PROVE  InventoryInv'
  <1> USE PreKeyAssumption DEF storeVars, srvVars, acctVars, workVars, envVars, Goto
  <1>1. /\ ec' = Store(ec, ECBatch(m)) /\ pc[m] = "persistEC" /\ pc'[m] = "persistKEM"
        /\ UNCHANGED <<kem, used, srvEC, srvKEM, inflight, base, tag>>
    BY DEF PersistEC, PreKeyTypeOK
  <1>2. /\ StagedEC = {} /\ StagedKEM = {} /\ StagedKEM' = {}
        /\ StagedEC' = ECBatch(m)' /\ ECBatch(m)' = ECBatch(m)
    BY <1>1, StagedAlone, StagedAloneNext DEF ECBatch, Away
  <1>3. ec = PublishedEC
    BY <1>2 DEF InventoryInv, ExactEC
  <1>4. \A k \in ec, j \in ECBatch(m) : j[1] # k[1]
    BY <1>1, <1>3, OwnIDsFresh DEF ECBatch
  <1>5. ec' = PublishedEC \cup ECBatch(m)
    BY <1>1, <1>3, <1>4, StoreNew
  <1>6. PublishedEC' = PublishedEC /\ PublishedKEM' = PublishedKEM /\ UnusedKyber' = UnusedKyber
    BY <1>1 DEF PublishedEC, PublishedKEM, UnusedKyber
  <1>7. KyberOnce'
    BY <1>1 DEF InventoryInv, KyberOnce
  <1>8. QED
    BY <1>2, <1>5, <1>6, <1>7 DEF InventoryInv, ExactEC, ExactKEM

LEMMA InventoryPersistKEM ==
    ASSUME OneTopUp, OneTopUp', PreKeyTypeOK, PublishedInv, InventoryInv,
           NEW m \in Maintainers, PersistKEM(m)
    PROVE  InventoryInv'
  <1> USE PreKeyAssumption DEF storeVars, srvVars, acctVars, workVars, envVars, Goto
  <1>1. /\ kem' = Store(kem, KEMBatch(m)) /\ used' = used \ {k[1] : k \in KEMBatch(m)}
        /\ pc[m] = "persistKEM" /\ pc'[m] = "upload"
        /\ UNCHANGED <<ec, srvEC, srvKEM, inflight, base, tag>>
    BY DEF PersistKEM, PreKeyTypeOK
  <1>2. /\ StagedEC = ECBatch(m) /\ StagedKEM = {}
        /\ StagedEC' = ECBatch(m)' /\ ECBatch(m)' = ECBatch(m)
        /\ StagedKEM' = KEMBatch(m)' /\ KEMBatch(m)' = KEMBatch(m)
    BY <1>1, StagedAlone, StagedAloneNext DEF ECBatch, KEMBatch, Away
  <1>3. UnusedKyber = PublishedKEM
    BY <1>2 DEF InventoryInv, ExactKEM
  <1>4. \A k \in UnusedKyber, j \in KEMBatch(m) : j[1] # k[1]
    BY <1>1, <1>3, OwnIDsFresh DEF KEMBatch
  <1>5. UnusedKyber' = UnusedKyber \cup KEMBatch(m)
    <2>1. ASSUME NEW k \in UnusedKyber \cup KEMBatch(m) PROVE k \in UnusedKyber'
      <3>1. k \in kem'
        BY <1>1, <1>4, <2>1 DEF Store, UnusedKyber
      <3>2. k[1] \notin used'
        BY <1>1, <2>1 DEF UnusedKyber
      <3>3. QED
        BY <3>1, <3>2 DEF UnusedKyber
    <2>2. ASSUME NEW k \in UnusedKyber' PROVE k \in UnusedKyber \cup KEMBatch(m)
      <3>1. k \in kem' /\ k[1] \notin used'
        BY <2>2 DEF UnusedKyber
      <3>2. CASE k \notin KEMBatch(m)
        <4>1. k \in kem /\ \A j \in KEMBatch(m) : j[1] # k[1]
          BY <1>1, <3>1, <3>2 DEF Store
        <4>2. k[1] \notin used
          BY <1>1, <3>1, <4>1
        <4>3. QED
          BY <4>1, <4>2 DEF UnusedKyber
      <3>3. QED
        BY <3>2
    <2>3. QED
      BY <2>1, <2>2
  <1>6. PublishedEC' = PublishedEC /\ PublishedKEM' = PublishedKEM
    BY <1>1 DEF PublishedEC, PublishedKEM
  <1>7. KyberOnce'
    BY <1>1 DEF InventoryInv, KyberOnce
  <1>8. QED
    BY <1>1, <1>2, <1>3, <1>5, <1>6, <1>7 DEF InventoryInv, ExactEC, ExactKEM

LEMMA InventoryUpload ==
    ASSUME OneTopUp, OneTopUp', PreKeyTypeOK, PublishedInv, InventoryInv,
           NEW m \in Maintainers, Upload(m)
    PROVE  InventoryInv'
  <1> USE PreKeyAssumption DEF storeVars, acctVars, workVars, envVars, Goto
  <1>1. /\ srvEC' = Store(srvEC, ECBatch(m)) /\ srvKEM' = Store(srvKEM, KEMBatch(m))
        /\ UNCHANGED <<inflight, ec, kem, used>>
        /\ pc[m] = "upload" /\ pc'[m] = "advanceEC"
    BY DEF Upload, Publish, PreKeyTypeOK
  <1>2. /\ StagedEC = ECBatch(m) /\ StagedKEM = KEMBatch(m)
        /\ StagedEC' = {} /\ StagedKEM' = {}
    BY <1>1, StagedAlone, StagedAloneNext DEF Away
  <1>3. /\ \A k \in PublishedEC, j \in ECBatch(m) : j[1] # k[1]
        /\ \A k \in PublishedKEM, j \in KEMBatch(m) : j[1] # k[1]
    BY <1>1, OwnIDsFresh DEF ECBatch, KEMBatch
  <1>4. srvEC' = srvEC \cup ECBatch(m) /\ srvKEM' = srvKEM \cup KEMBatch(m)
    <2>1. srvEC \subseteq PublishedEC /\ srvKEM \subseteq PublishedKEM
      BY DEF PublishedEC, PublishedKEM
    <2>2. QED
      BY <1>1, <1>3, <2>1, StoreNew
  <1>5. PublishedEC' = PublishedEC \cup StagedEC /\ PublishedKEM' = PublishedKEM \cup StagedKEM
    BY <1>1, <1>2, <1>4 DEF PublishedEC, PublishedKEM
  <1>6. UnusedKyber' = UnusedKyber
    BY <1>1 DEF UnusedKyber
  <1>7. KyberOnce'
    <2>1. \A msg \in inflight : msg.kem # NoKey => msg.kem \in PublishedKEM
      BY DEF PublishedKEM
    <2>2. \A msg \in inflight : msg.kem # NoKey => msg.kem \notin KEMBatch(m)
      BY <1>3, <2>1
    <2>3. QED
      BY <1>1, <1>4, <2>2 DEF InventoryInv, KyberOnce
  <1>8. QED
    BY <1>1, <1>2, <1>5, <1>6, <1>7 DEF InventoryInv, ExactEC, ExactKEM

LEMMA InventoryTopUp ==
    ASSUME OneTopUp, OneTopUp', PreKeyTypeOK, PublishedInv, InventoryInv,
           NEW m \in Maintainers, MaybeTopUp(m)
    PROVE  InventoryInv'
  <1> USE DEF storeVars, srvVars, workVars, Goto
  <1>t. /\ pc \in [Maintainers -> Steps] /\ base \in [Maintainers -> Counters]
        /\ tag \in [Maintainers -> 0..MaxGen]
    BY DEF PreKeyTypeOK
  <1>1. CASE PersistEC(m) \/ PersistKEM(m) \/ Upload(m)
    BY <1>1, InventoryPersistEC, InventoryPersistKEM, InventoryUpload
  <1>2. CASE CountEnough(m) \/ CountLow(m) \/ Generate(m) \/ OutOfIDs(m)
    BY <1>2, <1>t, InventoryQuiet DEF CountEnough, CountLow, Generate, OutOfIDs
  <1>3. CASE AdvanceEC(m) \/ AdvanceKEM(m) \/ Save(m)
    BY <1>3, <1>t, InventoryQuiet DEF AdvanceEC, AdvanceKEM, Save
  <1>4. QED
    BY <1>1, <1>2, <1>3 DEF MaybeTopUp

\* A fault is not forgotten, and every failure is one.
LEMMA SmoothBefore ==
    ASSUME PreKeyTypeOK, [PreKeyNext]_preKeyVars, Smooth'
    PROVE  Smooth /\ ~Crash /\ \A m \in Maintainers : ~Failure(m)
  <1> USE PreKeyAssumption DEF Smooth, Intact, envVars, PreKeyTypeOK
  <1>1. ~Crash
    BY DEF Crash
  <1>2. ASSUME NEW m \in Maintainers PROVE ~Failure(m)
    BY DEF Failure, PersistECFails, PersistKEMFails, UploadFails, UploadLost, SaveFails
  <1>3. ASSUME HandOut PROVE Smooth
    BY <1>3 DEF HandOut
  <1>4. ASSUME NEW m \in Maintainers, MaybeTopUp(m) PROVE Smooth
    BY <1>4 DEF MaybeTopUp, CountEnough, CountLow, Generate, OutOfIDs, PersistEC,
                PersistKEM, Upload, AdvanceEC, AdvanceKEM, Save
  <1>5. ASSUME NEW m \in Maintainers, NEW msg \in inflight, Receive(m, msg) PROVE Smooth
    BY <1>5 DEF Receive, DecryptPreKey, DecryptFails
  <1>6. ASSUME UNCHANGED preKeyVars PROVE Smooth
    BY <1>6 DEF preKeyVars
  <1>7. QED
    BY <1>1, <1>2, <1>3, <1>4, <1>5, <1>6 DEF PreKeyNext

\* In a run in which no two goroutines top up at a time and nothing fails, the
\* keys MaybeTopUp counts between top-ups are exactly the keys peers can use:
\* the removal of the EC key and the marking of the Kyber key follow the
\* server's inventory, also for messages decrypted during a top-up.
THEOREM PreKeyInventory == PreKeySpec /\ []OneTopUp => []InventoryAccurate
  <1> DEFINE Pub == Intact => PublishedInv
             Inv == Smooth => InventoryInv
  <1>1. /\ OneTopUp /\ OneTopUp'
        /\ PreKeyTypeOK /\ Pub /\ KyberIDsValid /\ Inv /\ [PreKeyNext]_preKeyVars
        => Inv'
    <2> SUFFICES ASSUME OneTopUp, OneTopUp', PreKeyTypeOK, Pub, KyberIDsValid, Inv,
                        [PreKeyNext]_preKeyVars, Smooth'
                 PROVE  InventoryInv'
      OBVIOUS
    <2>0. Smooth /\ ~Crash /\ \A m \in Maintainers : ~Failure(m)
      BY SmoothBefore
    <2>1. PublishedInv /\ InventoryInv
      BY <2>0 DEF Smooth
    <2>2. CASE HandOut
      BY <2>1, <2>2, InventoryHandOut
    <2>3. ASSUME NEW m \in Maintainers, MaybeTopUp(m) PROVE InventoryInv'
      BY <2>1, <2>3, InventoryTopUp
    <2>4. ASSUME NEW m \in Maintainers, NEW msg \in inflight, Receive(m, msg)
          PROVE  InventoryInv'
      BY <2>1, <2>4, InventoryReceive
    <2>5. CASE UNCHANGED preKeyVars
      <3>1. UNCHANGED <<ec, kem, used, srvEC, srvKEM, inflight, base, tag, pc>>
        BY <2>5 DEF preKeyVars, storeVars, srvVars, workVars
      <3>2. QED
        BY <2>1, <3>1 DEF InventoryInv, ExactEC, ExactKEM, KyberOnce, PublishedEC, PublishedKEM,
                          StagedEC, StagedKEM, ECBatch, KEMBatch, UnusedKyber
    <2>6. QED
      BY <2>0, <2>2, <2>3, <2>4, <2>5 DEF PreKeyNext
  <1>2. PreKeyTypeOK /\ Pub /\ KyberIDsValid /\ Inv => InventoryAccurate
    <2> SUFFICES ASSUME PreKeyTypeOK, PublishedInv, KyberIDsValid, InventoryInv,
                        \A m \in Maintainers : pc[m] = "idle"
                 PROVE  /\ ec = (srvEC \cup {msg.ec : msg \in inflight}) \ {NoKey}
                        /\ UnusedKyber = (srvKEM \cup {msg.kem : msg \in inflight}) \ {NoKey}
      BY DEF InventoryAccurate, Smooth
    <2>1. StagedEC = {} /\ StagedKEM = {}
      BY DEF StagedEC, StagedKEM
    <2>2. NoKey \notin srvEC /\ NoKey \notin srvKEM
      BY PublishedIsKey DEF PublishedEC, PublishedKEM
    <2>3. QED
      BY <2>1, <2>2 DEF InventoryInv, ExactEC, ExactKEM, PublishedEC, PublishedKEM
  <1>3. PreKeyInit => Inv
    BY InventoryInit
  <1>4. PreKeySpec /\ []OneTopUp => []Pub
    BY PublishedAlways
  <1>5. PreKeySpec /\ []OneTopUp => []KyberIDsValid
    BY PreKeyKyberIDs
  <1>6. QED
    BY <1>1, <1>2, <1>3, <1>4, <1>5, PreKeyTypeCorrect, PTL DEF PreKeySpec
============================================================================
