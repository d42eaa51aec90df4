------------------------ MODULE SendPipelineProofs ------------------------
(***************************************************************************)
(* Proofs about SendPipeline: whatever the recipient's devices, the faults *)
(* and the other callers do, a Send makes at most two PUTs and delivers    *)
(* its message at most once.                                               *)
(***************************************************************************)
EXTENDS SendPipeline, TLAPS

LEMMA SendInitInv == SendInit => SendInv
  <1> SUFFICES ASSUME SendInit PROVE SendInv
    OBVIOUS
  <1> USE SendAssumption
  <1>1. NoReg \in Registrations
    BY DEF NoReg, Registrations, Reg
  <1>2. reg \in Registrations /\ session \in Registrations
    BY DEF SendInit, Registrations, Reg
  <1>3. 0 \in Reg /\ 0 \in 0..MaxChanges /\ 0 \in 0..MaxFaults
    BY DEF Reg
  <1>4. SendTypeOK
    BY <1>1, <1>2, <1>3 DEF SendInit, SendTypeOK
  <1>5. QED
    BY <1>4 DEF SendInit, SendInv, PutsCounted, DeviceInHand, PutsBounded, DeliveredOnce

LEMMA DiscoveryKeepsInv ==
    ASSUME SendInv, NEW s \in Sends, Discovery(s) PROVE SendInv'
  <1> USE SendAssumption DEF SendInv, SendTypeOK, Goto, serverVars, limitVars,
          bundleVars, countVars, Registrations, Reg, Establishing
  <1>1. CASE Start(s)
    <2> DEFINE known == IF knownDevices = Nil THEN {} ELSE knownDevices
    <2>1. known \subseteq Devices
      OBVIOUS
    <2>2. /\ addrs' = [addrs EXCEPT ![s] = known]
          /\ todo' = [todo EXCEPT ![s] = known]
          /\ pc' = [pc EXCEPT ![s] = "discover"] \/ pc' = [pc EXCEPT ![s] = "ensure"]
      BY <1>1 DEF Start
    <2> HIDE DEF known
    <2>3. SendTypeOK'
      BY <1>1, <2>1, <2>2 DEF Start
    <2>4. QED
      BY <1>1, <2>2, <2>3 DEF Start, PutsCounted, DeviceInHand, PutsBounded, DeliveredOnce
  <1>2. CASE CacheDevices(s)
    BY <1>2 DEF CacheDevices, PutsCounted, DeviceInHand, PutsBounded, DeliveredOnce
  <1>3. CASE Ensured(s)
    BY <1>3 DEF Ensured, PutsCounted, DeviceInHand, PutsBounded, DeliveredOnce
  <1>4. ASSUME NEW d \in Devices, KeepSession(s, d) PROVE SendInv'
    BY <1>4 DEF KeepSession, PutsCounted, DeviceInHand, PutsBounded, DeliveredOnce
  <1>5. ASSUME NEW d \in Devices, NeedSession(s, d) PROVE SendInv'
    BY <1>5 DEF NeedSession, PutsCounted, DeviceInHand, PutsBounded, DeliveredOnce
  <1>6. QED
    BY <1>1, <1>2, <1>3, <1>4, <1>5 DEF Discovery

LEMMA FetchingKeepsInv ==
    ASSUME SendInv, NEW s \in Sends, Fetching(s) PROVE SendInv'
  <1> USE SendAssumption DEF SendInv, SendTypeOK, Goto, Fail, serverVars, limitVars,
          bundleVars, countVars, Registrations, Reg, Establishing
  <1>1. CASE GateRefuses(s)
    BY <1>1 DEF GateRefuses, WantsBundle, PutsCounted, DeviceInHand, PutsBounded, DeliveredOnce
  <1>2. CASE Gate(s)
    BY <1>2 DEF Gate, WantsBundle, PutsCounted, DeviceInHand, PutsBounded, DeliveredOnce
  <1>3. CASE FetchedAll(s)
    BY <1>3 DEF FetchedAll, Active, PutsCounted, DeviceInHand, PutsBounded, DeliveredOnce
  <1>4. CASE FetchedOne(s)
    <2>1. cur[s] \in Devices
      BY <1>4 DEF FetchedOne, DeviceInHand
    <2>2. reg[cur[s]] \in 0..MaxReg
      BY <2>1
    <2>3. SendTypeOK'
      BY <1>4, <2>2 DEF FetchedOne
    <2>4. QED
      BY <1>4, <2>3 DEF FetchedOne, PutsCounted, DeviceInHand, PutsBounded, DeliveredOnce
  <1>5. CASE FetchNotFound(s)
    BY <1>5 DEF FetchNotFound, PutsCounted, DeviceInHand, PutsBounded, DeliveredOnce
  <1>6. CASE Install(s)
    BY <1>6 DEF Install, PutsCounted, DeviceInHand, PutsBounded, DeliveredOnce
  <1>7. QED
    BY <1>1, <1>2, <1>3, <1>4, <1>5, <1>6 DEF Fetching

LEMMA DeliveryKeepsInv ==
    ASSUME SendInv, NEW s \in Sends, Delivery(s) PROVE SendInv'
  <1> USE SendAssumption DEF SendInv, SendTypeOK, Goto, Fail, serverVars, limitVars,
          bundleVars, countVars, Registrations, Reg, Establishing, Ready
  <1>1. CASE PutAccepted(s)
    BY <1>1 DEF PutAccepted, PutsCounted, DeviceInHand, PutsBounded, DeliveredOnce
  <1>2. CASE PutMismatched(s)
    BY <1>2 DEF PutMismatched, Active, PutsCounted, DeviceInHand, PutsBounded, DeliveredOnce
  <1>3. CASE PutStale(s)
    BY <1>3 DEF PutStale, Stale, Active, PutsCounted, DeviceInHand, PutsBounded, DeliveredOnce
  <1>4. CASE PutRefusedAgain(s)
    BY <1>4 DEF PutRefusedAgain, PutsCounted, DeviceInHand, PutsBounded, DeliveredOnce
  <1>5. ASSUME NEW d \in Devices, Encrypt(s, d) PROVE SendInv'
    BY <1>5 DEF Encrypt, PutsCounted, DeviceInHand, PutsBounded, DeliveredOnce
  <1>6. ASSUME NEW d \in Devices, EncryptFails(s, d) PROVE SendInv'
    BY <1>6 DEF EncryptFails, PutsCounted, DeviceInHand, PutsBounded, DeliveredOnce
  <1>7. QED
    BY <1>1, <1>2, <1>3, <1>4, <1>5, <1>6 DEF Delivery

LEMMA RepairKeepsInv ==
    ASSUME SendInv, NEW s \in Sends, Repair(s) PROVE SendInv'
  <1> USE SendAssumption DEF SendInv, SendTypeOK, Goto, serverVars, limitVars,
          bundleVars, countVars, Registrations, Reg, Establishing
  <1>1. CASE ExtraDropped(s)
    BY <1>1 DEF ExtraDropped, PutsCounted, DeviceInHand, PutsBounded, DeliveredOnce
  <1>2. CASE UpdateCache(s)
    BY <1>2 DEF UpdateCache, PutsCounted, DeviceInHand, PutsBounded, DeliveredOnce
  <1>3. CASE StaleRenewed(s)
    BY <1>3 DEF StaleRenewed, PutsCounted, DeviceInHand, PutsBounded, DeliveredOnce
  <1>4. ASSUME NEW d \in Devices, DropExtra(s, d) PROVE SendInv'
    BY <1>4 DEF DropExtra, PutsCounted, DeviceInHand, PutsBounded, DeliveredOnce
  <1>5. ASSUME NEW d \in Devices, DropStale(s, d) PROVE SendInv'
    BY <1>5 DEF DropStale, PutsCounted, DeviceInHand, PutsBounded, DeliveredOnce
  <1>6. QED
    BY <1>1, <1>2, <1>3, <1>4, <1>5 DEF Repair

LEMMA TroubleKeepsInv ==
    ASSUME SendInv, NEW s \in Sends, Trouble(s) \/ Again(s) PROVE SendInv'
  <1> USE SendAssumption DEF SendInv, SendTypeOK, Goto, Fail, serverVars, limitVars,
          bundleVars, countVars, Registrations, Reg, Establishing
  <1>1. CASE FetchLimited(s)
    BY <1>1 DEF FetchLimited, PutsCounted, DeviceInHand, PutsBounded, DeliveredOnce
  <1>2. CASE PutLost(s)
    BY <1>2 DEF PutLost, Ready, PutsCounted, DeviceInHand, PutsBounded, DeliveredOnce
  <1>3. CASE Fault(s)
    BY <1>3 DEF Fault, PutsCounted, DeviceInHand, PutsBounded, DeliveredOnce
  <1>4. CASE Again(s)
    BY <1>4 DEF Again, localVars, PutsCounted, DeviceInHand, PutsBounded, DeliveredOnce
  <1>5. QED
    BY <1>1, <1>2, <1>3, <1>4 DEF Trouble

LEMMA SendStepInv == SendInv /\ [SendNext]_sendVars => SendInv'
  <1> SUFFICES ASSUME SendInv, [SendNext]_sendVars PROVE SendInv'
    OBVIOUS
  <1>1. ASSUME NEW s \in Sends, Progress(s) \/ Trouble(s) PROVE SendInv'
    BY <1>1, DiscoveryKeepsInv, FetchingKeepsInv, DeliveryKeepsInv,
       RepairKeepsInv, TroubleKeepsInv DEF Progress
  <1> USE SendAssumption DEF SendInv, SendTypeOK, serverVars, limitVars, bundleVars,
          countVars, localVars, PutsCounted, DeviceInHand, PutsBounded, DeliveredOnce
  <1>2. ASSUME NEW d \in Devices, NEW r \in Reg, DeviceChange(d, r) PROVE SendInv'
    BY <1>2 DEF DeviceChange, Registrations
  <1>3. CASE CooldownOver
    BY <1>3 DEF CooldownOver
  <1>4. CASE UNCHANGED sendVars
    BY <1>4 DEF sendVars
  <1>5. QED
    BY <1>1, <1>2, <1>3, <1>4 DEF SendNext

\* The inductive invariant of the send pipeline.
THEOREM SendInvariant == SendSpec => []SendInv
  BY SendInitInv, SendStepInv, PTL DEF SendSpec

\* Every state of the pipeline is well typed.
THEOREM SendTypeCorrect == SendSpec => []SendTypeOK
  <1>1. SendInv => SendTypeOK
    BY DEF SendInv
  <1>2. QED
    BY <1>1, SendInvariant, PTL

\* A Send delivers at most once, and has delivered when it reports success.
THEOREM SendDeliveredOnce == SendSpec => []DeliveredOnce
  <1>1. SendInv => DeliveredOnce
    BY DEF SendInv
  <1>2. QED
    BY <1>1, SendInvariant, PTL

\* A Send makes at most two PUTs.
THEOREM SendPutsBounded == SendSpec => []PutsBounded
  <1>1. SendInv => PutsBounded
    BY DEF SendInv
  <1>2. QED
    BY <1>1, SendInvariant, PTL
===========================================================================
