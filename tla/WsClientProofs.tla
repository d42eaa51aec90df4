-------------------------- MODULE WsClientProofs --------------------------
(***************************************************************************)
(* Proofs about WsClient, for any number of Send and Close calls, pushed   *)
(* requests and frames in flight.                                          *)
(***************************************************************************)
EXTENDS WsClient, TLAPS

\* The initial states satisfy the inductive invariant.
LEMMA WsInitInv == Init => WsInv
  <1> SUFFICES ASSUME Init PROVE WsInv
    OBVIOUS
  <1> USE WsAssumption DEF Init
  <1>1. result \in [Calls -> Outcome]
    BY DEF Outcome
  <1>2. toClient \in Seq(Frame)
    OBVIOUS
  <1>3. kaPc \in {"loop", "returned"}
    OBVIOUS
  <1>4. TypeOK
    BY <1>1, <1>2, <1>3 DEF TypeOK
  <1>5. QED
    BY <1>4 DEF WsInv, IdsUnique, IdsOwned, ChannelsOwned, LateCallsRefused,
      NoChannelPanic, NoPendingLeak, ClosedIsDrained, ResponseMatchesRequest

\* What Send returns is an Outcome.
LEMMA Outcomes ==
    /\ [kind |-> "error", from |-> NoCall] \in Outcome
    /\ \A c \in Calls : [kind |-> "response", from |-> c] \in Outcome
  BY DEF Outcome

\* A Send step keeps the invariant.
LEMMA SendKeepsInv ==
    ASSUME WsInv, NEW c \in Calls, SendStart(c) \/ SendStep(c)
    PROVE  WsInv'
  <1> USE WsAssumption, Outcomes DEF WsInv, TypeOK
  <1>1. CASE SendStart(c)
    <2> USE <1>1 DEF SendStart, muVars, readVars, netVars
    <2>1. TypeOK'
      OBVIOUS
    <2>2. IdsUnique'
      BY DEF IdsUnique
    <2>3. IdsOwned'
      BY DEF IdsUnique, IdsOwned, Entry, Frame, ResponseFrame, RequestFrame, OtherFrame
    <2>4. QED
      BY <2>1, <2>2, <2>3
      DEF ChannelsOwned, LateCallsRefused, NoChannelPanic, NoPendingLeak,
          ClosedIsDrained, ResponseMatchesRequest, Entry
  <1>2. CASE SendRefused(c)
    <2> USE <1>2 DEF SendRefused, entryVars, muVars, readVars, netVars
    <2>1. TypeOK'
      OBVIOUS
    <2>2. QED
      BY <2>1 DEF Entry, IdsUnique, IdsOwned, ChannelsOwned, LateCallsRefused,
        NoChannelPanic, NoPendingLeak, ClosedIsDrained, ResponseMatchesRequest
  <1>3. CASE SendRegister(c)
    <2> USE <1>3 DEF SendRegister, Register, Without, entryVars, readVars, netVars
    <2>1. TypeOK'
      BY DEF Entry
    <2>2. IdsUnique' /\ IdsOwned'
      BY DEF IdsUnique, IdsOwned, Entry
    <2>3. ~chClosed[c]
      BY DEF ChannelsOwned
    <2>4. NoChannelPanic' /\ NoPendingLeak' /\ ClosedIsDrained'
      BY <2>3 DEF Entry, NoChannelPanic, NoPendingLeak, ClosedIsDrained
    <2>5. ChannelsOwned' /\ LateCallsRefused' /\ ResponseMatchesRequest'
      BY DEF ChannelsOwned, LateCallsRefused, ResponseMatchesRequest
    <2>6. QED
      BY <2>1, <2>2, <2>4, <2>5
  <1>4. CASE SendWrite(c)
    <2> USE <1>4 DEF SendWrite, entryVars, muVars, readVars
    <2>1. TypeOK'
      BY DEF Entry
    <2>2. IdsUnique' /\ IdsOwned'
      BY DEF IdsUnique, IdsOwned, Entry
    <2>3. QED
      BY <2>1, <2>2 DEF Entry, ChannelsOwned, LateCallsRefused,
        NoChannelPanic, NoPendingLeak, ClosedIsDrained, ResponseMatchesRequest
  <1>5. CASE SendWriteFails(c)
    <2> USE <1>5 DEF SendWriteFails, Leave, entryVars, muVars, readVars, netVars
    <2>1. TypeOK'
      OBVIOUS
    <2>2. QED
      BY <2>1 DEF Entry, IdsUnique, IdsOwned, ChannelsOwned, LateCallsRefused,
        NoChannelPanic, NoPendingLeak, ClosedIsDrained, ResponseMatchesRequest
  <1>6. CASE SendReceive(c)
    <2> USE <1>6 DEF SendReceive, Leave, entryVars, muVars, readVars, netVars
    <2>1. chBuf[c] = c
      BY DEF ChannelsOwned
    <2>2. TypeOK'
      BY <2>1
    <2>3. ResponseMatchesRequest'
      BY <2>1 DEF ResponseMatchesRequest
    <2>4. QED
      BY <2>2, <2>3 DEF Entry, IdsUnique, IdsOwned, ChannelsOwned, LateCallsRefused,
        NoChannelPanic, NoPendingLeak, ClosedIsDrained
  <1>7. CASE SendAbandon(c)
    <2> USE <1>7 DEF SendAbandon, Leave, entryVars, muVars, readVars, netVars
    <2>1. TypeOK'
      OBVIOUS
    <2>2. QED
      BY <2>1 DEF Entry, IdsUnique, IdsOwned, ChannelsOwned, LateCallsRefused,
        NoChannelPanic, NoPendingLeak, ClosedIsDrained, ResponseMatchesRequest
  <1>8. CASE SendCleanup(c)
    <2> USE <1>8 DEF SendCleanup, Without, entryVars, readVars, netVars
    <2>1. TypeOK'
      OBVIOUS
    <2>2. QED
      BY <2>1 DEF Entry, IdsUnique, IdsOwned, ChannelsOwned, LateCallsRefused,
        NoChannelPanic, NoPendingLeak, ClosedIsDrained, ResponseMatchesRequest
  <1>9. QED
    BY <1>1, <1>2, <1>3, <1>4, <1>5, <1>6, <1>7, <1>8 DEF SendStep

\* Closing every pending channel keeps what the invariant says of the table.
LEMMA CloseAllKeepsInv ==
    ASSUME WsInv, CloseAllPending, TypeOK',
           UNCHANGED <<entryVars, sendVars, netVars>>
    PROVE  WsInv'
  BY WsAssumption
  DEF CloseAllPending, entryVars, sendVars, netVars, WsInv, TypeOK, Entry,
      IdsUnique, IdsOwned, ChannelsOwned, LateCallsRefused, NoChannelPanic,
      NoPendingLeak, ClosedIsDrained, ResponseMatchesRequest

\* A step that touches only program counters of Close, the loops and the
\* handlers, the connection or the cancelled contexts keeps the invariant.
LEMMA OtherKeepsInv ==
    ASSUME WsInv, TypeOK', UNCHANGED <<entryVars, muVars, sendVars, netVars>>
    PROVE  WsInv'
  BY DEF entryVars, muVars, sendVars, netVars, WsInv, IdsUnique, IdsOwned,
     ChannelsOwned, LateCallsRefused, NoChannelPanic, NoPendingLeak,
     ClosedIsDrained, ResponseMatchesRequest

\* A Close step keeps the invariant.
LEMMA CloseKeepsInv ==
    ASSUME WsInv, NEW k \in Closers, CloseStep(k)
    PROVE  WsInv'
  <1>1. CASE CloseLock(k)
    <2>1. TypeOK'
      BY <1>1 DEF CloseLock, CloseAllPending, entryVars, sendVars, readVars, netVars,
        WsInv, TypeOK
    <2>2. QED
      BY <1>1, <2>1, CloseAllKeepsInv DEF CloseLock
  <1>2. CASE CloseAgain(k) \/ CloseConn(k) \/ CloseReturn(k)
    <2>1. TypeOK'
      BY <1>2 DEF CloseAgain, CloseConn, CloseReturn, entryVars, muVars, sendVars,
        readVars, netVars, WsInv, TypeOK
    <2>2. QED
      BY <1>2, <2>1, OtherKeepsInv DEF CloseAgain, CloseConn, CloseReturn
  <1>3. QED
    BY <1>1, <1>2 DEF CloseStep

\* Taking the first frame off the wire leaves the rest owned.
LEMMA NextFrameKeeps ==
    ASSUME WsInv, NEW kind, NextFrame(kind)
    PROVE  /\ toClient' \in Seq(Frame)
           /\ Head(toClient) \in Frame
           /\ Head(toClient) = toClient[1]
           /\ 1 \in DOMAIN toClient
           /\ \A i \in DOMAIN toClient' : i + 1 \in DOMAIN toClient /\ toClient'[i] = toClient[i + 1]
  BY DEF WsInv, TypeOK, NextFrame

\* A step of the read loop keeps the invariant.
LEMMA ReadKeepsInv ==
    ASSUME WsInv, ReadLoop
    PROVE  WsInv'
  <1>1. CASE ReadError \/ ReadExit
    <2>1. TypeOK'
      BY <1>1 DEF ReadError, ReadExit, entryVars, muVars, sendVars, readVars, netVars,
        WsInv, TypeOK
    <2>2. QED
      BY <1>1, <2>1, OtherKeepsInv DEF ReadError, ReadExit
  <1>2. CASE ReadUndecodable \/ ReadUnknown \/ ReadRequest
    <2>1. PICK kind : NextFrame(kind)
      BY <1>2 DEF ReadUndecodable, ReadUnknown, ReadRequest
    <2>2. UNCHANGED <<entryVars, muVars, sendVars, served, answered>>
      BY <1>2 DEF ReadUndecodable, ReadUnknown, ReadRequest, clientVars
    <2>3. TypeOK'
      BY <1>2, <2>1, <2>2, NextFrameKeeps
      DEF ReadUndecodable, ReadUnknown, ReadRequest, clientVars, entryVars, muVars,
          sendVars, readVars, WsInv, TypeOK
    <2>4. IdsOwned'
      BY <2>1, <2>2, NextFrameKeeps DEF entryVars, muVars, WsInv, IdsOwned
    <2>5. QED
      BY <2>2, <2>3, <2>4
      DEF entryVars, muVars, sendVars, WsInv, IdsUnique, ChannelsOwned, LateCallsRefused,
          NoChannelPanic, NoPendingLeak, ClosedIsDrained, ResponseMatchesRequest
  <1>3. CASE ReadResponse
    <2> DEFINE f == Head(toClient)
    <2>1. NextFrame("response") /\ UNCHANGED <<entryVars, muVars, sendPc, result, served, answered>>
      BY <1>3 DEF ReadResponse
    <2>2. f.kind = "response" /\ f.call \in Calls /\ f.id = idOf[f.call] /\ f.id # 0
          /\ f.call \in answered
      BY <2>1, NextFrameKeeps
      DEF NextFrame, WsInv, IdsOwned, Frame, ResponseFrame, RequestFrame, OtherFrame
    <2>3. \A c \in Calls : [id |-> f.id, call |-> c] \in pending => c = f.call
      BY <2>2 DEF WsInv, IdsOwned, IdsUnique
    <2>4. \A c \in Calls : chBuf'[c] # chBuf[c] => chBuf'[c] = c /\ c \in answered
      BY <1>3, <2>2, <2>3 DEF ReadResponse
    <2>5. TypeOK'
      BY <1>3, <2>1, <2>2, NextFrameKeeps
      DEF ReadResponse, entryVars, muVars, readVars, WsInv, TypeOK
    <2>6. IdsOwned'
      BY <2>1, NextFrameKeeps DEF entryVars, muVars, WsInv, IdsOwned
    <2>7. ChannelsOwned'
      BY <2>1, <2>4 DEF muVars, WsInv, ChannelsOwned
    <2>8. QED
      BY <2>1, <2>5, <2>6, <2>7
      DEF entryVars, muVars, WsInv, IdsUnique, LateCallsRefused,
          NoChannelPanic, NoPendingLeak, ClosedIsDrained, ResponseMatchesRequest
  <1>4. CASE FailPending
    <2>1. TypeOK'
      BY <1>4 DEF FailPending, CloseAllPending, entryVars, sendVars, netVars, WsInv, TypeOK
    <2>2. QED
      BY <1>4, <2>1, CloseAllKeepsInv DEF FailPending
  <1>5. QED
    BY <1>1, <1>2, <1>3, <1>4 DEF ReadLoop

\* The keepalive loop, the request goroutines and the environment keep the
\* invariant.
LEMMA RestKeepsInv ==
    ASSUME WsInv, Keepalive \/ (\E q \in Requests : HandlerReply(q)) \/ Environment
    PROVE  WsInv'
  <1> USE DEF WsInv, TypeOK
  <1>1. CASE Keepalive \/ (\E q \in Requests : HandlerReply(q)) \/ Drop
             \/ (\E c \in Calls : Cancel(c))
    <2>1. UNCHANGED <<entryVars, muVars, sendVars, netVars>>
      BY <1>1 DEF Keepalive, KeepalivePingFails, KeepaliveStops, HandlerReply, Drop,
        Cancel, clientVars, netVars
    <2>2. TypeOK'
      BY <1>1 DEF Keepalive, KeepalivePingFails, KeepaliveStops, HandlerReply, Drop,
        Cancel, clientVars, entryVars, muVars, sendVars, readVars, netVars
    <2>3. QED
      BY <2>1, <2>2, OtherKeepsInv
  <1>2. ASSUME NEW e \in served, ServerRespond(e)
        PROVE  WsInv'
    <2> DEFINE f == [kind |-> "response", id |-> e.id, call |-> e.call]
    <2>1. /\ toClient' = Append(toClient, f)
          /\ answered' = answered \cup {e.call}
          /\ UNCHANGED <<clientVars, cancelled, conn, served>>
      BY <1>2 DEF ServerRespond, Push
    <2>2. e \in Entry /\ e.id = idOf[e.call] /\ e.id # 0 /\ f \in Frame
      BY DEF IdsOwned, Entry, Frame, ResponseFrame
    <2>3. TypeOK'
      BY <2>1, <2>2 DEF clientVars, entryVars, muVars, sendVars, readVars, Entry
    <2>4. \A i \in DOMAIN toClient' :
              \/ i \in DOMAIN toClient /\ toClient'[i] = toClient[i]
              \/ toClient'[i] = f
      BY <2>1, <2>2
    <2>5. IdsOwned'
      BY <2>1, <2>2, <2>4 DEF IdsOwned, clientVars, entryVars, muVars
    <2>6. QED
      BY <2>1, <2>3, <2>5 DEF clientVars, entryVars, muVars, sendVars, IdsUnique,
        ChannelsOwned, LateCallsRefused, NoChannelPanic, NoPendingLeak, ClosedIsDrained,
        ResponseMatchesRequest
  <1>3. ASSUME NEW f \in RequestFrame \cup OtherFrame, Push(f),
               UNCHANGED <<entryVars, muVars, sendVars, readVars, closePc, kaPc,
                           cancelled, conn, served, answered>>,
               handlerPc' \in [Requests -> {"none", "queued", "running", "replied"}]
        PROVE  WsInv'
    <2>1. TypeOK'
      BY <1>3 DEF Push, Frame, entryVars, muVars, sendVars, readVars
    <2>2. f.kind # "response" /\ f \in Frame
      BY DEF RequestFrame, OtherFrame, Frame
    <2>3. \A i \in DOMAIN toClient' :
              \/ i \in DOMAIN toClient /\ toClient'[i] = toClient[i]
              \/ toClient'[i] = f
      BY <1>3, <2>2 DEF Push
    <2>4. IdsOwned'
      BY <1>3, <2>2, <2>3 DEF IdsOwned, entryVars, muVars
    <2>5. QED
      BY <1>3, <2>1, <2>4 DEF entryVars, muVars, sendVars, IdsUnique,
        ChannelsOwned, LateCallsRefused, NoChannelPanic, NoPendingLeak, ClosedIsDrained,
        ResponseMatchesRequest
  <1>4. ASSUME NEW q \in Requests, ServerRequest(q)
        PROVE  WsInv'
    <2>1. [kind |-> "request", req |-> q] \in RequestFrame
      BY DEF RequestFrame
    <2>2. QED
      BY <1>3, <1>4, <2>1 DEF ServerRequest
  <1>5. ASSUME NEW kind \in {"undecodable", "unknown"}, ServerOther(kind)
        PROVE  WsInv'
    <2>1. [kind |-> kind] \in OtherFrame
      BY DEF OtherFrame
    <2>2. QED
      BY <1>3, <1>5, <2>1 DEF ServerOther, clientVars
  <1>6. QED
    BY <1>1, <1>2, <1>4, <1>5 DEF Environment

\* Every step keeps the invariant.
LEMMA WsStepInv == WsInv /\ [Next]_vars => WsInv'
  <1> SUFFICES ASSUME WsInv, [Next]_vars PROVE WsInv'
    OBVIOUS
  <1>1. CASE UNCHANGED vars
    <2>1. TypeOK'
      BY <1>1 DEF vars, clientVars, entryVars, muVars, sendVars, readVars, netVars,
        WsInv, TypeOK
    <2>2. QED
      BY <1>1, <2>1, OtherKeepsInv DEF vars, clientVars
  <1>2. CASE Next
    BY <1>2, SendKeepsInv, CloseKeepsInv, ReadKeepsInv, RestKeepsInv DEF Next
  <1>3. QED
    BY <1>1, <1>2

\* ws.Client keeps its inductive invariant: types, unique ids, an id table and
\* a wire in which every id names its own call.
THEOREM WsClientInvariant == Spec => []WsInv
  BY WsInitInv, WsStepInv, PTL DEF Spec

\* The state of ws.Client is well typed.
THEOREM WsTypeCorrect == Spec => []TypeOK
  BY WsClientInvariant, PTL DEF WsInv

\* Send returns only the response to its own request.
THEOREM WsResponseMatches == Spec => []ResponseMatchesRequest
  BY WsClientInvariant, PTL DEF WsInv

\* No interleaving of Close, failPending, dispatchResponse and Send closes a
\* channel twice or sends on a closed one.
THEOREM WsNoChannelPanic == Spec => []NoChannelPanic
  BY WsClientInvariant, PTL DEF WsInv

\* After a shutdown no Send is left in, or added to, the pending table.
THEOREM WsClosedIsDrained == Spec => []ClosedIsDrained
  BY WsClientInvariant, PTL DEF WsInv

\* The pending table holds only Sends that have not returned.
THEOREM WsNoPendingLeak == Spec => []NoPendingLeak
  BY WsClientInvariant, PTL DEF WsInv

-----------------------------------------------------------------------------
(* Refinement of RpcChannel *)

\* Initial states map to initial states.
LEMMA RpcInitRefined == Init => Rpc!RpcInit
  BY DEF Init, Rpc!RpcInit, rpcStatus

\* A step that leaves the mapped state alone is a stutter.
LEMMA RpcStutter ==
    ASSUME UNCHANGED <<sendPc, lateCall, result, closed, served, answered>>
    PROVE  UNCHANGED Rpc!rpcVars
  BY DEF Rpc!rpcVars, rpcStatus

\* A Send step is a Begin, Deliver or Return of the same call, or a stutter.
LEMMA RpcSendRefined ==
    ASSUME WsInv, NEW c \in Calls, SendStart(c) \/ SendStep(c)
    PROVE  [Rpc!RpcNext]_(Rpc!rpcVars)
  <1> USE DEF WsInv, TypeOK
  <1>1. CASE SendStart(c)
    <2>1. Rpc!Begin(c)
      BY <1>1 DEF SendStart, muVars, netVars, Rpc!Begin, rpcStatus
    <2>2. QED
      BY <2>1 DEF Rpc!RpcNext
  <1>2. CASE SendRegister(c)
    <2>1. UNCHANGED Rpc!rpcVars
      BY <1>2 DEF SendRegister, Register, entryVars, netVars, Rpc!rpcVars, rpcStatus
    <2>2. QED
      BY <2>1
  <1>3. CASE SendWrite(c)
    <2>1. ~lateCall[c]
      BY <1>3 DEF SendWrite, LateCallsRefused
    <2>2. UNCHANGED rpcStatus /\ rpcStatus[c] = "early"
      BY <1>3, <2>1 DEF SendWrite, entryVars, rpcStatus
    <2>3. CASE conn = "open"
      <3>1. {e.call : e \in served'} = {e.call : e \in served} \cup {c}
        <4> DEFINE new == [id |-> idOf[c], call |-> c]
        <4>1. served' = served \cup {new}
          BY <1>3, <2>3 DEF SendWrite
        <4>2. new.call = c
          OBVIOUS
        <4> HIDE DEF new
        <4>3. QED
          BY <4>1, <4>2
      <3>2. Rpc!Deliver(c)
        BY <1>3, <2>2, <3>1 DEF SendWrite, muVars, Rpc!Deliver
      <3>3. QED
        BY <3>2 DEF Rpc!RpcNext
    <2>4. CASE conn # "open"
      BY <1>3, <2>2, <2>4 DEF SendWrite, muVars, Rpc!rpcVars
    <2>5. QED
      BY <2>3, <2>4
  <1>4. CASE SendRefused(c) \/ SendWriteFails(c) \/ SendAbandon(c)
    <2>1. rpcStatus[c] \in {"early", "late"}
      BY <1>4 DEF SendRefused, SendWriteFails, SendAbandon, rpcStatus
    <2>2. rpcStatus' = [rpcStatus EXCEPT ![c] = "error"]
      <3>1. /\ result' = [result EXCEPT ![c] = [kind |-> "error", from |-> NoCall]]
            /\ sendPc' \in {[sendPc EXCEPT ![c] = "returned"], [sendPc EXCEPT ![c] = "cleanup"]}
            /\ UNCHANGED lateCall
        BY <1>4 DEF SendRefused, SendWriteFails, SendAbandon, Leave, entryVars
      <3>2. result'[c].kind = "error" /\ sendPc'[c] \in {"cleanup", "returned"}
        BY <3>1
      <3>3. \A d \in Calls \ {c} : result'[d] = result[d] /\ sendPc'[d] = sendPc[d]
        BY <3>1
      <3>4. QED
        BY <3>1, <3>2, <3>3 DEF rpcStatus
    <2>3. Rpc!Return(c)
      BY <1>4, <2>1, <2>2
      DEF SendRefused, SendWriteFails, SendAbandon, muVars, netVars, Rpc!Return
    <2>4. QED
      BY <2>3 DEF Rpc!RpcNext
  <1>5. CASE SendReceive(c)
    <2>1. rpcStatus[c] = "early" /\ c \in answered
      BY <1>5 DEF SendReceive, LateCallsRefused, ChannelsOwned, rpcStatus
    <2>2. rpcStatus' = [rpcStatus EXCEPT ![c] = "response"]
      BY <1>5 DEF SendReceive, Leave, entryVars, rpcStatus
    <2>3. Rpc!Return(c)
      BY <1>5, <2>1, <2>2 DEF SendReceive, muVars, netVars, Rpc!Return
    <2>4. QED
      BY <2>3 DEF Rpc!RpcNext
  <1>6. CASE SendCleanup(c)
    <2>1. UNCHANGED Rpc!rpcVars
      BY <1>6 DEF SendCleanup, entryVars, netVars, Rpc!rpcVars, rpcStatus
    <2>2. QED
      BY <2>1
  <1>7. QED
    BY <1>1, <1>2, <1>3, <1>4, <1>5, <1>6 DEF SendStep

\* Shutdown takes the channel down, an answer is an Answer, and nothing else
\* is visible.
LEMMA RpcRestRefined ==
    ASSUME WsInv,
           \/ \E k \in Closers : CloseStep(k)
           \/ ReadLoop \/ Keepalive \/ Environment
           \/ \E q \in Requests : HandlerReply(q)
    PROVE  [Rpc!RpcNext]_(Rpc!rpcVars)
  <1>1. CASE (\E k \in Closers : CloseLock(k)) \/ FailPending
    <2>1. Rpc!GoDown
      BY <1>1 DEF CloseLock, FailPending, CloseAllPending, entryVars, sendVars, netVars,
        Rpc!GoDown, rpcStatus
    <2>2. QED
      BY <2>1 DEF Rpc!RpcNext
  <1>2. ASSUME NEW e \in served, ServerRespond(e)
        PROVE  [Rpc!RpcNext]_(Rpc!rpcVars)
    <2>1. e.call \in Calls
      BY DEF WsInv, TypeOK, Entry
    <2>2. Rpc!Answer(e.call)
      BY <1>2 DEF ServerRespond, clientVars, entryVars, muVars, sendVars, Rpc!Answer, rpcStatus
    <2>3. QED
      BY <2>1, <2>2 DEF Rpc!RpcNext
  <1>3. CASE \/ \E k \in Closers : CloseAgain(k) \/ CloseConn(k) \/ CloseReturn(k)
             \/ ReadError \/ ReadUndecodable \/ ReadUnknown \/ ReadRequest
             \/ ReadResponse \/ ReadExit
    BY <1>3, RpcStutter
    DEF CloseAgain, CloseConn, CloseReturn, ReadError, ReadUndecodable, ReadUnknown,
        ReadRequest, ReadResponse, ReadExit, clientVars, entryVars, muVars, sendVars, netVars
  <1>4. CASE \/ Keepalive \/ Drop
             \/ \E q \in Requests : HandlerReply(q) \/ ServerRequest(q)
             \/ \E kind \in {"undecodable", "unknown"} : ServerOther(kind)
             \/ \E c \in Calls : Cancel(c)
    BY <1>4, RpcStutter
    DEF Keepalive, KeepalivePingFails, KeepaliveStops, Drop, HandlerReply, ServerRequest,
        ServerOther, Cancel, clientVars, entryVars, muVars, sendVars, netVars
  <1>5. QED
    BY <1>1, <1>2, <1>3, <1>4 DEF CloseStep, ReadLoop, Environment

\* Every step of ws.Client is a step of RpcChannel or a stutter.
LEMMA RpcStepRefined == WsInv /\ [Next]_vars => [Rpc!RpcNext]_(Rpc!rpcVars)
  <1> SUFFICES ASSUME WsInv, [Next]_vars PROVE [Rpc!RpcNext]_(Rpc!rpcVars)
    OBVIOUS
  <1>1. CASE UNCHANGED vars
    BY <1>1, RpcStutter DEF vars, clientVars, entryVars, muVars, sendVars, netVars
  <1>2. CASE Next
    BY <1>2, RpcSendRefined, RpcRestRefined DEF Next
  <1>3. QED
    BY <1>1, <1>2

\* ws.Client implements RpcChannel: a Send begins once, returns once with the
\* peer's answer to this call or an error, and one entered after the client
\* closed never reaches the peer.
THEOREM WsRefinesRpc == Spec => ImplementsRpcChannel
  BY WsClientInvariant, RpcInitRefined, RpcStepRefined, PTL
  DEF Spec, ImplementsRpcChannel, Rpc!RpcSpec
=============================================================================
