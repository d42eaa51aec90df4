----------------------------- MODULE WsClient -----------------------------
(***************************************************************************)
(* internal/ws/client.go: ws.Client multiplexes requests and responses on  *)
(* one websocket.  Goroutines: the callers of Send, the callers of Close,  *)
(* the read loop, the keepalive loop and one goroutine per request pushed  *)
(* by the server.  c.mu protects pending and closed; every step below is   *)
(* at most one critical section, one operation on the connection, or one   *)
(* channel operation.                                                      *)
(***************************************************************************)
EXTENDS Naturals, Sequences

CONSTANTS Calls,        \* the Send calls, each made at most once
          Closers,      \* the Close calls, each made at most once
          Requests,     \* the requests the server may push
          MaxInbound,   \* bound: frames in flight towards the client
          NoCall        \* an empty response channel buffer

ASSUME WsAssumption ==
    /\ MaxInbound \in Nat
    /\ NoCall \notin Calls

VARIABLES
    opts,       \* DialOptions: is there a Handler, is KeepaliveInterval > 0
    nextID,     \* Client.nextID
    pending,    \* Client.pending: entries [id, call]
    closed,     \* Client.closed
    done,       \* Client.done is closed
    idOf,       \* Send's local id, 0 before nextID.Add(1)
    chBuf,      \* the value in Send's channel (capacity 1): whose answer it is
    chClosed,   \* Send's channel is closed
    sendPc,     \* program counter of each Send
    result,     \* what each Send returned
    lateCall,   \* ghost: Send was entered when closed was already set
    cancelled,  \* Sends whose context is done
    closePc,    \* program counter of each Close
    readPc,     \* program counter of the read loop
    kaPc,       \* program counter of the keepalive loop
    handlerPc,  \* the goroutine of each pushed request
    conn,       \* the websocket: "open", "dropped" by the peer, "closed" here
    toClient,   \* frames the client has not read
    served,     \* requests the server has received: entries [id, call]
    answered    \* ghost: calls the server answered

entryVars == <<opts, nextID, idOf, lateCall>>
muVars == <<pending, closed, chClosed>>
sendVars == <<sendPc, result, chBuf>>
readVars == <<readPc, done>>
netVars == <<toClient, served, answered>>
clientVars == <<entryVars, muVars, sendVars, readVars, closePc, kaPc, handlerPc>>
vars == <<clientVars, cancelled, conn, netVars>>

-----------------------------------------------------------------------------
Entry == [id : Nat, call : Calls]
ResponseFrame == [kind : {"response"}, id : Nat, call : Calls]
RequestFrame == [kind : {"request"}, req : Requests]
OtherFrame == [kind : {"undecodable", "unknown"}]
Frame == ResponseFrame \cup RequestFrame \cup OtherFrame

\* What a Send returned; a response names the call it answers.
Outcome == [kind : {"none", "error"}, from : {NoCall}]
           \cup [kind : {"response"}, from : Calls]

\* The types of the variables; a Send that returns a response got one, never
\* the nil of a closed channel.
TypeOK ==
    /\ opts \in [handler : BOOLEAN, keepalive : BOOLEAN]
    /\ nextID \in Nat
    /\ pending \subseteq Entry
    /\ closed \in BOOLEAN
    /\ done \in BOOLEAN
    /\ idOf \in [Calls -> Nat]
    /\ chBuf \in [Calls -> Calls \cup {NoCall}]
    /\ chClosed \in [Calls -> BOOLEAN]
    /\ sendPc \in [Calls -> {"idle", "register", "write", "wait", "cleanup", "returned"}]
    /\ result \in [Calls -> Outcome]
    /\ lateCall \in [Calls -> BOOLEAN]
    /\ cancelled \subseteq Calls
    /\ closePc \in [Closers -> {"idle", "conn", "await", "returned"}]
    /\ readPc \in {"read", "fail", "exit", "exited"}
    /\ kaPc \in {"loop", "returned"}
    /\ handlerPc \in [Requests -> {"none", "queued", "running", "replied"}]
    /\ conn \in {"open", "dropped", "closed"}
    /\ toClient \in Seq(Frame)
    /\ served \subseteq Entry
    /\ answered \subseteq Calls

Init ==
    /\ opts \in [handler : BOOLEAN, keepalive : BOOLEAN]
    /\ nextID = 0
    /\ pending = {}
    /\ closed = FALSE
    /\ done = FALSE
    /\ idOf = [c \in Calls |-> 0]
    /\ chBuf = [c \in Calls |-> NoCall]
    /\ chClosed = [c \in Calls |-> FALSE]
    /\ sendPc = [c \in Calls |-> "idle"]
    /\ result = [c \in Calls |-> [kind |-> "none", from |-> NoCall]]
    /\ lateCall = [c \in Calls |-> FALSE]
    /\ cancelled = {}
    /\ closePc = [k \in Closers |-> "idle"]
    /\ readPc = "read"
    /\ kaPc = IF opts.keepalive THEN "loop" ELSE "returned"
    /\ handlerPc = [q \in Requests |-> "none"]
    /\ conn = "open"
    /\ toClient = <<>>
    /\ served = {}
    /\ answered = {}

-----------------------------------------------------------------------------
(* Send *)

Without(id) == {p \in pending : p.id # id}

Leave(c, kind, from) ==
    /\ result' = [result EXCEPT ![c] = [kind |-> kind, from |-> from]]
    /\ sendPc' = [sendPc EXCEPT ![c] = "cleanup"]

\* Mutant: the id is read but not advanced.
SendStartSharedId(c) ==
    /\ sendPc[c] = "idle"
    /\ idOf' = [idOf EXCEPT ![c] = nextID + 1]
    /\ lateCall' = [lateCall EXCEPT ![c] = closed]
    /\ sendPc' = [sendPc EXCEPT ![c] = "register"]
    /\ UNCHANGED <<muVars, readVars, netVars, opts, nextID, chBuf, result,
                   closePc, kaPc, handlerPc, cancelled, conn>>

\* id := c.nextID.Add(1); the channel is made.
SendStart(c) ==
    /\ sendPc[c] = "idle"
    /\ nextID' = nextID + 1
    /\ idOf' = [idOf EXCEPT ![c] = nextID + 1]
    /\ lateCall' = [lateCall EXCEPT ![c] = closed]
    /\ sendPc' = [sendPc EXCEPT ![c] = "register"]
    /\ UNCHANGED <<muVars, readVars, netVars, opts, chBuf, result, closePc,
                   kaPc, handlerPc, cancelled, conn>>

\* The first critical section, closed: the early return, before the deferred
\* delete is installed.
SendRefused(c) ==
    /\ sendPc[c] = "register"
    /\ closed
    /\ result' = [result EXCEPT ![c] = [kind |-> "error", from |-> NoCall]]
    /\ sendPc' = [sendPc EXCEPT ![c] = "returned"]
    /\ UNCHANGED <<entryVars, muVars, readVars, netVars, chBuf, closePc, kaPc,
                   handlerPc, cancelled, conn>>

Register(c) ==
    /\ sendPc[c] = "register"
    /\ pending' = Without(idOf[c]) \cup {[id |-> idOf[c], call |-> c]}
    /\ sendPc' = [sendPc EXCEPT ![c] = "write"]
    /\ UNCHANGED <<entryVars, readVars, netVars, closed, chBuf, chClosed,
                   result, closePc, kaPc, handlerPc, cancelled, conn>>

\* Mutant: registers without looking at closed.
SendRegisterUnchecked(c) == Register(c)

\* The first critical section, open: the call is registered.
SendRegister(c) ==
    /\ ~closed
    /\ Register(c)

\* writeMessage succeeds: the server may see the request, or the frame is
\* lost with a dropped connection.
SendWrite(c) ==
    /\ sendPc[c] = "write"
    /\ conn # "closed"
    /\ served' = IF conn = "open" THEN served \cup {[id |-> idOf[c], call |-> c]}
                                  ELSE served
    /\ sendPc' = [sendPc EXCEPT ![c] = "wait"]
    /\ UNCHANGED <<entryVars, muVars, readVars, chBuf, result, closePc, kaPc,
                   handlerPc, cancelled, conn, toClient, answered>>

\* writeMessage fails: the connection is gone, or the context ended.  A
\* context that ends in the middle of a frame makes the library close the
\* connection; one that ended before leaves it open.
SendWriteFails(c) ==
    /\ sendPc[c] = "write"
    /\ conn # "open" \/ c \in cancelled
    /\ conn' \in {conn, "closed"}
    /\ Leave(c, "error", NoCall)
    /\ UNCHANGED <<entryVars, muVars, readVars, netVars, chBuf, closePc,
                   kaPc, handlerPc, cancelled>>

\* Send's select: resp, ok := <-ch with a response in the buffer.
SendReceive(c) ==
    /\ sendPc[c] = "wait"
    /\ chBuf[c] # NoCall
    /\ Leave(c, "response", chBuf[c])
    /\ chBuf' = [chBuf EXCEPT ![c] = NoCall]
    /\ UNCHANGED <<entryVars, muVars, readVars, netVars, closePc, kaPc,
                   handlerPc, cancelled, conn>>

\* Send's select: ctx.Done, c.done, or ch closed and empty.  Any ready branch
\* may win, also when a response is in the buffer.
SendAbandon(c) ==
    /\ sendPc[c] = "wait"
    /\ c \in cancelled \/ done \/ (chBuf[c] = NoCall /\ chClosed[c])
    /\ Leave(c, "error", NoCall)
    /\ UNCHANGED <<entryVars, muVars, readVars, netVars, chBuf, closePc, kaPc,
                   handlerPc, cancelled, conn>>

\* The deferred delete(c.pending, id).
SendCleanup(c) ==
    /\ sendPc[c] = "cleanup"
    /\ pending' = Without(idOf[c])
    /\ sendPc' = [sendPc EXCEPT ![c] = "returned"]
    /\ UNCHANGED <<entryVars, readVars, netVars, closed, chBuf, chClosed,
                   result, closePc, kaPc, handlerPc, cancelled, conn>>

-----------------------------------------------------------------------------
(* Close *)

\* Mutant: the channels are closed but stay in the table.
CloseAllPendingKeeps ==
    /\ closed' = TRUE
    /\ chClosed' = [c \in Calls |-> chClosed[c] \/ \E p \in pending : p.call = c]
    /\ UNCHANGED pending

\* closed = true; every pending channel is closed and its entry deleted.
\* Shared by Close and failPending.
CloseAllPending ==
    /\ closed' = TRUE
    /\ chClosed' = [c \in Calls |-> chClosed[c] \/ \E p \in pending : p.call = c]
    /\ pending' = {}

\* Close's critical section on a closed client: the early return.
CloseAgain(k) ==
    /\ closePc[k] = "idle"
    /\ closed
    /\ closePc' = [closePc EXCEPT ![k] = "returned"]
    /\ UNCHANGED <<entryVars, muVars, sendVars, readVars, netVars, kaPc,
                   handlerPc, cancelled, conn>>

\* Close's critical section on an open client.
CloseLock(k) ==
    /\ closePc[k] = "idle"
    /\ ~closed
    /\ CloseAllPending
    /\ closePc' = [closePc EXCEPT ![k] = "conn"]
    /\ UNCHANGED <<entryVars, sendVars, readVars, netVars, kaPc, handlerPc,
                   cancelled, conn>>

\* Mutant: Close waits for the read loop without closing the connection.
CloseConnSkipped(k) ==
    /\ closePc[k] = "conn"
    /\ closePc' = [closePc EXCEPT ![k] = "await"]
    /\ UNCHANGED <<entryVars, muVars, sendVars, readVars, netVars, kaPc,
                   handlerPc, cancelled, conn>>

CloseConn(k) ==
    /\ closePc[k] = "conn"
    /\ conn' = "closed"
    /\ closePc' = [closePc EXCEPT ![k] = "await"]
    /\ UNCHANGED <<entryVars, muVars, sendVars, readVars, netVars, kaPc,
                   handlerPc, cancelled>>

\* <-c.done
CloseReturn(k) ==
    /\ closePc[k] = "await"
    /\ done
    /\ closePc' = [closePc EXCEPT ![k] = "returned"]
    /\ UNCHANGED <<entryVars, muVars, sendVars, readVars, netVars, kaPc,
                   handlerPc, cancelled, conn>>

-----------------------------------------------------------------------------
(* The read loop *)

\* conn.Read fails: closed here, dropped by the peer, or (keepalive off) the
\* idle deadline passed.  The library closes the connection on a read error.
ReadError ==
    /\ readPc = "read"
    /\ conn # "open" \/ ~opts.keepalive
    /\ conn' = "closed"
    /\ readPc' = "fail"
    /\ UNCHANGED <<entryVars, muVars, sendVars, netVars, done, closePc, kaPc,
                   handlerPc, cancelled>>

NextFrame(kind) ==
    /\ readPc = "read"
    /\ conn # "closed"
    /\ toClient # <<>>
    /\ Head(toClient).kind = kind
    /\ toClient' = Tail(toClient)

\* proto.Unmarshal fails: the loop ends, the connection is left as it is.
ReadUndecodable ==
    /\ NextFrame("undecodable")
    /\ readPc' = "fail"
    /\ UNCHANGED <<entryVars, muVars, sendVars, done, closePc, kaPc,
                   handlerPc, cancelled, conn, served, answered>>

ReadUnknown ==
    /\ NextFrame("unknown")
    /\ UNCHANGED <<clientVars, cancelled, conn, served, answered>>

\* dispatchRequest: a goroutine per request; without a handler the loop
\* itself writes the 400 reply.
ReadRequest ==
    /\ NextFrame("request")
    /\ handlerPc' = [handlerPc EXCEPT ![Head(toClient).req] =
                        IF opts.handler THEN "running" ELSE "replied"]
    /\ UNCHANGED <<entryVars, muVars, sendVars, readVars, closePc, kaPc,
                   cancelled, conn, served, answered>>

\* dispatchResponse: deliver to the pending channel unless its buffer is full;
\* a response nobody waits for is dropped.
ReadResponse ==
    /\ NextFrame("response")
    /\ LET f == Head(toClient)
       IN  chBuf' = [c \in Calls |->
                        IF [id |-> f.id, call |-> c] \in pending /\ chBuf[c] = NoCall
                        THEN f.call ELSE chBuf[c]]
    /\ UNCHANGED <<entryVars, muVars, readVars, sendPc, result, closePc,
                   kaPc, handlerPc, cancelled, conn, served, answered>>

FailPending ==
    /\ readPc = "fail"
    /\ CloseAllPending
    /\ readPc' = "exit"
    /\ UNCHANGED <<entryVars, sendVars, netVars, done, closePc, kaPc,
                   handlerPc, cancelled, conn>>

\* The deferred close(c.done).
ReadExit ==
    /\ readPc = "exit"
    /\ done' = TRUE
    /\ readPc' = "exited"
    /\ UNCHANGED <<entryVars, muVars, sendVars, netVars, closePc, kaPc,
                   handlerPc, cancelled, conn>>

-----------------------------------------------------------------------------
(* The keepalive loop and the request goroutines *)

\* A ping that is not answered within its timeout closes the connection.
KeepalivePingFails ==
    /\ kaPc = "loop"
    /\ conn' = "closed"
    /\ kaPc' = "returned"
    /\ UNCHANGED <<entryVars, muVars, sendVars, readVars, netVars, closePc,
                   handlerPc, cancelled>>

KeepaliveStops ==
    /\ kaPc = "loop"
    /\ done
    /\ kaPc' = "returned"
    /\ UNCHANGED <<entryVars, muVars, sendVars, readVars, netVars, closePc,
                   handlerPc, cancelled, conn>>

\* The handler returned; replyRequest ignores a failed write.
HandlerReply(q) ==
    /\ handlerPc[q] = "running"
    /\ handlerPc' = [handlerPc EXCEPT ![q] = "replied"]
    /\ UNCHANGED <<entryVars, muVars, sendVars, readVars, netVars, closePc,
                   kaPc, cancelled, conn>>

-----------------------------------------------------------------------------
(* The environment: the server, the network and the callers' contexts *)

Push(f) ==
    /\ conn = "open"
    /\ Len(toClient) < MaxInbound
    /\ toClient' = Append(toClient, f)

\* The server answers requests it received, in any order, perhaps twice.
ServerRespond(e) ==
    /\ e \in served
    /\ Push([kind |-> "response", id |-> e.id, call |-> e.call])
    /\ answered' = answered \cup {e.call}
    /\ UNCHANGED <<clientVars, cancelled, conn, served>>

ServerRequest(q) ==
    /\ handlerPc[q] = "none"
    /\ Push([kind |-> "request", req |-> q])
    /\ handlerPc' = [handlerPc EXCEPT ![q] = "queued"]
    /\ UNCHANGED <<entryVars, muVars, sendVars, readVars, closePc, kaPc,
                   cancelled, conn, served, answered>>

ServerOther(kind) ==
    /\ Push([kind |-> kind])
    /\ UNCHANGED <<clientVars, cancelled, conn, served, answered>>

Drop ==
    /\ conn = "open"
    /\ conn' = "dropped"
    /\ UNCHANGED <<clientVars, netVars, cancelled>>

Cancel(c) ==
    /\ cancelled' = cancelled \cup {c}
    /\ c \notin cancelled
    /\ UNCHANGED <<clientVars, netVars, conn>>

-----------------------------------------------------------------------------
SendStep(c) ==
    \/ SendRefused(c) \/ SendRegister(c)
    \/ SendWrite(c) \/ SendWriteFails(c)
    \/ SendReceive(c) \/ SendAbandon(c) \/ SendCleanup(c)

CloseStep(k) == CloseAgain(k) \/ CloseLock(k) \/ CloseConn(k) \/ CloseReturn(k)

ReadLoop ==
    \/ ReadError \/ ReadUndecodable \/ ReadUnknown \/ ReadRequest
    \/ ReadResponse \/ FailPending \/ ReadExit

Keepalive == KeepalivePingFails \/ KeepaliveStops

Environment ==
    \/ \E e \in served : ServerRespond(e)
    \/ \E q \in Requests : ServerRequest(q)
    \/ \E kind \in {"undecodable", "unknown"} : ServerOther(kind)
    \/ Drop
    \/ \E c \in Calls : Cancel(c)

Next ==
    \/ \E c \in Calls : SendStart(c) \/ SendStep(c)
    \/ \E k \in Closers : CloseStep(k)
    \/ ReadLoop
    \/ Keepalive
    \/ \E q \in Requests : HandlerReply(q)
    \/ Environment

Spec == Init /\ [][Next]_vars

\* The Go scheduler runs every goroutine that can run.  Nothing is assumed of
\* the server, the network, contexts, or of Send and Close being called.
Fairness ==
    /\ \A c \in Calls : WF_vars(SendStep(c))
    /\ \A k \in Closers : WF_vars(CloseConn(k) \/ CloseReturn(k))
    /\ WF_vars(ReadLoop)
    /\ WF_vars(KeepaliveStops)

FairSpec == Spec /\ Fairness

-----------------------------------------------------------------------------
(* Properties *)

\* No Go panic: a channel in the pending table is never closed, so neither
\* dispatchResponse sends on a closed channel nor do Close and failPending
\* close one twice, however they race.
NoChannelPanic == \A p \in pending : ~chClosed[p.call]

\* Send returns the response to its own request, although responses come in
\* any order, twice, or after the call gave up.
ResponseMatchesRequest ==
    \A c \in Calls : result[c].kind = "response" => result[c].from = c

\* After Close or failPending ran, no Send is registered: nobody would close
\* its channel any more.
ClosedIsDrained == closed => pending = {}

\* An entry of the pending table belongs to a Send that has not returned.
NoPendingLeak ==
    \A p \in pending : sendPc[p.call] \in {"write", "wait", "cleanup"}

\* "unblocks any in-flight Send calls": once the client is closed, from
\* whichever side, every Send and every Close in flight returns and both
\* loops end.
ShutdownCompletes ==
    closed ~> /\ \A c \in Calls : sendPc[c] \in {"idle", "returned"}
              /\ \A k \in Closers : closePc[k] \in {"idle", "returned"}
              /\ readPc = "exited"
              /\ kaPc = "returned"

\* "Close tears down the connection": a Close that returned leaves, at last,
\* no open connection behind.
CloseTearsDownConnection ==
    \A k \in Closers : closePc[k] = "returned" ~> conn = "closed"

\* The client implements RpcChannel.
rpcStatus ==
    [c \in Calls |->
        CASE sendPc[c] = "idle" -> "idle"
          [] sendPc[c] \in {"register", "write", "wait"} ->
                IF lateCall[c] THEN "late" ELSE "early"
          [] OTHER -> result[c].kind]

Rpc == INSTANCE RpcChannel
       WITH status <- rpcStatus,
            down <- closed,
            delivered <- {e.call : e \in served},
            answered <- answered

\* Every Send begins once and returns once, with the peer's answer to this
\* call or an error, and a Send entered after the client closed never reaches
\* the peer.
ImplementsRpcChannel == Rpc!RpcSpec

-----------------------------------------------------------------------------
(* The inductive invariant behind the safety properties *)

\* Ids are handed out once.
IdsUnique ==
    /\ \A c \in Calls : idOf[c] <= nextID
    /\ \A c \in Calls : sendPc[c] = "idle" <=> idOf[c] = 0
    /\ \A c, d \in Calls : idOf[c] = idOf[d] /\ idOf[c] # 0 => c = d

\* Everything that carries an id, in the table or on the wire, carries the id
\* of the call it names.
IdsOwned ==
    /\ \A p \in pending \cup served : p.id = idOf[p.call] /\ p.id # 0
    /\ \A i \in DOMAIN toClient : toClient[i].kind = "response" =>
            /\ toClient[i].id = idOf[toClient[i].call]
            /\ toClient[i].id # 0
            /\ toClient[i].call \in answered

\* A buffered answer is the call's own; only registered channels get closed.
ChannelsOwned ==
    \A c \in Calls :
        /\ chBuf[c] # NoCall => chBuf[c] = c /\ c \in answered
        /\ chClosed[c] => sendPc[c] \in {"write", "wait", "cleanup", "returned"}

\* A Send entered after the close is refused in its first critical section.
LateCallsRefused ==
    \A c \in Calls : lateCall[c] =>
        /\ closed
        /\ sendPc[c] \in {"register", "returned"}

WsInv ==
    /\ TypeOK
    /\ IdsUnique
    /\ IdsOwned
    /\ ChannelsOwned
    /\ LateCallsRefused
    /\ NoChannelPanic
    /\ NoPendingLeak
    /\ ClosedIsDrained
    /\ ResponseMatchesRequest
=============================================================================
