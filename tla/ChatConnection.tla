-------------------------- MODULE ChatConnection --------------------------
(***************************************************************************)
(* internal/chat/connection.go: chat.Connection keeps one websocket client *)
(* alive, reconnecting with backoff, until Close or the parent context     *)
(* ends it.  Goroutines: runLoop and the callers of Close.  A websocket    *)
(* client (module WsClient) is a number here.  It is in reading from its   *)
(* dial until its read loop ends, and in open until its connection is      *)
(* closed: the two part at an undecodable frame, which ends the read loop  *)
(* and leaves the connection as it is.                                     *)
(***************************************************************************)
EXTENDS Backoff

CONSTANTS ChatClosers,  \* the Close calls, each made at most once
          MaxDials,     \* bound: successful dials
          MaxAttempt    \* the attempts told apart, see SaturationExact

ASSUME ChatAssumption == MaxDials \in Nat \ {0} /\ MaxAttempt \in Nat

\* The attempt counter of the code has no bound.  From MaxAttempt on the
\* backoff is out of a Duration's range, so all later attempts do the same and
\* the counter may stay there.
ASSUME SaturationExact == InitialBackoff * 2^MaxAttempt > MaxInt

\* Facts of arithmetic the proof system has no theory for.
ASSUME PowersOfTwo ==
    /\ 2^(Width - 1) \in Nat /\ 2^(Width - 1) >= 4
    /\ \A a \in 0..MaxAttempt : 2^a \in Nat \ {0}

VARIABLES
    \* A local variable of the code is 0 where it is out of scope.
    client,     \* Connection.client, 0 for nil
    closed,     \* Connection.closed
    ctxDone,    \* runCtx is cancelled, by Close or by the parent context
    done,       \* Connection.done is closed
    runPc,      \* program counter of runLoop and reconnect
    watched,    \* runLoop's local client
    dialed,     \* the client connectOnce dialled and has not yet stored
    attempt,    \* runLoop's attempt counter, up to MaxAttempt
    delay,      \* the last delay of reconnect
    closePc,    \* program counter of each Close
    captured,   \* the client each Close read under the lock
    reading,    \* clients whose read loop runs
    open,       \* clients whose connection is open
    dials       \* successful dials so far

runVars == <<runPc, watched, dialed, attempt, delay, done>>
closeVars == <<closePc, captured>>
clientSets == <<reading, open>>
chatVars == <<client, closed, ctxDone, runVars, closeVars, clientSets, dials>>

Client == 1..MaxDials

\* The types of the variables; a delay of backoffDelay is a time.Duration.
ChatTypeOK ==
    /\ client \in Client \cup {0}
    /\ closed \in BOOLEAN
    /\ ctxDone \in BOOLEAN
    /\ done \in BOOLEAN
    /\ runPc \in {"top", "select", "closeExit", "closeRetry", "reconnect",
                  "sleep", "dial", "store", "exit", "exited", "panicked"}
    /\ watched \in Client \cup {0}
    /\ dialed \in Client \cup {0}
    /\ attempt \in 0..MaxAttempt
    /\ delay \in MinInt..MaxInt
    /\ closePc \in [ChatClosers -> {"idle", "client", "await", "returned"}]
    /\ captured \in [ChatClosers -> Client \cup {0}]
    /\ reading \subseteq open
    /\ open \subseteq Client
    /\ dials \in Client

\* Connect: connectOnce succeeded and runLoop was started.
ChatInit ==
    /\ client = 1
    /\ closed = FALSE
    /\ ctxDone = FALSE
    /\ done = FALSE
    /\ runPc = "top"
    /\ watched = 0
    /\ dialed = 0
    /\ attempt = 0
    /\ delay = 0
    /\ closePc = [k \in ChatClosers |-> "idle"]
    /\ captured = [k \in ChatClosers |-> 0]
    /\ reading = {1}
    /\ open = {1}
    /\ dials = 1

-----------------------------------------------------------------------------
(* runLoop *)

\* The snapshot of client and closed at the top of the loop.
LoopTop ==
    /\ runPc = "top"
    /\ watched' = client
    /\ runPc' = IF closed THEN "exit" ELSE IF client = 0 THEN "reconnect" ELSE "select"
    /\ UNCHANGED <<client, closed, ctxDone, done, dialed, attempt, delay,
                   closeVars, clientSets, dials>>

\* Mutant: does not watch client.Done().
LoopSelectCtxOnly ==
    /\ runPc = "select"
    /\ ctxDone
    /\ runPc' = "closeExit"
    /\ UNCHANGED <<client, closed, ctxDone, done, watched, dialed, attempt,
                   delay, closeVars, clientSets, dials>>

\* The select: either ready branch may win.
LoopSelect ==
    /\ runPc = "select"
    /\ \/ ctxDone /\ runPc' = "closeExit"
       \/ watched \notin reading /\ runPc' = "closeRetry"
    /\ UNCHANGED <<client, closed, ctxDone, done, watched, dialed, attempt,
                   delay, closeVars, clientSets, dials>>

\* ws.Client.Close of client i.  It closes the connection and waits for the
\* read loop, but returns at once when the read loop has ended before it.
WsClose(i) ==
    /\ open' = IF i \in reading THEN open \ {i} ELSE open
    /\ reading' = reading \ {i}

closeClient ==
    /\ WsClose(client)
    /\ client' = 0

LoopCloseClient ==
    /\ runPc \in {"closeExit", "closeRetry"}
    /\ closeClient
    /\ watched' = 0
    /\ runPc' = IF runPc = "closeExit" THEN "exit" ELSE "reconnect"
    /\ UNCHANGED <<closed, ctxDone, done, dialed, attempt, delay, closeVars, dials>>

\* Mutant: the loop returns without closing c.done.
LoopExitSilent ==
    /\ runPc = "exit"
    /\ runPc' = "exited"
    /\ UNCHANGED <<client, closed, ctxDone, done, watched, dialed, attempt,
                   delay, closeVars, clientSets, dials>>

\* The deferred close(c.done).
LoopExit ==
    /\ runPc = "exit"
    /\ runPc' = "exited"
    /\ done' = TRUE
    /\ UNCHANGED <<client, closed, ctxDone, watched, dialed, attempt, delay,
                   closeVars, clientSets, dials>>

-----------------------------------------------------------------------------
(* reconnect and connectOnce *)

ReconnectRefused ==
    /\ runPc = "reconnect"
    /\ closed
    /\ runPc' = "exit"
    /\ UNCHANGED <<client, closed, ctxDone, done, watched, dialed, attempt,
                   delay, closeVars, clientSets, dials>>

\* backoffDelay, then attempt++.  A panic takes the process down.
ReconnectBackoff ==
    /\ runPc = "reconnect"
    /\ ~closed
    /\ \E o \in backoffDelay(attempt) :
          /\ delay' = o.delay
          /\ runPc' = IF o.panic THEN "panicked" ELSE "sleep"
    /\ attempt' = IF attempt < MaxAttempt THEN attempt + 1 ELSE attempt
    /\ UNCHANGED <<client, closed, ctxDone, done, watched, dialed,
                   closeVars, clientSets, dials>>

\* The select between ctx.Done and the timer.
ReconnectWait ==
    /\ runPc = "sleep"
    /\ \/ ctxDone /\ runPc' = "exit"
       \/ runPc' = "dial"
    /\ delay' = 0
    /\ UNCHANGED <<client, closed, ctxDone, done, watched, dialed, attempt,
                   closeVars, clientSets, dials>>

\* The dial succeeds; the new client is up before it is stored.
DialOk ==
    /\ runPc = "dial"
    /\ ~ctxDone
    /\ dials < MaxDials
    /\ dials' = dials + 1
    /\ dialed' = dials + 1
    /\ reading' = reading \cup {dials + 1}
    /\ open' = open \cup {dials + 1}
    /\ runPc' = "store"
    /\ UNCHANGED <<client, closed, ctxDone, done, watched, attempt, delay,
                   closeVars>>

DialFails ==
    /\ runPc = "dial"
    /\ runPc' = "reconnect"
    /\ UNCHANGED <<client, closed, ctxDone, done, watched, dialed, attempt,
                   delay, closeVars, clientSets, dials>>

\* Mutant: the dialled client is not stored.
StoreClientForgotten ==
    /\ runPc = "store"
    /\ attempt' = 0
    /\ runPc' = "top"
    /\ UNCHANGED <<client, closed, ctxDone, done, watched, dialed, delay,
                   closeVars, clientSets, dials>>

\* c.client = client under the lock, whatever closed is by now; attempt = 0.
StoreClient ==
    /\ runPc = "store"
    /\ client' = dialed
    /\ dialed' = 0
    /\ attempt' = 0
    /\ runPc' = "top"
    /\ UNCHANGED <<closed, ctxDone, done, watched, delay, closeVars, clientSets, dials>>

-----------------------------------------------------------------------------
(* Close *)

\* The critical section of the first Close.
CloseFirst(k) ==
    /\ closePc[k] = "idle"
    /\ ~closed
    /\ closed' = TRUE
    /\ ctxDone' = TRUE
    /\ captured' = [captured EXCEPT ![k] = client]
    /\ closePc' = [closePc EXCEPT ![k] = "client"]
    /\ UNCHANGED <<client, runVars, clientSets, dials>>

\* A later Close only waits.
CloseLater(k) ==
    /\ closePc[k] = "idle"
    /\ closed
    /\ closePc' = [closePc EXCEPT ![k] = "await"]
    /\ UNCHANGED <<client, closed, ctxDone, runVars, captured, clientSets, dials>>

\* client.Close() of the captured client, if there was one.
CloseCaptured(k) ==
    /\ closePc[k] = "client"
    /\ WsClose(captured[k])
    /\ captured' = [captured EXCEPT ![k] = 0]
    /\ closePc' = [closePc EXCEPT ![k] = "await"]
    /\ UNCHANGED <<client, closed, ctxDone, runVars, dials>>

\* Mutant: Close does not wait for runLoop.
CloseReturnAtOnce(k) ==
    /\ closePc[k] = "await"
    /\ closePc' = [closePc EXCEPT ![k] = "returned"]
    /\ UNCHANGED <<client, closed, ctxDone, runVars, captured, clientSets, dials>>

\* <-c.done
CloseReturn(k) ==
    /\ closePc[k] = "await"
    /\ done
    /\ closePc' = [closePc EXCEPT ![k] = "returned"]
    /\ UNCHANGED <<client, closed, ctxDone, runVars, captured, clientSets, dials>>

-----------------------------------------------------------------------------
(* The environment *)

\* The peer or the network closes a connection; a read loop on it ends.
Disconnect(i) ==
    /\ i \in open
    /\ open' = open \ {i}
    /\ reading' = reading \ {i}
    /\ UNCHANGED <<client, closed, ctxDone, runVars, closeVars, dials>>

\* The read loop meets a frame it cannot decode: it ends, and does not close
\* the connection.
UndecodableFrame(i) ==
    /\ i \in reading
    /\ reading' = reading \ {i}
    /\ UNCHANGED <<client, closed, ctxDone, runVars, closeVars, open, dials>>

\* The context passed to Connect is cancelled.
ParentCancel ==
    /\ ~ctxDone
    /\ ctxDone' = TRUE
    /\ UNCHANGED <<client, closed, runVars, closeVars, clientSets, dials>>

-----------------------------------------------------------------------------
RunLoop ==
    \/ LoopTop \/ LoopSelect \/ LoopCloseClient \/ LoopExit
    \/ ReconnectRefused \/ ReconnectBackoff \/ ReconnectWait
    \/ DialOk \/ DialFails \/ StoreClient

\* A panic of reconnect takes the process down.
Running == runPc # "panicked"

CloseStep(k) == Running /\ (CloseCaptured(k) \/ CloseReturn(k))
CloseCall(k) == Running /\ (CloseFirst(k) \/ CloseLater(k))

ChatEnvironment ==
    ParentCancel \/ \E i \in open : Disconnect(i) \/ UndecodableFrame(i)

ChatNext ==
    \/ RunLoop
    \/ \E k \in ChatClosers : CloseCall(k) \/ CloseStep(k)
    \/ ChatEnvironment

ChatSpec == ChatInit /\ [][ChatNext]_chatVars

\* Goroutines that can run do run, timers fire and dials return.
ChatFairness ==
    /\ WF_chatVars(RunLoop)
    /\ \A k \in ChatClosers : WF_chatVars(CloseStep(k))

\* In addition, a server that stays reachable: dialling again and again
\* succeeds at last.
ReachableServer == SF_chatVars(DialOk)

ChatFairSpec == ChatSpec /\ ChatFairness
ChatReachableSpec == ChatFairSpec /\ ReachableServer

-----------------------------------------------------------------------------
(* Properties *)

\* At most one read loop at a time takes requests from the server: a reconnect
\* dials only when the previous client reads no more.
OneReader == \A i, j \in reading : i = j

\* "stops reconnection": once a Close has returned nothing is dialled or stored.
NoReconnectAfterClose ==
    [][(\E k \in ChatClosers : closePc[k] = "returned")
            => UNCHANGED <<dials, client>>]_chatVars

\* A parent context that ends the loop leaves no read loop running.
CancelLeavesNoReader == done /\ ~closed => reading = {}

\* "capped exponential backoff with jitter": whatever the attempt, also where
\* the doubling left the range of a Duration, a wait that begins lasts at least
\* the initial backoff, or the cap when that is smaller, and at most a quarter
\* above the cap.
DelayCapped ==
    runPc = "sleep" =>
        /\ delay >= CappedBelow(InitialBackoff)
        /\ delay <= MaxBackoff + Quarter(MaxBackoff)

\* reconnect never panics, however long the outage.
NoPanic == Running

\* "a reconnecting authenticated websocket", one at a time: none is dialled
\* while another connection of this account is open.
OneConnection == \A i, j \in open : i = j

\* "Close shuts down the connection": no connection is open once Close has
\* returned.
CloseLeavesNoClient ==
    (\E k \in ChatClosers : closePc[k] = "returned") => open = {}

\* "Blocks until the run loop exits", and no longer.
CloseReturns ==
    \A k \in ChatClosers :
        closePc[k] # "idle" ~> (closePc[k] = "returned" \/ ~Running)

\* "reconnects automatically on transient failures": a lost connection comes
\* back while the connection is wanted, unless reconnect panics (see NoPanic)
\* or the model has no dial left (MaxDials).
Reconnects ==
    (reading = {} /\ ~ctxDone)
        ~> (reading # {} \/ ctxDone \/ ~Running \/ dials = MaxDials)

-----------------------------------------------------------------------------
(* The inductive invariant behind OneReader, CancelLeavesNoReader and        *)
(* NoReconnectAfterClose: which client can be read at each point of runLoop. *)

LiveAtPc ==
    /\ runPc \in {"top", "select", "closeExit", "exit", "exited"} => reading \subseteq {client}
    /\ runPc \in {"select", "closeExit", "closeRetry"} => watched = client
    /\ runPc \in {"closeRetry", "reconnect", "sleep", "dial", "panicked"} => reading = {}
    /\ runPc = "store" => reading \subseteq {dialed}

ExitFacts ==
    /\ done <=> runPc = "exited"
    /\ runPc \in {"exit", "exited"} /\ ~closed => reading = {}
    /\ \A k \in ChatClosers : closePc[k] = "returned" => done

ChatInv == ChatTypeOK /\ LiveAtPc /\ ExitFacts
=============================================================================
