---------------------------- MODULE EventStream ----------------------------
(***************************************************************************)
(* pkg/signal/client.go and pkg/bot/bot.go over chat.Connection: envelopes *)
(* pushed by the server are handled one goroutine each, decrypted against  *)
(* the sender's session, put in the bounded Events channel and answered    *)
(* 200; Bot.Run takes them out; Bot.Close tears everything down.           *)
(*                                                                         *)
(* A session record is abstracted to the set of envelopes whose message    *)
(* key it has used up (consumed): decrypting loads the record, derives the *)
(* key and stores the record back, and no lock spans the two.              *)
(* A panic, here or in reconnect, ends the process: no action of it is      *)
(* enabled afterwards (Up).                                                *)
(***************************************************************************)
EXTENDS ChatConnection, Sequences, FiniteSets

CONSTANTS Envelopes,   \* envelopes in the server's queue for this device
          Silent,      \* those that give no event: delivery receipts, noise
          EventBuffer  \* capacity of Client.events

ASSUME StreamAssumption ==
    Silent \subseteq Envelopes /\ EventBuffer \in Nat \ {0}

VARIABLES
    unacked,      \* envelopes the server has not been told about
    sent,         \* <<envelope, client>>: pushed over that connection
    tasks,        \* the goroutines of dispatchRequest
    consumed,     \* the stored session record
    events,       \* Client.events
    eventsClosed, \* close(c.events) has run
    dropped,      \* envelopes whose event found the channel full
    taken,        \* events Bot.Run received
    streamPanic,  \* a send on, or a second close of, the closed channel
    botClosed,    \* Bot.closed
    botPc,        \* program counter of each Bot.Close
    botRun,       \* program counter of Bot.Run
    runCtxDone    \* the context passed to Run is cancelled

handlerVars == <<unacked, sent, tasks, consumed, dropped>>
botVars == <<botClosed, botPc>>
runnerVars == <<taken, botRun, runCtxDone>>
streamVars == <<handlerVars, events, eventsClosed, streamPanic, botVars, runnerVars>>
allVars == <<chatVars, streamVars>>

Event == [env : Envelopes, ok : BOOLEAN]
Task == [env : Envelopes, via : Client, pc : {"load", "store", "emit", "reply"},
         seen : SUBSET Envelopes, ok : BOOLEAN]

\* The types of the variables; the Events channel never holds more than its
\* capacity, as emit drops what does not fit.
StreamTypeOK ==
    /\ ChatTypeOK
    /\ unacked \subseteq Envelopes
    /\ sent \subseteq Envelopes \X Client
    /\ tasks \subseteq Task
    /\ consumed \subseteq Envelopes
    /\ events \in Seq(Event) /\ Len(events) <= EventBuffer
    /\ eventsClosed \in BOOLEAN
    /\ dropped \subseteq Envelopes
    /\ taken \subseteq Event
    /\ streamPanic \in BOOLEAN
    /\ botClosed \in BOOLEAN
    /\ botPc \in [ChatClosers -> {"idle", "client", "returned"}]
    /\ botRun \in {"idle", "select", "returned"}
    /\ runCtxDone \in BOOLEAN

StreamInit ==
    /\ ChatInit
    /\ unacked = Envelopes
    /\ sent = {}
    /\ tasks = {}
    /\ consumed = {}
    /\ events = <<>>
    /\ eventsClosed = FALSE
    /\ dropped = {}
    /\ taken = {}
    /\ streamPanic = FALSE
    /\ botClosed = FALSE
    /\ botPc = [k \in ChatClosers |-> "idle"]
    /\ botRun = "idle"
    /\ runCtxDone = FALSE

-----------------------------------------------------------------------------
(* handleServerRequest, handleInbound, processEnvelope, emit, replyRequest *)

\* The process runs.
Up == Running /\ ~streamPanic

Becomes(t, u) == tasks' = (tasks \ {t}) \cup {u}

\* The server pushes what is unacknowledged once per connection, and
\* dispatchRequest starts a goroutine for it.
Deliver(e, i) ==
    /\ Up
    /\ e \in unacked
    /\ i \in reading
    /\ <<e, i>> \notin sent
    /\ sent' = sent \cup {<<e, i>>}
    /\ tasks' = tasks \cup {[env |-> e, via |-> i, ok |-> FALSE, seen |-> {},
                             pc |-> IF e \in Silent THEN "reply" ELSE "load"]}
    /\ UNCHANGED <<chatVars, unacked, consumed, dropped, events, eventsClosed,
                   streamPanic, botVars, runnerVars>>

\* Decrypt, first half: libsignal's load_session callback.
LoadSession(t) ==
    /\ Up
    /\ t.pc = "load"
    /\ Becomes(t, [t EXCEPT !.pc = "store", !.seen = consumed])
    /\ UNCHANGED <<chatVars, unacked, sent, consumed, dropped, events,
                   eventsClosed, streamPanic, botVars, runnerVars>>

\* Decrypt, second half: a key already used is a duplicate, which is an error;
\* otherwise the record loaded before is stored back with one more key used.
StoreSession(t) ==
    /\ Up
    /\ t.pc = "store"
    /\ Becomes(t, [t EXCEPT !.pc = "emit", !.seen = {}, !.ok = t.env \notin t.seen])
    /\ consumed' = IF t.env \in t.seen THEN consumed ELSE t.seen \cup {t.env}
    /\ UNCHANGED <<chatVars, unacked, sent, dropped, events, eventsClosed,
                   streamPanic, botVars, runnerVars>>

\* emit: never blocks; an event that finds the channel full is dropped.
Emit(t) ==
    /\ Up
    /\ t.pc = "emit"
    /\ ~eventsClosed
    /\ \/ /\ Len(events) < EventBuffer
          /\ events' = Append(events, [env |-> t.env, ok |-> t.ok])
          /\ UNCHANGED dropped
       \/ /\ Len(events) = EventBuffer
          /\ dropped' = dropped \cup {t.env}
          /\ UNCHANGED events
    /\ Becomes(t, [t EXCEPT !.pc = "reply"])
    /\ UNCHANGED <<chatVars, unacked, sent, consumed, eventsClosed,
                   streamPanic, botVars, runnerVars>>

\* A send on a closed channel panics, default branch or not.
EmitPanics(t) ==
    /\ Up
    /\ t.pc = "emit"
    /\ eventsClosed
    /\ streamPanic' = TRUE
    /\ UNCHANGED <<chatVars, handlerVars, events, eventsClosed, botVars, runnerVars>>

\* Mutant: acknowledges on receipt.
ReplyEarly(t) ==
    /\ Up
    /\ t.pc # "reply"
    /\ unacked' = IF t.via \in open THEN unacked \ {t.env} ELSE unacked
    /\ tasks' = tasks \ {t}
    /\ UNCHANGED <<chatVars, sent, consumed, dropped, events, eventsClosed,
                   streamPanic, botVars, runnerVars>>

\* Mutant: answers only when the envelope decrypted.
ReplyIfDecrypted(t) ==
    /\ Up
    /\ t.pc = "reply"
    /\ unacked' = IF t.via \in open /\ t.ok THEN unacked \ {t.env} ELSE unacked
    /\ tasks' = tasks \ {t}
    /\ UNCHANGED <<chatVars, sent, consumed, dropped, events, eventsClosed,
                   streamPanic, botVars, runnerVars>>

\* replyRequest: 200, whatever became of the event; lost when the connection
\* is closed, written also after its read loop has ended.
Reply(t) ==
    /\ Up
    /\ t.pc = "reply"
    /\ unacked' = IF t.via \in open THEN unacked \ {t.env} ELSE unacked
    /\ tasks' = tasks \ {t}
    /\ UNCHANGED <<chatVars, sent, consumed, dropped, events, eventsClosed,
                   streamPanic, botVars, runnerVars>>

TaskStep(t) ==
    LoadSession(t) \/ StoreSession(t) \/ Emit(t) \/ EmitPanics(t) \/ Reply(t)

-----------------------------------------------------------------------------
(* Bot.Close and Client.Close *)

\* The check of b.closed: the first caller goes on, the others return.
BotClose(k) ==
    /\ Up
    /\ botPc[k] = "idle"
    /\ botClosed' = TRUE
    /\ botPc' = [botPc EXCEPT ![k] = IF botClosed THEN "returned" ELSE "client"]
    /\ UNCHANGED <<chatVars, handlerVars, events, eventsClosed, streamPanic, runnerVars>>

\* c.conn.Close(): the Close of module ChatConnection.
ConnClose(k) ==
    /\ Up
    /\ botPc[k] = "client"
    /\ CloseCall(k) \/ CloseStep(k)
    /\ UNCHANGED streamVars

\* close(c.events), which panics the second time.
CloseEvents(k) ==
    /\ Up
    /\ botPc[k] = "client"
    /\ closePc[k] = "returned"
    /\ eventsClosed' = TRUE
    /\ streamPanic' = eventsClosed
    /\ botPc' = [botPc EXCEPT ![k] = "returned"]
    /\ UNCHANGED <<chatVars, handlerVars, events, botClosed, runnerVars>>

-----------------------------------------------------------------------------
(* Bot.Run *)

RunStart ==
    /\ Up
    /\ botRun = "idle"
    /\ botRun' = "select"
    /\ UNCHANGED <<chatVars, handlerVars, events, eventsClosed, streamPanic,
                   botVars, taken, runCtxDone>>

\* An event is received and dispatched; select may prefer it to ctx.Done().
RunTake ==
    /\ Up
    /\ botRun = "select"
    /\ events # <<>>
    /\ taken' = taken \cup {Head(events)}
    /\ events' = Tail(events)
    /\ UNCHANGED <<chatVars, handlerVars, eventsClosed, streamPanic, botVars,
                   botRun, runCtxDone>>

\* Mutant: ignores the closed channel.
RunReturnCtxOnly ==
    /\ Up
    /\ botRun = "select"
    /\ runCtxDone
    /\ botRun' = "returned"
    /\ UNCHANGED <<chatVars, handlerVars, events, eventsClosed, streamPanic,
                   botVars, taken, runCtxDone>>

\* The context is cancelled, or the channel is closed and drained.
RunReturn ==
    /\ Up
    /\ botRun = "select"
    /\ runCtxDone \/ (eventsClosed /\ events = <<>>)
    /\ botRun' = "returned"
    /\ UNCHANGED <<chatVars, handlerVars, events, eventsClosed, streamPanic,
                   botVars, taken, runCtxDone>>

RunCancel ==
    /\ Up
    /\ botRun # "returned"
    /\ ~runCtxDone
    /\ runCtxDone' = TRUE
    /\ UNCHANGED <<chatVars, handlerVars, events, eventsClosed, streamPanic,
                   botVars, taken, botRun>>

-----------------------------------------------------------------------------
\* The connection's own steps.
ConnLoop == Up /\ RunLoop /\ UNCHANGED streamVars
ConnDial == Up /\ DialOk /\ UNCHANGED streamVars
ConnEnvironment == Up /\ ChatEnvironment /\ UNCHANGED streamVars

BotCloseStep(k) == ConnClose(k) \/ CloseEvents(k)

Push == \E e \in unacked, i \in reading : Deliver(e, i)

StreamNext ==
    \/ Push
    \/ \E t \in tasks : TaskStep(t)
    \/ \E k \in ChatClosers : BotClose(k) \/ BotCloseStep(k)
    \/ RunStart \/ RunTake \/ RunReturn \/ RunCancel
    \/ ConnLoop \/ ConnEnvironment

StreamSpec == StreamInit /\ [][StreamNext]_allVars

\* Goroutines run; a connected server pushes what it holds.
StreamFairness ==
    /\ WF_allVars(ConnLoop)
    /\ WF_allVars(Push)
    /\ WF_allVars(\E t \in tasks : TaskStep(t))
    /\ \A k \in ChatClosers : WF_allVars(BotCloseStep(k))
    /\ WF_allVars(RunTake \/ RunReturn)

\* The server stays reachable (module ChatConnection).
StreamReachable == SF_allVars(ConnDial)

StreamFairSpec == StreamSpec /\ StreamFairness /\ StreamReachable

-----------------------------------------------------------------------------
(* Properties *)

\* The event of envelope e is in the channel, was received or was dropped.
Out(e) ==
    \/ e \in dropped
    \/ \E v \in taken : v.env = e
    \/ \E n \in 1..Len(events) : events[n].env = e

\* Answering 200 makes the server forget the envelope, so it comes after emit,
\* also for redelivered envelopes and across reconnects: the event is in the
\* channel, was received by Run, or found the channel full, where emit drops it
\* on purpose and the envelope is lost.
AckedAfterEmit == \A e \in Envelopes \ (unacked \cup Silent) : Out(e)

\* "Idempotent": however many Bot.Close calls there are, one Client.Close is
\* under way at a time and none after its close(c.events), which would panic.
ClosedOnce ==
    /\ \A j, k \in ChatClosers : botPc[j] = "client" /\ botPc[k] = "client" => j = k
    /\ eventsClosed => \A k \in ChatClosers : botPc[k] # "client"

\* "until ... [Bot.Close] is called": Run returns, after draining the channel,
\* unless the process dies (NoPanic, NoStreamPanic).
RunReturns == (botRun = "select" /\ botClosed) ~> (botRun = "returned" \/ ~Up)

\* Redelivery after a reconnect ends: every envelope is acknowledged in the end
\* unless the connection is given up, the process dies (NoPanic, NoStreamPanic)
\* or the model has no dial left.
AllAcked ==
    \A e \in Envelopes :
        e \in unacked ~> \/ e \notin unacked
                         \/ ctxDone
                         \/ ~Up
                         \/ dials = MaxDials /\ reading = {}

\* "closes the [Events] channel ... Blocks until teardown completes": no
\* goroutine of the client still uses the channel once it is closed.
NoStreamPanic == ~streamPanic

\* "non-nil on transport failure": Run does not outlive the connection's loop.
RunSeesConnectionEnd == (botRun = "select" /\ done) ~> (botRun = "returned" \/ ~Up)

\* "Subsequent calls to [Bot.Run] return immediately": a Run called after a
\* Bot.Close has returned finds nothing to dispatch.
LateRunDispatchesNothing ==
    [][(\E k \in ChatClosers : botPc[k] = "returned") /\ RunStart
            => events = <<>>]_allVars

\* "replayed envelope ... fail closed and surface *DecryptionErrorEvent": of one
\* envelope, delivered again after a reconnect, one message comes out.
ReplayFailsClosed ==
    \A e \in Envelopes :
        LET opened == [env |-> e, ok |-> TRUE]
        IN  Cardinality({t \in tasks : t.env = e /\ t.pc = "emit" /\ t.ok})
              + Cardinality({n \in 1..Len(events) : events[n] = opened})
              + Cardinality(taken \cap {opened}) <= 1

-----------------------------------------------------------------------------
(* The inductive invariant behind AckedAfterEmit and ClosedOnce *)

\* A goroutine answers only once its event is out.
ReplyAfterOut == \A t \in tasks : t.pc = "reply" => t.env \in Silent \/ Out(t.env)

CloseGuarded ==
    ~botClosed => ~eventsClosed /\ \A k \in ChatClosers : botPc[k] = "idle"

StreamInv ==
    ChatInv /\ StreamTypeOK /\ ReplyAfterOut /\ AckedAfterEmit /\ CloseGuarded /\ ClosedOnce
=============================================================================
