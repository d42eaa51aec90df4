------------------------- MODULE EventStreamProofs -------------------------
(***************************************************************************)
(* Proofs about ChatConnection, for any number of Close calls and dials    *)
(* and any backoff parameters, and about EventStream: the composition      *)
(* still implements the chat connection, an envelope is acknowledged only  *)
(* after emit, and Client.Close runs once however often the bot is closed. *)
(***************************************************************************)
EXTENDS EventStream, TLAPS

-----------------------------------------------------------------------------
(* The chat connection *)

\* The range of a Duration.
LEMMA DurationRange == MaxInt \in Nat /\ MinInt = -MaxInt - 1 /\ MinInt <= -4
  BY PowersOfTwo DEF MaxInt, MinInt

\* The uncapped backoff is a positive integer.
LEMMA RawBackoff ==
    ASSUME NEW a \in 0..MaxAttempt
    PROVE  InitialBackoff * 2^a \in Nat \ {0} /\ InitialBackoff <= InitialBackoff * 2^a
  <1> DEFINE p == 2^a
  <1>1. p \in Nat \ {0}
    BY PowersOfTwo
  <1> HIDE DEF p
  <1>2. InitialBackoff * p \in Nat \ {0} /\ InitialBackoff <= InitialBackoff * p
    BY <1>1, BackoffAssumption
  <1>3. QED
    BY <1>2 DEF p

\* What the cap and the jitter make of a duration.
LEMMA JitterBounds ==
    ASSUME NEW t \in Int, NEW o \in WithJitter(CappedBelow(t)), t >= MinInt
    PROVE  /\ o.delay \in MinInt..MaxInt
           /\ t > 0 => /\ ~o.panic
                       /\ o.delay >= CappedBelow(t)
                       /\ o.delay <= MaxBackoff + Quarter(MaxBackoff)
  <1> DEFINE d == CappedBelow(t)
  <1>1. d \in Int /\ d <= MaxBackoff /\ d >= MinInt /\ (t > 0 => d > 0)
    BY BackoffAssumption, DurationRange DEF CappedBelow
  <1>2. CASE Quarter(d) + 1 <= 0
    <2>1. o = [panic |-> TRUE, delay |-> 0]
      BY <1>2 DEF WithJitter
    <2>2. ~(t > 0)
      BY <1>1, <1>2 DEF Quarter
    <2>3. QED
      BY <2>1, <2>2, DurationRange
  <1>3. CASE ~(Quarter(d) + 1 <= 0)
    <2>1. PICK j \in 0..Quarter(d) : o = [panic |-> FALSE, delay |-> d + j]
      BY <1>3 DEF WithJitter
    <2>2. Quarter(d) \in Int /\ d > -4
      BY <1>1, <1>3 DEF Quarter
    <2>3. o.delay = d + j /\ ~o.panic
      BY <2>1
    <2>4. d >= 0 => Quarter(d) <= Quarter(MaxBackoff)
      BY <1>1, BackoffAssumption DEF Quarter
    <2>5. d < 0 => Quarter(d) = 0
      BY <1>1, <2>2 DEF Quarter
    <2>6. Quarter(MaxBackoff) = MaxBackoff \div 4 /\ MaxBackoff \div 4 \in Nat
      BY BackoffAssumption DEF Quarter
    <2> HIDE DEF d
    <2>7. o.delay >= d /\ o.delay <= MaxBackoff + Quarter(MaxBackoff) /\ o.delay \in Int
      BY <1>1, <2>1, <2>2, <2>3, <2>4, <2>5, <2>6, BackoffAssumption
    <2>8. o.delay \in MinInt..MaxInt
      BY <1>1, <2>6, <2>7, BackoffAssumption, DurationRange
    <2>9. QED
      BY <1>1, <2>3, <2>7, <2>8 DEF d
  <1>4. QED
    BY <1>2, <1>3

\* Every delay backoffDelay returns fits in a Duration.
LEMMA DelayFits ==
    ASSUME NEW a \in 0..MaxAttempt, NEW o \in backoffDelay(a)
    PROVE  o.delay \in MinInt..MaxInt
  <1>1. PICK t \in ToDuration(InitialBackoff * 2^a) : o \in WithJitter(CappedBelow(t))
    BY DEF backoffDelay
  <1>2. t \in Int /\ t >= MinInt
    BY <1>1, RawBackoff, DurationRange DEF ToDuration
  <1>3. QED
    BY <1>1, <1>2, JitterBounds

\* The least Duration, which an overflow may yield, makes rand.Int64N panic.
LEMMA LeastPanics ==
    ASSUME NEW o \in WithJitter(CappedBelow(MinInt)) PROVE o.panic
  <1>1. CappedBelow(MinInt) = MinInt
    BY DurationRange, BackoffAssumption DEF CappedBelow
  <1>2. Quarter(MinInt) + 1 <= 0
    BY DurationRange DEF Quarter
  <1>3. QED
    BY <1>1, <1>2 DEF WithJitter

\* A delay that backoffDelay returns is capped, whatever the attempt.
LEMMA DelayBounds ==
    ASSUME NEW a \in 0..MaxAttempt, NEW o \in backoffDelay(a), ~o.panic
    PROVE  /\ o.delay >= CappedBelow(InitialBackoff)
           /\ o.delay <= MaxBackoff + Quarter(MaxBackoff)
  <1>1. PICK t \in ToDuration(InitialBackoff * 2^a) : o \in WithJitter(CappedBelow(t))
    BY DEF backoffDelay
  <1>2. t = InitialBackoff * 2^a \/ t = MaxInt
    BY <1>1, LeastPanics DEF ToDuration
  <1>3. t \in Int /\ t > 0 /\ t >= MinInt /\ (InitialBackoff <= t \/ MaxBackoff <= t)
    BY <1>2, RawBackoff, DurationRange, BackoffAssumption
  <1>4. o.delay \in Int /\ CappedBelow(InitialBackoff) <= CappedBelow(t)
    BY <1>1, <1>3, JitterBounds, BackoffAssumption, DurationRange DEF CappedBelow
  <1>5. CappedBelow(InitialBackoff) \in Int /\ CappedBelow(t) \in Int
    BY <1>3, BackoffAssumption DEF CappedBelow
  <1>6. QED
    BY <1>1, <1>3, <1>4, <1>5, JitterBounds

-----------------------------------------------------------------------------
\* The state after Connect satisfies the invariant.
LEMMA ChatInitInv == ChatInit => ChatInv
  <1>1. 0 \in MinInt..MaxInt
    BY DurationRange
  <1>2. 1 \in Client /\ 0 \in 0..MaxAttempt
    BY ChatAssumption DEF Client
  <1>3. QED
    BY <1>1, <1>2 DEF ChatInit, ChatInv, ChatTypeOK, LiveAtPc, ExitFacts

\* A step of runLoop keeps the invariant.
LEMMA RunKeepsInv == ASSUME ChatInv, RunLoop PROVE ChatInv'
  <1> USE ChatAssumption DEF ChatInv, ChatTypeOK, closeVars, clientSets, Client
  <1>1. CASE LoopTop
    BY <1>1 DEF LoopTop, LiveAtPc, ExitFacts
  <1>2. CASE LoopSelect
    BY <1>2 DEF LoopSelect, LiveAtPc, ExitFacts
  <1>3. CASE LoopCloseClient
    BY <1>3 DEF LoopCloseClient, closeClient, WsClose, LiveAtPc, ExitFacts
  <1>4. CASE LoopExit
    BY <1>4 DEF LoopExit, LiveAtPc, ExitFacts
  <1>5. CASE ReconnectRefused
    BY <1>5 DEF ReconnectRefused, LiveAtPc, ExitFacts
  <1>6. CASE ReconnectBackoff
    <2>1. PICK o \in backoffDelay(attempt) :
              delay' = o.delay /\ runPc' = IF o.panic THEN "panicked" ELSE "sleep"
      BY <1>6 DEF ReconnectBackoff
    <2>2. delay' \in MinInt..MaxInt
      BY <2>1, DelayFits
    <2>3. runPc' \in {"panicked", "sleep"}
      BY <2>1
    <2>4. attempt' \in 0..MaxAttempt
      BY <1>6 DEF ReconnectBackoff
    <2>5. QED
      BY <1>6, <2>2, <2>3, <2>4 DEF ReconnectBackoff, LiveAtPc, ExitFacts
  <1>7. CASE ReconnectWait
    BY <1>7, DurationRange DEF ReconnectWait, LiveAtPc, ExitFacts
  <1>8. CASE DialOk
    BY <1>8 DEF DialOk, LiveAtPc, ExitFacts
  <1>9. CASE DialFails
    BY <1>9 DEF DialFails, LiveAtPc, ExitFacts
  <1>10. CASE StoreClient
    BY <1>10 DEF StoreClient, LiveAtPc, ExitFacts
  <1>11. QED
    BY <1>1, <1>2, <1>3, <1>4, <1>5, <1>6, <1>7, <1>8, <1>9, <1>10 DEF RunLoop

\* A step of Close keeps the invariant.
LEMMA CloseKeepsChatInv ==
    ASSUME ChatInv, NEW k \in ChatClosers, CloseCall(k) \/ CloseStep(k)
    PROVE  ChatInv'
  <1> USE DEF ChatInv, ChatTypeOK, runVars, clientSets
  <1>1. CASE CloseFirst(k)
    BY <1>1 DEF CloseFirst, LiveAtPc, ExitFacts
  <1>2. CASE CloseLater(k)
    BY <1>2 DEF CloseLater, LiveAtPc, ExitFacts
  <1>3. CASE CloseCaptured(k)
    BY <1>3 DEF CloseCaptured, WsClose, LiveAtPc, ExitFacts
  <1>4. CASE CloseReturn(k)
    BY <1>4 DEF CloseReturn, LiveAtPc, ExitFacts
  <1>5. QED
    BY <1>1, <1>2, <1>3, <1>4 DEF CloseCall, CloseStep

\* Every step keeps the invariant.
LEMMA ChatStepInv == ChatInv /\ [ChatNext]_chatVars => ChatInv'
  <1> SUFFICES ASSUME ChatInv, [ChatNext]_chatVars PROVE ChatInv'
    OBVIOUS
  <1>1. CASE ChatEnvironment
    <2>1. CASE ParentCancel
      BY <2>1 DEF ParentCancel, runVars, closeVars, clientSets, ChatInv, ChatTypeOK,
                  LiveAtPc, ExitFacts
    <2>2. ASSUME NEW i \in open, Disconnect(i) \/ UndecodableFrame(i)
          PROVE  ChatInv'
      BY <2>2 DEF Disconnect, UndecodableFrame, runVars, closeVars, ChatInv, ChatTypeOK,
                  LiveAtPc, ExitFacts
    <2>3. QED
      BY <1>1, <2>1, <2>2 DEF ChatEnvironment
  <1>2. CASE UNCHANGED chatVars
    BY <1>2 DEF chatVars, runVars, closeVars, clientSets, ChatInv, ChatTypeOK, LiveAtPc, ExitFacts
  <1>3. QED
    BY <1>1, <1>2, RunKeepsInv, CloseKeepsChatInv DEF ChatNext

\* chat.Connection keeps its inductive invariant.
THEOREM ChatInvariant == ChatSpec => []ChatInv
  BY ChatInitInv, ChatStepInv, PTL DEF ChatSpec

\* Type correctness of the chat connection, backoff delays of every attempt
\* included: a delay stays in the range of a Duration also where it wrapped.
THEOREM ChatTypeCorrect == ChatSpec => []ChatTypeOK
  <1>1. ChatInv => ChatTypeOK
    BY DEF ChatInv
  <1>2. QED
    BY <1>1, ChatInvariant, PTL

\* However reconnects, disconnections, undecodable frames and Close interleave,
\* at most one read loop takes requests from the server.
THEOREM ChatOneReader == ChatSpec => []OneReader
  <1>1. ChatInv => OneReader
    BY DEF ChatInv, ChatTypeOK, LiveAtPc, OneReader
  <1>2. QED
    BY <1>1, ChatInvariant, PTL

\* A run loop ended by its parent context leaves no read loop running.
THEOREM ChatCancelLeavesNoReader == ChatSpec => []CancelLeavesNoReader
  <1>1. ChatInv => CancelLeavesNoReader
    BY DEF ChatInv, ExitFacts, CancelLeavesNoReader
  <1>2. QED
    BY <1>1, ChatInvariant, PTL

\* After a Close has returned nothing is dialled or stored any more.
THEOREM ChatNoReconnectAfterClose == ChatSpec => NoReconnectAfterClose
  <1>1. ChatInv /\ [ChatNext]_chatVars =>
            [(\E k \in ChatClosers : closePc[k] = "returned")
                => UNCHANGED <<dials, client>>]_chatVars
    <2> SUFFICES ASSUME ChatInv, ChatNext, NEW k \in ChatClosers, closePc[k] = "returned"
                 PROVE  UNCHANGED <<dials, client>>
      BY DEF chatVars
    <2>1. runPc = "exited"
      BY DEF ChatInv, ExitFacts
    <2>2. QED
      BY <2>1 DEF ChatNext, RunLoop, LoopTop, LoopSelect, LoopCloseClient, LoopExit,
        ReconnectRefused, ReconnectBackoff, ReconnectWait, DialOk, DialFails, StoreClient,
        CloseCall, CloseStep, CloseFirst, CloseLater, CloseCaptured, CloseReturn,
        ChatEnvironment, ParentCancel, Disconnect, UndecodableFrame
  <1>2. QED
    BY <1>1, ChatInvariant, PTL DEF ChatSpec, NoReconnectAfterClose

\* Whatever the attempt, a wait of reconnect is capped: where base * 2^attempt
\* leaves the range of a Duration it either panics or waits the capped delay.
THEOREM ChatDelayCapped == ChatSpec => []DelayCapped
  <1>1. ChatInit => DelayCapped
    BY DEF ChatInit, DelayCapped
  <1>2. ChatInv /\ DelayCapped /\ [ChatNext]_chatVars => DelayCapped'
    <2> SUFFICES ASSUME ChatInv, DelayCapped, [ChatNext]_chatVars
                 PROVE  DelayCapped'
      OBVIOUS
    <2>1. CASE ReconnectBackoff
      <3>1. PICK o \in backoffDelay(attempt) :
                delay' = o.delay /\ runPc' = IF o.panic THEN "panicked" ELSE "sleep"
        BY <2>1 DEF ReconnectBackoff
      <3>2. attempt \in 0..MaxAttempt
        BY DEF ChatInv, ChatTypeOK
      <3>3. QED
        BY <3>1, <3>2, DelayBounds DEF DelayCapped
    <2>2. CASE ~ReconnectBackoff
      BY <2>2 DEF ChatNext, RunLoop, LoopTop, LoopSelect, LoopCloseClient, LoopExit,
        ReconnectRefused, ReconnectWait, DialOk, DialFails, StoreClient,
        CloseCall, CloseStep, CloseFirst, CloseLater, CloseCaptured, CloseReturn,
        ChatEnvironment, ParentCancel, Disconnect, UndecodableFrame, chatVars, runVars,
        DelayCapped
    <2>3. QED
      BY <2>1, <2>2
  <1>3. QED
    BY <1>1, <1>2, ChatInvariant, PTL DEF ChatSpec

-----------------------------------------------------------------------------
(* What is out stays out *)

\* The frame of every step but a receive: the sets grow, the channel is left
\* alone or appended to.
LEMMA OutGrows ==
    ASSUME NEW e, dropped \subseteq dropped', taken \subseteq taken',
           events \in Seq(Event), NEW v \in Event,
           events' = events \/ events' = Append(events, v),
           Out(e)
    PROVE  Out(e)'
  BY DEF Out

\* A receive moves the head of the channel to taken.
LEMMA OutMoves ==
    ASSUME NEW e, dropped' = dropped, events \in Seq(Event), events # <<>>,
           taken' = taken \cup {Head(events)}, events' = Tail(events),
           Out(e)
    PROVE  Out(e)'
  <1>1. CASE e \in dropped
    BY <1>1 DEF Out
  <1>2. CASE \E v \in taken : v.env = e
    BY <1>2 DEF Out
  <1>3. ASSUME NEW n \in 1..Len(events), events[n].env = e
        PROVE  Out(e)'
    <2>1. CASE n = 1
      BY <1>3, <2>1 DEF Out
    <2>2. CASE n > 1
      <3>1. n - 1 \in 1..Len(events') /\ events'[n - 1] = events[n]
        BY <1>3, <2>2
      <3>2. QED
        BY <1>3, <3>1 DEF Out
    <2>3. QED
      BY <1>3, <2>1, <2>2
  <1>4. QED
    BY <1>1, <1>2, <1>3 DEF Out

\* Records with one or two fields replaced are tasks.
LEMMA TaskMoved ==
    ASSUME NEW t \in Task, NEW p \in {"store", "emit", "reply"}
    PROVE  /\ [t EXCEPT !.pc = p] \in Task
           /\ [t EXCEPT !.pc = p].env = t.env
  BY DEF Task

LEMMA TaskLoaded ==
    ASSUME NEW t \in Task, NEW c \in SUBSET Envelopes
    PROVE  /\ [t EXCEPT !.pc = "store", !.seen = c] \in Task
           /\ [t EXCEPT !.pc = "store", !.seen = c].pc = "store"
  BY DEF Task

LEMMA TaskStored ==
    ASSUME NEW t \in Task, NEW b \in BOOLEAN
    PROVE  /\ [t EXCEPT !.pc = "emit", !.seen = {}, !.ok = b] \in Task
           /\ [t EXCEPT !.pc = "emit", !.seen = {}, !.ok = b].pc = "emit"
  BY DEF Task

-----------------------------------------------------------------------------
(* The composition and the connection *)

\* Every step is a step of the connection or leaves it alone.
LEMMA StreamStepChat == [StreamNext]_allVars => [ChatNext]_chatVars
  <1> USE DEF allVars
  <1>1. CASE Push
    BY <1>1 DEF Push, Deliver
  <1>2. ASSUME NEW t \in tasks, TaskStep(t) PROVE UNCHANGED chatVars
    BY <1>2 DEF TaskStep, LoadSession, StoreSession, Emit, EmitPanics, Reply
  <1>3. ASSUME NEW k \in ChatClosers, BotClose(k) \/ BotCloseStep(k)
        PROVE  [ChatNext]_chatVars
    BY <1>3 DEF BotClose, BotCloseStep, ConnClose, CloseEvents, ChatNext
  <1>4. CASE RunStart \/ RunTake \/ RunReturn \/ RunCancel
    BY <1>4 DEF RunStart, RunTake, RunReturn, RunCancel
  <1>5. CASE ConnLoop \/ ConnEnvironment
    BY <1>5 DEF ConnLoop, ConnEnvironment, ChatNext
  <1>6. QED
    BY <1>1, <1>2, <1>3, <1>4, <1>5 DEF StreamNext

\* The client and the bot use the connection as module ChatConnection allows,
\* so what is proved of it there holds here.
THEOREM StreamImplementsChat == StreamSpec => ChatSpec
  <1>1. StreamInit => ChatInit
    BY DEF StreamInit
  <1>2. QED
    BY <1>1, StreamStepChat, PTL DEF StreamSpec, ChatSpec

-----------------------------------------------------------------------------
(* The invariant *)

LEMMA StreamInitInv == StreamInit => StreamInv
  <1> SUFFICES ASSUME StreamInit PROVE StreamInv
    OBVIOUS
  <1>1. ChatInv
    BY ChatInitInv DEF StreamInit
  <1>2. StreamTypeOK
    <2>1. events \in Seq(Event) /\ Len(events) <= EventBuffer
      BY StreamAssumption DEF StreamInit
    <2>2. ChatTypeOK
      BY <1>1 DEF ChatInv
    <2>3. QED
      BY <2>1, <2>2 DEF StreamInit, StreamTypeOK
  <1>3. QED
    BY <1>1, <1>2 DEF StreamInit, StreamInv, ReplyAfterOut, AckedAfterEmit,
                      CloseGuarded, ClosedOnce

\* The goroutines of dispatchRequest.
LEMMA HandlerKeepsInv ==
    ASSUME StreamInv, ChatInv', Push \/ \E t \in tasks : TaskStep(t)
    PROVE  StreamInv'
  <1> USE DEF StreamInv, StreamTypeOK, ChatInv
  <1>0. reading \subseteq Client
    BY DEF ChatTypeOK
  <1>1. ASSUME NEW e \in unacked, NEW i \in reading, Deliver(e, i)
        PROVE  StreamInv'
    <2>1. tasks' \subseteq Task
      <3> DEFINE p == IF e \in Silent THEN "reply" ELSE "load"
      <3>1. e \in Envelopes /\ i \in Client /\ p \in {"load", "reply"}
        BY <1>0
      <3> HIDE DEF p
      <3>2. [env |-> e, via |-> i, ok |-> FALSE, seen |-> {}, pc |-> p] \in Task
        BY <3>1 DEF Task
      <3>3. QED
        BY <1>1, <3>2 DEF Deliver, p
    <2>2. sent' \subseteq Envelopes \X Client
      BY <1>0, <1>1 DEF Deliver
    <2>3. StreamTypeOK'
      BY <1>1, <2>1, <2>2 DEF Deliver, botVars, runnerVars
    <2>4. ReplyAfterOut'
      <3> SUFFICES ASSUME NEW t \in tasks', t.pc = "reply"
                   PROVE  t.env \in Silent \/ Out(t.env)
        BY <1>1 DEF Deliver, ReplyAfterOut, Out, runnerVars
      <3>1. CASE t \in tasks
        BY <3>1 DEF ReplyAfterOut
      <3>2. CASE t \notin tasks
        <4>1. t.env = e /\ t.pc = IF e \in Silent THEN "reply" ELSE "load"
          BY <1>1, <3>2 DEF Deliver
        <4>2. QED
          BY <4>1
      <3>3. QED
        BY <3>1, <3>2
    <2>5. QED
      BY <1>1, <2>3, <2>4 DEF Deliver, AckedAfterEmit, Out, CloseGuarded,
                              ClosedOnce, botVars, runnerVars
  <1>2. ASSUME NEW t \in tasks, LoadSession(t)
        PROVE  StreamInv'
    <2> DEFINE u == [t EXCEPT !.pc = "store", !.seen = consumed]
    <2>1. u \in Task /\ u.pc = "store"
      BY TaskLoaded
    <2>2. tasks' = (tasks \ {t}) \cup {u}
      BY <1>2 DEF LoadSession, Becomes
    <2> HIDE DEF u
    <2>3. StreamTypeOK'
      BY <1>2, <2>1, <2>2 DEF LoadSession, botVars, runnerVars
    <2>4. ReplyAfterOut'
      BY <1>2, <2>1, <2>2 DEF LoadSession, ReplyAfterOut, Out, runnerVars
    <2>5. QED
      BY <1>2, <2>3, <2>4 DEF LoadSession, AckedAfterEmit, Out, CloseGuarded,
                              ClosedOnce, botVars, runnerVars
  <1>3. ASSUME NEW t \in tasks, StoreSession(t)
        PROVE  StreamInv'
    <2> DEFINE u == [t EXCEPT !.pc = "emit", !.seen = {}, !.ok = t.env \notin t.seen]
    <2>1. u \in Task /\ u.pc = "emit"
      BY TaskStored
    <2>2. tasks' = (tasks \ {t}) \cup {u}
      BY <1>3 DEF StoreSession, Becomes
    <2>3. consumed' \subseteq Envelopes
      BY <1>3 DEF StoreSession, Task
    <2> HIDE DEF u
    <2>4. StreamTypeOK'
      BY <1>3, <2>1, <2>2, <2>3 DEF StoreSession, botVars, runnerVars
    <2>5. ReplyAfterOut'
      BY <1>3, <2>1, <2>2 DEF StoreSession, ReplyAfterOut, Out, runnerVars
    <2>6. QED
      BY <1>3, <2>4, <2>5 DEF StoreSession, AckedAfterEmit, Out, CloseGuarded,
                              ClosedOnce, botVars, runnerVars
  <1>4. ASSUME NEW t \in tasks, Emit(t)
        PROVE  StreamInv'
    <2> DEFINE v == [env |-> t.env, ok |-> t.ok]
    <2>1. t.env \in Envelopes /\ v \in Event
      BY DEF Task, Event
    <2>2. \/ events' = Append(events, v) /\ dropped' = dropped /\ Len(events) < EventBuffer
          \/ events' = events /\ dropped' = dropped \cup {t.env}
      BY <1>4 DEF Emit
    <2>3. taken' = taken /\ UNCHANGED <<unacked, sent, consumed, eventsClosed,
                                        streamPanic, botVars, runnerVars, chatVars>>
      BY <1>4 DEF Emit, runnerVars
    <2> HIDE DEF v
    <2>4. Out(t.env)'
      BY <2>1, <2>2 DEF Out, v
    <2>5. \A e : Out(e) => Out(e)'
      BY <2>1, <2>2, <2>3, OutGrows
    <2>6. events' \in Seq(Event) /\ Len(events') <= EventBuffer /\ dropped' \subseteq Envelopes
      BY <2>1, <2>2, StreamAssumption
    <2> DEFINE u == [t EXCEPT !.pc = "reply"]
    <2>7. u \in Task /\ u.env = t.env
      BY TaskMoved
    <2>8. tasks' = (tasks \ {t}) \cup {u}
      BY <1>4 DEF Emit, Becomes
    <2> HIDE DEF u
    <2>9. StreamTypeOK'
      BY <2>3, <2>6, <2>7, <2>8 DEF botVars, runnerVars
    <2>10. ReplyAfterOut'
      BY <2>4, <2>5, <2>7, <2>8 DEF ReplyAfterOut
    <2>11. AckedAfterEmit'
      BY <2>3, <2>5 DEF AckedAfterEmit
    <2>12. QED
      BY <2>3, <2>9, <2>10, <2>11 DEF CloseGuarded, ClosedOnce, botVars
  <1>5. ASSUME NEW t \in tasks, EmitPanics(t)
        PROVE  StreamInv'
    BY <1>5 DEF EmitPanics, ReplyAfterOut, AckedAfterEmit, Out, CloseGuarded,
                ClosedOnce, handlerVars, botVars, runnerVars
  <1>6. ASSUME NEW t \in tasks, Reply(t)
        PROVE  StreamInv'
    BY <1>6 DEF Reply, ReplyAfterOut, AckedAfterEmit, Out, CloseGuarded,
                ClosedOnce, botVars, runnerVars
  <1>7. QED
    BY <1>1, <1>2, <1>3, <1>4, <1>5, <1>6 DEF Push, TaskStep

\* Bot.Close, Client.Close and the connection's own steps.
LEMMA BotCloseKeepsInv ==
    ASSUME StreamInv, ChatInv', ConnLoop \/ ConnEnvironment
              \/ \E k \in ChatClosers : BotClose(k) \/ BotCloseStep(k)
    PROVE  StreamInv'
  <1> USE DEF StreamInv, StreamTypeOK, ChatInv
  <1>1. ASSUME UNCHANGED streamVars PROVE StreamInv'
    BY <1>1 DEF streamVars, handlerVars, botVars, runnerVars, ReplyAfterOut,
                AckedAfterEmit, Out, CloseGuarded, ClosedOnce
  <1>2. ASSUME NEW k \in ChatClosers, BotClose(k) PROVE StreamInv'
    BY <1>2 DEF BotClose, handlerVars, runnerVars, ReplyAfterOut,
                AckedAfterEmit, Out, CloseGuarded, ClosedOnce
  <1>3. ASSUME NEW k \in ChatClosers, CloseEvents(k) PROVE StreamInv'
    BY <1>3 DEF CloseEvents, handlerVars, runnerVars, ReplyAfterOut,
                AckedAfterEmit, Out, CloseGuarded, ClosedOnce
  <1>4. QED
    BY <1>1, <1>2, <1>3 DEF ConnLoop, ConnEnvironment, BotCloseStep, ConnClose

\* Bot.Run.
LEMMA RunKeepsStreamInv ==
    ASSUME StreamInv, ChatInv', RunStart \/ RunTake \/ RunReturn \/ RunCancel
    PROVE  StreamInv'
  <1> USE DEF StreamInv, StreamTypeOK, ChatInv
  <1>1. CASE RunTake
    <2>1. events' \in Seq(Event) /\ Len(events') <= EventBuffer /\ Head(events) \in Event
      BY <1>1, StreamAssumption DEF RunTake
    <2>2. \A e : Out(e) => Out(e)'
      BY <1>1, OutMoves DEF RunTake, handlerVars
    <2>3. QED
      BY <1>1, <2>1, <2>2 DEF RunTake, handlerVars, botVars, ReplyAfterOut, AckedAfterEmit,
                              CloseGuarded, ClosedOnce
  <1>2. CASE RunStart
    BY <1>2 DEF RunStart, handlerVars, botVars, ReplyAfterOut, AckedAfterEmit, Out,
                CloseGuarded, ClosedOnce
  <1>3. CASE RunReturn
    BY <1>3 DEF RunReturn, handlerVars, botVars, ReplyAfterOut, AckedAfterEmit, Out,
                CloseGuarded, ClosedOnce
  <1>4. CASE RunCancel
    BY <1>4 DEF RunCancel, handlerVars, botVars, ReplyAfterOut, AckedAfterEmit, Out,
                CloseGuarded, ClosedOnce
  <1>5. QED
    BY <1>1, <1>2, <1>3, <1>4

\* The inductive invariant of the composition.
THEOREM StreamInvariant == StreamSpec => []StreamInv
  <1>1. StreamInv /\ [StreamNext]_allVars => StreamInv'
    <2> SUFFICES ASSUME StreamInv, [StreamNext]_allVars PROVE StreamInv'
      OBVIOUS
    <2>1. ChatInv'
      BY StreamStepChat, ChatStepInv DEF StreamInv
    <2>2. CASE StreamNext
      BY <2>1, <2>2, HandlerKeepsInv, BotCloseKeepsInv, RunKeepsStreamInv DEF StreamNext
    <2>3. CASE UNCHANGED allVars
      BY <2>1, <2>3 DEF allVars, streamVars, handlerVars, botVars, runnerVars, StreamInv,
                StreamTypeOK, ChatInv, ReplyAfterOut, AckedAfterEmit, Out, CloseGuarded, ClosedOnce
    <2>4. QED
      BY <2>2, <2>3
  <1>2. QED
    BY StreamInitInv, <1>1, PTL DEF StreamSpec

\* The types of the composed state, the bound of the event buffer included.
THEOREM StreamTypeCorrect == StreamSpec => []StreamTypeOK
  <1>1. StreamInv => StreamTypeOK
    BY DEF StreamInv
  <1>2. QED
    BY <1>1, StreamInvariant, PTL

\* No envelope is acknowledged before its event went through emit: it is in the
\* channel, was received, or was dropped because the channel was full.
THEOREM StreamAckedAfterEmit == StreamSpec => []AckedAfterEmit
  <1>1. StreamInv => AckedAfterEmit
    BY DEF StreamInv
  <1>2. QED
    BY <1>1, StreamInvariant, PTL

\* However many callers close the bot, the client is closed once.
THEOREM StreamClosedOnce == StreamSpec => []ClosedOnce
  <1>1. StreamInv => ClosedOnce
    BY DEF StreamInv
  <1>2. QED
    BY <1>1, StreamInvariant, PTL
=============================================================================
