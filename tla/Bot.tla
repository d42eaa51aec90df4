-------------------------------- MODULE Bot --------------------------------
(***************************************************************************)
(* pkg/bot: Run takes events from the client and dispatches each through   *)
(* the registered handlers, first match first, wrapped in the rate-limit   *)
(* middleware; a handler works on its conversation and replies through     *)
(* Message.Reply, which delays, shows a typing indicator and retries.      *)
(* The applications are those of examples/wizard-bot and poll-bot, started *)
(* as examples/internal/botexample does.                                   *)
(*                                                                         *)
(* A body is the class of texts the handlers tell apart; a conversation is *)
(* its stage and the fields that are set.                                  *)
(***************************************************************************)
EXTENDS Integers, Sequences, FiniteSets

CONSTANTS Runners,     \* goroutines in Bot.Run
          Users,       \* senders
          MaxEvents,   \* bound: events the client delivers
          MaxRefusals, \* bound: sends the service answers with 429
          MaxRetries   \* RateLimitRetryOptions.MaxRetries

ASSUME BotAssumption ==
    {MaxEvents, MaxRefusals, MaxRetries} \subseteq Nat /\ IsFiniteSet(Users)

VARIABLES
    app,            \* the application: wizard or poll
    delivered,      \* events delivered so far
    refusals,
    ctxDone,        \* the context of Run is cancelled
    stage, fields,  \* ConvoStore: stage and other fields of a conversation
    poll,           \* ConvoStore: the poll of the group
    pc,             \* program counter of each runner
    event,          \* the event it dispatches
    index,          \* position in the handler list
    attempt, tries, \* of the middleware, of Reply
    prevVote,       \* applyVote: the vote the sender had
    err,            \* the error a call returned
    puts, accepted, \* history: sends tried, replies accepted, for this event
    welcome         \* history: names a completed signup was confirmed with

storeVars == <<stage, fields, poll>>
replyVars == <<tries, puts, accepted>>
botVars == <<app, delivered, refusals, ctxDone, storeVars, pc, event, index,
             attempt, prevVote, err, replyVars, welcome>>

Threads == {"dm", "group"}
Bodies == {"empty", "text", "yes", "no", "signup", "help", "cancel", "unknown",
           "open", "status", "close"}
Slash == Bodies \ {"empty", "text", "yes", "no"}
Stages == {"none", "name", "timezone", "confirm"}
Votes == {"none", "yes", "no"}

Messages == [type : {"message"}, from : Users, thread : Threads, body : Bodies]
Reactions == [type : {"reaction"}, from : Users, thread : Threads, body : {"yes", "no"},
              remove : BOOLEAN]
NoEvent == [type |-> "none"]

\* ConvoKey
Key(e) == <<e.from, e.thread>>
Keys == Users \X Threads

NoPoll == [open |-> FALSE, yes |-> 0, no |-> 0, votes |-> [u \in Users |-> "none"]]
Tally(v) == Cardinality({u \in Users : poll.votes[u] = v})

-----------------------------------------------------------------------------
(* Matchers and the handlers of the two applications. *)

\* bodyMatch: OnAnyText, OnCommand, OnPrefix
Any == Bodies
Handler(do, bodies, threads, stages) ==
    [do |-> do, bodies |-> bodies, threads |-> threads, stages |-> stages]

\* Wizard.Register: one stage-gated OnAnyText per step.
Step(s) == Handler(s, Any, Threads, {s})

\* setup of wizard-bot, in registration order.
WizardHandlers ==
    <<Step("name"), Step("timezone"), Step("confirm"),
      Handler("begin", {"signup"}, {"dm"}, Stages),
      Handler("usage", {"help"}, Threads, Stages),
      Handler("cancel", {"cancel"}, Threads, Stages \ {"none"}),
      Handler("unknown", Slash, Threads, Stages)>>

\* setup of poll-bot.
PollHandlers ==
    <<Handler("open", {"open"}, {"group"}, Stages),
      Handler("status", {"status"}, {"group"}, Stages),
      Handler("close", {"close"}, {"group"}, Stages)>>

textHandlers == IF app = "wizard" THEN WizardHandlers ELSE PollHandlers

\* matcher.match: scopeOK, with the stage as it is now, and bodyMatch.
match(h, e) ==
    /\ e.thread \in h.threads
    /\ stage[Key(e)] \in h.stages
    /\ e.body \in h.bodies

\* reactionMatcher.match for OnReaction(emoji).Group().
reactionMatch(e) ==
    e.type = "reaction" /\ app = "poll" /\ e.thread = "group" /\ ~e.remove

-----------------------------------------------------------------------------
Goto(r, label) == pc' = [pc EXCEPT ![r] = label]
Set(f, r, v) == [f EXCEPT ![r] = v]

BotInit ==
    /\ app \in {"wizard", "poll"}
    /\ delivered = 0 /\ refusals = 0
    /\ ctxDone = FALSE
    /\ stage = [k \in Keys |-> "none"]
    /\ fields = [k \in Keys |-> {}]
    /\ poll = NoPoll
    /\ pc = [r \in Runners |-> "select"]
    /\ event = [r \in Runners |-> NoEvent]
    /\ index = [r \in Runners |-> 1]
    /\ attempt = [r \in Runners |-> 0]
    /\ tries = [r \in Runners |-> 0]
    /\ prevVote = [r \in Runners |-> "none"]
    /\ err = [r \in Runners |-> "nil"]
    /\ puts = [r \in Runners |-> 0]
    /\ accepted = [r \in Runners |-> 0]
    /\ welcome = {}

\* The types of the variables.
BotTypeOK ==
    /\ app \in {"wizard", "poll"}
    /\ delivered \in 0..MaxEvents /\ refusals \in 0..MaxRefusals
    /\ ctxDone \in BOOLEAN
    /\ stage \in [Keys -> Stages]
    /\ fields \in [Keys -> SUBSET {"name", "timezone"}]
    /\ poll \in [open : BOOLEAN, yes : 0..Cardinality(Users), no : 0..Cardinality(Users),
                 votes : [Users -> Votes]]
    /\ pc \in [Runners -> {"select", "match", "run", "advance", "clean", "uncount",
                           "count", "vote", "prepare", "send", "cleanup", "returned",
                           "handled", "ended"}]
    /\ prevVote \in [Runners -> Votes]
    /\ \A r \in Runners : event[r] \in Messages \cup Reactions \cup {NoEvent}
    /\ index \in [Runners -> 1..(Len(WizardHandlers) + 1)]
    /\ attempt \in [Runners -> 0..MaxRetries]
    /\ tries \in [Runners -> 0..2]
    /\ err \in [Runners -> {"nil", "pass", "429", "ctx", "other"}]

-----------------------------------------------------------------------------
(* Run and dispatch. *)

\* The message an application is sent, as far as it matters to it.
Inputs ==
    IF app = "wizard"
    THEN {m \in Messages : m.body \notin {"open", "status", "close"}}
    ELSE {m \in Messages : m.body \in {"open", "status", "close"}} \cup Reactions

\* An event is taken; a reaction no handler matches is done with at once.
dispatch(r, e) ==
    /\ pc[r] = "select"
    /\ delivered < MaxEvents
    /\ delivered' = delivered + 1
    /\ event' = Set(event, r, e)
    /\ index' = Set(index, r, 1)
    /\ attempt' = Set(attempt, r, 0)
    /\ puts' = Set(puts, r, 0) /\ accepted' = Set(accepted, r, 0)
    /\ err' = Set(err, r, "nil")
    /\ Goto(r, CASE e.type = "message" -> "match"
                 [] reactionMatch(e) -> "run"
                 [] OTHER -> "handled")
    /\ UNCHANGED <<app, refusals, ctxDone, storeVars, prevVote, tries, welcome>>

\* Mutant: Run ends only with its events.
ReturnOnClosedOnly(r) == pc[r] = "select" /\ delivered = MaxEvents

\* The select of Run: its context is done, or the channel is closed.
RunReturns(r) == pc[r] = "select" /\ (ctxDone \/ delivered = MaxEvents)

RunEnds(r) ==
    /\ RunReturns(r)
    /\ Goto(r, "ended")
    /\ UNCHANGED <<app, delivered, refusals, ctxDone, storeVars, event, index, attempt,
                   prevVote, err, replyVars, welcome>>

\* dispatchMessage: the next handler is looked at.
dispatchMessage(r) ==
    /\ pc[r] = "match"
    /\ IF index[r] > Len(textHandlers) THEN Goto(r, "handled") /\ UNCHANGED index
       ELSE IF match(textHandlers[index[r]], event[r]) THEN Goto(r, "run") /\ UNCHANGED index
       ELSE index' = Set(index, r, index[r] + 1) /\ UNCHANGED pc
    /\ UNCHANGED <<app, delivered, refusals, ctxDone, storeVars, event, attempt, prevVote,
                   err, replyVars, welcome>>

RetriesLeft(r) == attempt[r] < MaxRetries

\* RateLimitRetryMiddleware: on a 429 it waits and calls the handler again,
\* unless the context ends the wait.
RateLimitRetryMiddleware(r) ==
    /\ pc[r] = "returned"
    /\ err[r] = "429" /\ RetriesLeft(r)
    /\ \/ /\ attempt' = Set(attempt, r, attempt[r] + 1)
          /\ Goto(r, "run")
          /\ UNCHANGED err
       \/ /\ ctxDone
          /\ err' = Set(err, r, "ctx")
          /\ Goto(r, "handled")
          /\ UNCHANGED attempt
    /\ UNCHANGED <<app, delivered, refusals, ctxDone, storeVars, event, index, prevVote,
                   replyVars, welcome>>

\* The handler's result: ErrPass goes on to the next, another error to handleErr.
HandlerReturns(r) ==
    /\ pc[r] = "returned"
    /\ ~(err[r] = "429" /\ RetriesLeft(r))
    /\ IF err[r] = "pass"
       THEN index' = Set(index, r, index[r] + 1) /\ Goto(r, "match")
       ELSE Goto(r, "handled") /\ UNCHANGED index
    /\ UNCHANGED <<app, delivered, refusals, ctxDone, storeVars, event, attempt, prevVote,
                   err, replyVars, welcome>>

NextEvent(r) ==
    /\ pc[r] = "handled"
    /\ Goto(r, "select")
    /\ event' = Set(event, r, NoEvent)
    /\ UNCHANGED <<app, delivered, refusals, ctxDone, storeVars, index, attempt, prevVote, err,
                   replyVars, welcome>>

-----------------------------------------------------------------------------
(* The handlers of wizard-bot. *)

Running(r, do) ==
    /\ pc[r] = "run"
    /\ event[r].type = "message"
    /\ textHandlers[index[r]].do = do

Replies(r) == Goto(r, "prepare") /\ tries' = Set(tries, r, 0) /\ UNCHANGED err
Passes(r) == Goto(r, "returned") /\ err' = Set(err, r, "pass") /\ UNCHANGED tries

\* A step ignores an empty message and answers a command with the usage.
StepAside(r, s) ==
    /\ Running(r, s)
    /\ \/ event[r].body = "empty" /\ Passes(r)
       \/ event[r].body \in Slash /\ Replies(r)
    /\ UNCHANGED <<app, delivered, refusals, ctxDone, storeVars, event, index, attempt,
                   prevVote, puts, accepted, welcome>>

Answered(r) == event[r].body \notin Slash \cup {"empty"}

\* Mutant: the answer is not stored.
AnswerForgotten(r) == UNCHANGED <<fields, stage>>

\* Convo.Set of the answer,
SetField(r) ==
    /\ fields' = [fields EXCEPT ![Key(event[r])] = @ \cup {textHandlers[index[r]].do}]
    /\ UNCHANGED stage

AskStep(r) ==
    /\ Running(r, "name") \/ Running(r, "timezone")
    /\ Answered(r)
    /\ SetField(r)
    /\ Goto(r, "advance")
    /\ UNCHANGED <<app, delivered, refusals, ctxDone, poll, event, index, attempt, prevVote,
                   err, replyVars, welcome>>

\* ... then Wizard.Advance, and the next question.
Advance(r) ==
    /\ pc[r] = "advance"
    /\ stage' = [stage EXCEPT ![Key(event[r])] =
                    IF textHandlers[index[r]].do = "name" THEN "timezone" ELSE "confirm"]
    /\ Replies(r)
    /\ UNCHANGED <<app, delivered, refusals, ctxDone, fields, poll, event, index, attempt,
                   prevVote, puts, accepted, welcome>>

\* Wizard.Clear, for a stage of this wizard; on a yes after the fields were read.
Clear(r) ==
    /\ \/ Running(r, "confirm") /\ event[r].body \in {"yes", "no"}
       \/ Running(r, "cancel")
    /\ stage' = [stage EXCEPT ![Key(event[r])] = "none"]
    /\ welcome' = IF event[r].body = "yes" THEN welcome \cup {fields[Key(event[r])]}
                  ELSE welcome
    /\ Goto(r, "clean")
    /\ UNCHANGED <<app, delivered, refusals, ctxDone, fields, poll, event, index, attempt,
                   prevVote, err, replyVars>>

\* ... then the fields are deleted.
Clean(r) ==
    /\ pc[r] = "clean"
    /\ fields' = [fields EXCEPT ![Key(event[r])] = {}]
    /\ Replies(r)
    /\ UNCHANGED <<app, delivered, refusals, ctxDone, stage, poll, event, index, attempt,
                   prevVote, puts, accepted, welcome>>

\* Wizard.Begin
Begin(r) ==
    /\ Running(r, "begin")
    /\ stage' = [stage EXCEPT ![Key(event[r])] = "name"]
    /\ Replies(r)
    /\ UNCHANGED <<app, delivered, refusals, ctxDone, fields, poll, event, index, attempt,
                   prevVote, puts, accepted, welcome>>

\* The handlers that touch no conversation; the prefix handler leaves the known
\* commands to the others.
Talk(r) ==
    /\ \/ Running(r, "confirm") /\ event[r].body = "text" /\ Replies(r)
       \/ (Running(r, "usage") \/ Running(r, "status")) /\ Replies(r)
       \/ Running(r, "unknown") /\ event[r].body \in {"signup", "cancel", "help"} /\ Passes(r)
       \/ Running(r, "unknown") /\ event[r].body \notin {"signup", "cancel", "help"} /\ Replies(r)
    /\ UNCHANGED <<app, delivered, refusals, ctxDone, storeVars, event, index, attempt,
                   prevVote, puts, accepted, welcome>>

TextStep(r) ==
    \/ \E s \in {"name", "timezone", "confirm"} : StepAside(r, s)
    \/ AskStep(r) \/ Advance(r) \/ Clear(r) \/ Clean(r) \/ Begin(r) \/ Talk(r)

-----------------------------------------------------------------------------
(* The handlers of poll-bot. *)

PollCommand(r) ==
    /\ \/ Running(r, "open") /\ poll' = [NoPoll EXCEPT !.open = TRUE]
       \/ Running(r, "close") /\ poll' = [poll EXCEPT !.open = FALSE]
    /\ Replies(r)
    /\ UNCHANGED <<app, delivered, refusals, ctxDone, stage, fields, event, index, attempt,
                   prevVote, puts, accepted, welcome>>

\* applyVote: a vote that changes nothing is ignored,
applyVote(r) ==
    /\ pc[r] = "run" /\ event[r].type = "reaction"
    /\ LET prev == poll.votes[event[r].from] IN
         /\ prevVote' = Set(prevVote, r, prev)
         /\ Goto(r, IF ~poll.open \/ prev = event[r].body THEN "handled"
                    ELSE IF prev = "none" THEN "count" ELSE "uncount")
    /\ UNCHANGED <<app, delivered, refusals, ctxDone, storeVars, event, index, attempt, err,
                   replyVars, welcome>>

\* Mutant: the vote it replaces stays counted.
RecountNothing(n) == n

\* The tally decrement sets.
Uncount(n) == IF n > 0 THEN n - 1 ELSE n

\* ... the vote it replaces is taken back,
decrement(r) ==
    /\ pc[r] = "uncount"
    /\ poll' = [poll EXCEPT ![prevVote[r]] = Uncount(@)]
    /\ Goto(r, "count")
    /\ UNCHANGED <<app, delivered, refusals, ctxDone, stage, fields, event, index, attempt,
                   prevVote, err, replyVars, welcome>>

\* ... the new one counted,
increment(r) ==
    /\ pc[r] = "count"
    /\ poll' = [poll EXCEPT ![event[r].body] = @ + 1]
    /\ Goto(r, "vote")
    /\ UNCHANGED <<app, delivered, refusals, ctxDone, stage, fields, event, index, attempt,
                   prevVote, err, replyVars, welcome>>

\* ... and noted.
NoteVote(r) ==
    /\ pc[r] = "vote"
    /\ poll' = [poll EXCEPT !.votes[event[r].from] = event[r].body]
    /\ prevVote' = Set(prevVote, r, "none")
    /\ Goto(r, "handled")
    /\ UNCHANGED <<app, delivered, refusals, ctxDone, stage, fields, event, index, attempt,
                   err, replyVars, welcome>>

PollStep(r) ==
    PollCommand(r) \/ applyVote(r) \/ decrement(r) \/ increment(r) \/ NoteVote(r)

-----------------------------------------------------------------------------
(* Message.Reply *)

\* The context ended the delay: cleanup, then the error.
AbortDelay(r) == Goto(r, "cleanup")

\* prepareHelperReply: the delay runs out or is aborted.  The typing indicator
\* is best effort in both directions: its errors are ignored, a failed
\* TypingStopped too, and nothing depends on it.
prepareHelperReply(r) ==
    /\ pc[r] = "prepare"
    /\ \/ Goto(r, "send") /\ UNCHANGED err
       \/ ctxDone /\ AbortDelay(r) /\ err' = Set(err, r, "ctx")
    /\ UNCHANGED <<app, delivered, refusals, ctxDone, storeVars, event, index, attempt,
                   prevVote, tries, puts, accepted, welcome>>

\* Mutant: Reply sends again after any error.
AnyError(e) == e # "nil"

isRateLimitedError(e) == e = "429"

\* Client.Send or SendGroup (external): accepted, refused with 429, failed, or
\* accepted with the answer lost.  A done context fails it.
SendOutcome(r, e, got) ==
    /\ ctxDone => e = "ctx" /\ got = 0
    /\ e = "ctx" => ctxDone
    /\ e = "nil" => got = 1
    /\ e = "429" => got = 0 /\ refusals < MaxRefusals
    /\ e # "pass"
    /\ refusals' = IF e = "429" THEN refusals + 1 ELSE refusals
    /\ puts' = Set(puts, r, puts[r] + 1)
    /\ accepted' = Set(accepted, r, accepted[r] + got)

\* Reply waits after a first 429 and tries once more; the context may end the
\* wait.
Reply(r) ==
    /\ pc[r] = "send"
    /\ \E e \in {"nil", "429", "ctx", "other"}, got \in {0, 1} :
         /\ SendOutcome(r, e, got)
         /\ tries' = Set(tries, r, tries[r] + 1)
         /\ \/ /\ isRateLimitedError(e) /\ tries[r] = 0
               /\ UNCHANGED <<pc, err>>
            \/ /\ ~(isRateLimitedError(e) /\ tries[r] = 0)
               /\ err' = Set(err, r, e)
               /\ Goto(r, "cleanup")
    /\ UNCHANGED <<app, delivered, ctxDone, storeVars, event, index, attempt, prevVote, welcome>>

WaitAborted(r) ==
    /\ pc[r] = "send" /\ tries[r] = 1
    /\ ctxDone
    /\ err' = Set(err, r, "ctx")
    /\ Goto(r, "cleanup")
    /\ UNCHANGED <<app, delivered, refusals, ctxDone, storeVars, event, index, attempt, prevVote,
                   replyVars, welcome>>

\* The deferred cleanup: a last request on a context of its own, whose outcome
\* is ignored.
Cleanup(r) ==
    /\ pc[r] = "cleanup"
    /\ Goto(r, "returned")
    /\ UNCHANGED <<app, delivered, refusals, ctxDone, storeVars, event, index, attempt, prevVote,
                   err, tries, puts, accepted, welcome>>

ReplyStep(r) == prepareHelperReply(r) \/ Reply(r) \/ WaitAborted(r) \/ Cleanup(r)

-----------------------------------------------------------------------------
Cancel ==
    /\ ~ctxDone
    /\ ctxDone' = TRUE
    /\ UNCHANGED <<app, delivered, refusals, storeVars, pc, event, index, attempt, prevVote, err,
                   replyVars, welcome>>

RunnerStep(r) ==
    \/ RunEnds(r) \/ dispatchMessage(r) \/ RateLimitRetryMiddleware(r)
    \/ HandlerReturns(r) \/ NextEvent(r)
    \/ TextStep(r) \/ PollStep(r) \/ ReplyStep(r)

BotNext ==
    \/ \E r \in Runners, e \in Inputs : dispatch(r, e)
    \/ \E r \in Runners : RunnerStep(r)
    \/ Cancel

BotSpec == BotInit /\ [][BotNext]_botVars

\* The goroutines of Run are scheduled, requests end and timers fire.
BotFairSpec == BotSpec /\ \A r \in Runners : WF_botVars(RunnerStep(r))

-----------------------------------------------------------------------------
(* Properties *)

\* A message is answered at most once, through the retries of Reply and of
\* the middleware around it, whose only trigger is a refusal: also when the
\* answer to an accepted send was lost.
RepliedOnce == \A r \in Runners : accepted[r] <= 1

\* The two retries multiply, and no further: the handler runs at most
\* MaxRetries + 1 times with two sends each.
SendsBounded == \A r \in Runners : puts[r] <= 2 * (MaxRetries + 1)

\* A conversation in a later stage of the wizard has the answers of the earlier
\* ones: whatever the order of messages and commands, and wherever a handler
\* is repeated or cancelled.
WizardConsistent ==
    \A k \in Keys :
        /\ stage[k] \in {"timezone", "confirm"} => "name" \in fields[k]
        /\ stage[k] = "confirm" => "timezone" \in fields[k]

\* The tallies of the poll are the numbers of votes noted, whenever no vote is
\* being applied.
TalliesMatchVotes ==
    (\A r \in Runners : pc[r] \notin {"count", "vote"})
        => poll.yes = Tally("yes") /\ poll.no = Tally("no")

\* Run returns once its context is cancelled, whatever a handler is waiting
\* for.
CancelEndsRun == \A r \in Runners : ctxDone ~> pc[r] = "ended"

\* "/cancel  cancel active wizard"
CancelEndsWizard ==
    \A r \in Runners :
        pc[r] = "handled" /\ event[r].type = "message" /\ event[r].body = "cancel"
            => stage[Key(event[r])] = "none"

\* A completed signup is confirmed with both answers.
WelcomeComplete == \A w \in welcome : w = {"name", "timezone"}
============================================================================
