----------------------------- MODULE BotProofs -----------------------------
(***************************************************************************)
(* Proofs about Bot for any number of users, events, refusals and retries. *)
(* The bounds on the sends and the replies hold however many goroutines    *)
(* run; the consistency of the wizard and the tallies of the poll need     *)
(* that only one does.                                                     *)
(***************************************************************************)
EXTENDS Bot, FiniteSetTheorems, TLAPS

Working == {"match", "run", "advance", "clean", "uncount", "count", "vote", "prepare"}
After == {"cleanup", "returned", "handled", "select", "ended"}

\* The variables the invariant speaks of are functions on the runners.
Domains ==
    /\ DOMAIN pc = Runners /\ DOMAIN attempt = Runners /\ DOMAIN tries = Runners
    /\ DOMAIN err = Runners
    /\ DOMAIN puts = Runners /\ DOMAIN accepted = Runners

\* What runner r has sent for its event when it is at a label: two sends per
\* finished attempt, and nothing accepted before the one it is in.
Turn(r) ==
    /\ pc[r] \in Working \cup After \cup {"send"}
    /\ attempt[r] \in 0..MaxRetries
    /\ puts[r] \in Nat /\ accepted[r] \in Nat
    /\ pc[r] \in Working => accepted[r] = 0 /\ puts[r] <= 2 * attempt[r]
    /\ pc[r] = "prepare" => tries[r] = 0
    /\ pc[r] = "send" => /\ tries[r] \in {0, 1}
                         /\ accepted[r] = 0
                         /\ puts[r] <= 2 * attempt[r] + tries[r]
    /\ pc[r] \in After => accepted[r] <= 1 /\ puts[r] <= 2 * attempt[r] + 2
    /\ pc[r] \in {"cleanup", "returned"} /\ err[r] = "429" => accepted[r] = 0
    /\ pc[r] = "cleanup" => err[r] # "pass"
    /\ pc[r] = "returned" /\ err[r] = "pass"
         => accepted[r] = 0 /\ puts[r] <= 2 * attempt[r]

TurnInv == Domains /\ \A r \in Runners : Turn(r)

USE BotAssumption DEF Working, After

LEMMA InitTurn == BotInit => TurnInv
  BY DEF BotInit, TurnInv, Domains, Turn

\* The others do not move while r does.
Still(r) ==
    \A q \in Runners \ {r} :
        /\ pc'[q] = pc[q] /\ attempt'[q] = attempt[q] /\ tries'[q] = tries[q]
        /\ err'[q] = err[q]
        /\ puts'[q] = puts[q] /\ accepted'[q] = accepted[q]

LEMMA StillKeeps ==
    ASSUME TurnInv, NEW r \in Runners, Domains', Still(r), Turn(r)'
    PROVE  TurnInv'
  BY DEF TurnInv, Still, Turn

LEMMA DispatchTurn ==
    ASSUME TurnInv, NEW r \in Runners, NEW e, dispatch(r, e)
    PROVE  TurnInv'
<1>1. Domains' /\ Still(r)
  BY DEF dispatch, Set, Goto, TurnInv, Domains, Still
<1>2. Turn(r)'
  BY DEF dispatch, Set, Goto, TurnInv, Domains, Turn
<1> QED
  BY <1>1, <1>2, StillKeeps

LEMMA RunTurn ==
    ASSUME TurnInv, NEW r \in Runners,
           RunEnds(r) \/ dispatchMessage(r) \/ HandlerReturns(r) \/ NextEvent(r)
             \/ RateLimitRetryMiddleware(r)
    PROVE  TurnInv'
<1>1. CASE RunEnds(r)
  <2>1. Domains' /\ Still(r)
    BY <1>1 DEF RunEnds, Goto, replyVars, TurnInv, Domains, Still
  <2>2. Turn(r)'
    BY <1>1 DEF RunEnds, RunReturns, Goto, replyVars, TurnInv, Domains, Turn
  <2> QED
    BY <2>1, <2>2, StillKeeps
<1>2. CASE dispatchMessage(r)
  <2>1. Domains' /\ Still(r)
    BY <1>2 DEF dispatchMessage, Goto, replyVars, TurnInv, Domains, Still
  <2>2. /\ UNCHANGED <<attempt, tries, err, puts, accepted>> /\ pc[r] = "match"
        /\ pc'[r] \in {"match", "run", "handled"}
    <3>1. pc' = pc \/ \E l \in {"run", "handled"} : pc' = [pc EXCEPT ![r] = l]
      BY <1>2 DEF dispatchMessage, Goto
    <3> QED
      BY <1>2, <3>1 DEF dispatchMessage, replyVars, TurnInv, Domains
  <2>3. Turn(r)'
    BY <2>2 DEF TurnInv, Turn
  <2> QED
    BY <2>1, <2>3, StillKeeps
<1>3. CASE HandlerReturns(r)
  <2>1. Domains' /\ Still(r)
    BY <1>3 DEF HandlerReturns, Goto, replyVars, TurnInv, Domains, Still
  <2>2. UNCHANGED <<attempt, tries, err, puts, accepted>> /\ pc[r] = "returned"
    BY <1>3 DEF HandlerReturns, replyVars
  <2>3. CASE err[r] = "pass"
    <3>1. pc'[r] = "match"
      BY <1>3, <2>3 DEF HandlerReturns, Goto, TurnInv, Domains
    <3>2. Turn(r)'
      BY <2>2, <2>3, <3>1 DEF TurnInv, Turn
    <3> QED
      BY <2>1, <3>2, StillKeeps
  <2>4. CASE err[r] # "pass"
    <3>1. pc'[r] = "handled"
      BY <1>3, <2>4 DEF HandlerReturns, Goto, TurnInv, Domains
    <3>2. Turn(r)'
      BY <2>2, <3>1 DEF TurnInv, Turn
    <3> QED
      BY <2>1, <3>2, StillKeeps
  <2> QED
    BY <2>3, <2>4
<1>4. CASE NextEvent(r)
  <2>1. Domains' /\ Still(r)
    BY <1>4 DEF NextEvent, Goto, replyVars, TurnInv, Domains, Still
  <2>2. Turn(r)'
    BY <1>4 DEF NextEvent, Goto, replyVars, TurnInv, Domains, Turn
  <2> QED
    BY <2>1, <2>2, StillKeeps
<1>5. CASE RateLimitRetryMiddleware(r)
  <2>1. Domains' /\ Still(r)
    BY <1>5 DEF RateLimitRetryMiddleware, Set, Goto, replyVars, TurnInv, Domains, Still
  <2>2. Turn(r)'
    BY <1>5 DEF RateLimitRetryMiddleware, RetriesLeft, Set, Goto, replyVars, TurnInv,
       Domains, Turn
  <2> QED
    BY <2>1, <2>2, StillKeeps
<1> QED
  BY <1>1, <1>2, <1>3, <1>4, <1>5

\* A handler works, replies or passes: nothing is sent yet.
LEMMA HandlerTurn ==
    ASSUME TurnInv, NEW r \in Runners, TextStep(r) \/ PollStep(r)
    PROVE  TurnInv'
<1>1. /\ pc[r] \in {"run", "advance", "clean", "uncount", "count", "vote"}
      /\ UNCHANGED <<attempt, puts, accepted>>
      /\ \/ /\ \E l \in {"advance", "clean", "uncount", "count", "vote", "handled"} : Goto(r, l)
            /\ UNCHANGED <<tries, err>>
         \/ Replies(r)
         \/ Passes(r)
  <2>1. ASSUME NEW s, StepAside(r, s) PROVE <1>1!:
    BY <2>1 DEF StepAside, Running
  <2>2. CASE AskStep(r) \/ Clear(r)
    BY <2>2 DEF AskStep, Clear, Running, replyVars
  <2>3. CASE Advance(r) \/ Clean(r) \/ Begin(r) \/ Talk(r) \/ PollCommand(r)
    BY <2>3 DEF Advance, Clean, Begin, Talk, PollCommand, Running
  <2>4. CASE applyVote(r) \/ decrement(r) \/ increment(r) \/ NoteVote(r)
    BY <2>4 DEF applyVote, decrement, increment, NoteVote, replyVars
  <2> QED
    BY <2>1, <2>2, <2>3, <2>4 DEF TextStep, PollStep
<1>2. Domains' /\ Still(r)
  BY <1>1 DEF Replies, Passes, Set, Goto, TurnInv, Domains, Still
<1>3. Turn(r)'
  BY <1>1 DEF Replies, Passes, Set, Goto, TurnInv, Domains, Turn
<1> QED
  BY <1>2, <1>3, StillKeeps

LEMMA ReplyTurn ==
    ASSUME TurnInv, NEW r \in Runners, ReplyStep(r)
    PROVE  TurnInv'
<1>1. CASE prepareHelperReply(r)
  <2>1. Domains' /\ Still(r)
    BY <1>1 DEF prepareHelperReply, AbortDelay, Set, Goto, TurnInv, Domains, Still
  <2>2. Turn(r)'
    BY <1>1 DEF prepareHelperReply, AbortDelay, Set, Goto, TurnInv, Domains, Turn
  <2> QED
    BY <2>1, <2>2, StillKeeps
<1>2. CASE Reply(r)
  <2>1. PICK e \in {"nil", "429", "ctx", "other"}, got \in {0, 1} :
          /\ SendOutcome(r, e, got)
          /\ tries' = Set(tries, r, tries[r] + 1)
          /\ \/ /\ isRateLimitedError(e) /\ tries[r] = 0
                /\ UNCHANGED <<pc, err>>
             \/ /\ ~(isRateLimitedError(e) /\ tries[r] = 0)
                /\ err' = Set(err, r, e)
                /\ Goto(r, "cleanup")
    BY <1>2 DEF Reply
  <2>2. pc[r] = "send" /\ UNCHANGED attempt
    BY <1>2 DEF Reply
  <2>3. Domains' /\ Still(r)
    BY <2>1, <2>2 DEF SendOutcome, Set, Goto, TurnInv, Domains, Still
  <2>4. puts'[r] = puts[r] + 1 /\ accepted'[r] = got /\ tries'[r] = tries[r] + 1
    BY <2>1, <2>2 DEF SendOutcome, Set, TurnInv, Domains, Turn
  <2>5. e = "429" => got = 0
    BY <2>1 DEF SendOutcome
  <2>6. CASE e = "429" /\ tries[r] = 0
    <3>1. UNCHANGED <<pc, err>>
      BY <2>1, <2>6 DEF isRateLimitedError
    <3>2. Turn(r)'
      BY <3>1, <2>2, <2>4, <2>5, <2>6 DEF TurnInv, Turn
    <3> QED
      BY <3>2, <2>3, StillKeeps
  <2>7. CASE ~(e = "429" /\ tries[r] = 0)
    <3>1. pc'[r] = "cleanup" /\ err'[r] = e
      BY <2>1, <2>7 DEF isRateLimitedError, Set, Goto, TurnInv, Domains
    <3>2. Turn(r)'
      BY <3>1, <2>2, <2>4, <2>5 DEF TurnInv, Turn
    <3> QED
      BY <3>2, <2>3, StillKeeps
  <2> QED
    BY <2>6, <2>7
<1>3. CASE WaitAborted(r)
  <2>1. Domains' /\ Still(r)
    BY <1>3 DEF WaitAborted, Set, Goto, replyVars, TurnInv, Domains, Still
  <2>2. Turn(r)'
    BY <1>3 DEF WaitAborted, Set, Goto, replyVars, TurnInv, Domains, Turn
  <2> QED
    BY <2>1, <2>2, StillKeeps
<1>4. CASE Cleanup(r)
  <2>1. Domains' /\ Still(r)
    BY <1>4 DEF Cleanup, Set, Goto, TurnInv, Domains, Still
  <2>2. Turn(r)'
    BY <1>4 DEF Cleanup, Set, Goto, TurnInv, Domains, Turn
  <2> QED
    BY <2>1, <2>2, StillKeeps
<1> QED
  BY <1>1, <1>2, <1>3, <1>4 DEF ReplyStep

LEMMA NextTurn == TurnInv /\ [BotNext]_botVars => TurnInv'
<1> SUFFICES ASSUME TurnInv, [BotNext]_botVars PROVE TurnInv'
  OBVIOUS
<1>1. CASE Cancel \/ UNCHANGED botVars
  BY <1>1 DEF Cancel, botVars, replyVars, TurnInv, Domains, Turn
<1>2. CASE \E r \in Runners, e \in Inputs : dispatch(r, e)
  BY <1>2, DispatchTurn
<1>3. CASE \E r \in Runners : RunnerStep(r)
  BY <1>3, RunTurn, HandlerTurn, ReplyTurn DEF RunnerStep
<1> QED
  BY <1>1, <1>2, <1>3 DEF BotNext

\* No message is answered twice, for any number of retries and runners.
THEOREM NeverRepliedTwice == BotSpec => []RepliedOnce
<1>1. TurnInv => RepliedOnce
  BY DEF TurnInv, Turn, RepliedOnce
<1> QED
  BY <1>1, InitTurn, NextTurn, PTL DEF BotSpec

\* The retries of Reply and of the middleware multiply and no more.
THEOREM SendsAlwaysBounded == BotSpec => []SendsBounded
<1>1. TurnInv => SendsBounded
  BY DEF TurnInv, Turn, SendsBounded
<1> QED
  BY <1>1, InitTurn, NextTurn, PTL DEF BotSpec

-----------------------------------------------------------------------------
(* The wizard, with one goroutine in Run. *)

OneRunner == \A q, r \in Runners : q = r

\* The handler runner r is in.
Doing(r) == textHandlers[index[r]].do
InHandler == {"run", "advance", "prepare", "send", "cleanup", "returned"}

\* A repeated timezone step still finds the name; a step about to advance has
\* set its field; a stage is cleared before its fields are deleted.
WizardAt(r) ==
    /\ index[r] \in Nat \ {0}
    /\ pc[r] \notin {"select", "ended"} => event[r] \in Messages \cup Reactions
    /\ pc[r] \in {"advance", "clean"} => event[r] \in Messages
    /\ pc[r] \in InHandler /\ event[r] \in Messages /\ Doing(r) = "timezone"
         => "name" \in fields[Key(event[r])]
    /\ pc[r] = "advance" => /\ Doing(r) \in {"name", "timezone"}
                            /\ Doing(r) \in fields[Key(event[r])]
    /\ pc[r] = "clean" => Doing(r) # "timezone" /\ stage[Key(event[r])] = "none"

WizardInv ==
    /\ DOMAIN pc = Runners /\ DOMAIN index = Runners /\ DOMAIN event = Runners
    /\ DOMAIN stage = Keys /\ DOMAIN fields = Keys
    /\ WizardConsistent
    /\ \A r \in Runners : WizardAt(r)

LEMMA HandlerStages ==
    ASSUME NEW i \in Nat \ {0}, i <= Len(textHandlers), textHandlers[i].do = "timezone"
    PROVE  textHandlers[i].stages = {"timezone"}
<1>1. CASE app = "wizard"
  <2>1. i \in 1..7
    BY <1>1 DEF textHandlers, WizardHandlers
  <2> QED
    BY <1>1, <2>1 DEF textHandlers, WizardHandlers, Step, Handler
<1>2. CASE app # "wizard"
  <2>1. i \in 1..3
    BY <1>2 DEF textHandlers, PollHandlers
  <2> QED
    BY <1>2, <2>1 DEF textHandlers, PollHandlers, Handler
<1> QED
  BY <1>1, <1>2

LEMMA KeyOf == ASSUME NEW e \in Messages \cup Reactions PROVE Key(e) \in Keys
  BY DEF Messages, Reactions, Key, Keys

LEMMA Disjoint == Messages \cap Reactions = {}
  BY DEF Messages, Reactions

LEMMA InitWizard == BotInit => WizardInv
  BY DEF BotInit, WizardInv, WizardConsistent, WizardAt, InHandler, NoEvent

\* Steps that leave the conversations alone and go on with the same handler.
LEMMA SameHandler ==
    ASSUME WizardInv, OneRunner, NEW r \in Runners,
           UNCHANGED <<app, stage, fields, event, index>>,
           pc[r] \in InHandler \cup {"clean"}, NEW l, Goto(r, l),
           l \in {"run", "prepare", "send", "cleanup", "returned", "handled"},
           pc[r] = "clean" => l = "handled"
    PROVE  WizardInv'
<1>1. textHandlers' = textHandlers
  BY DEF textHandlers
<1>2. pc'[r] = l /\ DOMAIN pc' = Runners
  BY DEF Goto, WizardInv
<1>3. WizardAt(r)'
  BY <1>1, <1>2 DEF WizardInv, WizardAt, InHandler, Doing, Key
<1> QED
  BY <1>2, <1>3 DEF WizardInv, WizardConsistent, OneRunner

\* Steps that leave the conversations alone and are not in a text handler.
LEMMA OutOfHandler ==
    ASSUME WizardInv, OneRunner, NEW r \in Runners, UNCHANGED <<stage, fields>>,
           DOMAIN pc' = Runners, DOMAIN index' = Runners, DOMAIN event' = Runners,
           index'[r] \in Nat \ {0},
           pc'[r] \notin {"select", "ended"} => event'[r] \in Messages \cup Reactions,
           pc'[r] \notin {"advance", "clean"},
           pc'[r] \in InHandler => event'[r] \in Reactions
    PROVE  WizardInv'
<1>1. WizardAt(r)'
  BY Disjoint DEF WizardAt
<1> QED
  BY <1>1 DEF WizardInv, WizardConsistent, OneRunner
\* Nothing the invariant speaks of changes.
LEMMA NothingChanges ==
    ASSUME WizardInv, UNCHANGED <<app, stage, fields, event, index, pc>>
    PROVE  WizardInv'
  BY DEF WizardInv, WizardConsistent, WizardAt, InHandler, Doing, textHandlers, Key

LEMMA DispatchWizard ==
    ASSUME WizardInv, OneRunner, NEW r \in Runners, NEW e \in Inputs, dispatch(r, e)
    PROVE  WizardInv'
<1>1. e \in Messages \cup Reactions /\ (e.type # "message" => e \in Reactions)
  BY DEF Inputs, Messages
<1>2. event'[r] = e /\ index'[r] = 1 /\ UNCHANGED <<stage, fields>>
      /\ DOMAIN pc' = Runners /\ DOMAIN index' = Runners /\ DOMAIN event' = Runners
  BY DEF dispatch, Set, Goto, storeVars, WizardInv
<1>3. pc'[r] \in {"match", "run", "handled"} /\ (pc'[r] = "run" => e.type # "message")
  <2>1. pc'[r] = CASE e.type = "message" -> "match"
                   [] reactionMatch(e) -> "run"
                   [] OTHER -> "handled"
    BY DEF dispatch, Goto, WizardInv
  <2>2. CASE e.type = "message"
    BY <2>1, <2>2 DEF reactionMatch
  <2>3. CASE e.type # "message" /\ reactionMatch(e)
    BY <2>1, <2>3
  <2>4. CASE e.type # "message" /\ ~reactionMatch(e)
    BY <2>1, <2>4
  <2> QED
    BY <2>2, <2>3, <2>4
<1> QED
  BY <1>1, <1>2, <1>3, OutOfHandler DEF InHandler

LEMMA RunWizard ==
    ASSUME WizardInv, OneRunner, NEW r \in Runners,
           RunEnds(r) \/ NextEvent(r) \/ HandlerReturns(r) \/ RateLimitRetryMiddleware(r)
    PROVE  WizardInv'
<1>1. CASE RunEnds(r) \/ NextEvent(r)
  <2>1. UNCHANGED <<stage, fields, index>> /\ pc'[r] \in {"select", "ended"}
        /\ DOMAIN pc' = Runners /\ DOMAIN event' = Runners
    BY <1>1 DEF RunEnds, NextEvent, Set, Goto, storeVars, WizardInv
  <2> QED
    BY <2>1, OutOfHandler DEF InHandler, WizardInv, WizardAt
<1>2. CASE HandlerReturns(r)
  <2>1. UNCHANGED <<stage, fields, event>> /\ pc'[r] \in {"match", "handled"}
        /\ pc[r] = "returned" /\ DOMAIN pc' = Runners /\ DOMAIN index' = Runners
    BY <1>2 DEF HandlerReturns, Set, Goto, storeVars, WizardInv
  <2>2. index'[r] \in Nat \ {0}
    BY <1>2 DEF HandlerReturns, Set, WizardInv, WizardAt
  <2> QED
    BY <2>1, <2>2, OutOfHandler DEF InHandler, WizardInv, WizardAt
<1>3. CASE RateLimitRetryMiddleware(r)
  BY <1>3, SameHandler DEF RateLimitRetryMiddleware, storeVars, InHandler
<1> QED
  BY <1>1, <1>2, <1>3

LEMMA MatchWizard ==
    ASSUME WizardInv, OneRunner, NEW r \in Runners, dispatchMessage(r)
    PROVE  WizardInv'
<1>1. UNCHANGED <<app, stage, fields, event>> /\ pc[r] = "match"
  BY DEF dispatchMessage, storeVars
<1>2. event[r] \in Messages \cup Reactions /\ index[r] \in Nat \ {0}
  BY <1>1 DEF WizardInv, WizardAt
<1>3. CASE index[r] > Len(textHandlers)
  <2>1. pc'[r] = "handled" /\ index' = index /\ DOMAIN pc' = Runners
    BY <1>3 DEF dispatchMessage, Goto, WizardInv
  <2> QED
    BY <1>1, <1>2, <2>1, OutOfHandler DEF InHandler, WizardInv
<1>4. CASE index[r] <= Len(textHandlers) /\ match(textHandlers[index[r]], event[r])
  <2>1. Len(textHandlers) \in Nat
    BY DEF textHandlers, WizardHandlers, PollHandlers
  <2>2. pc'[r] = "run" /\ index' = index /\ DOMAIN pc' = Runners
    BY <1>2, <1>4, <2>1 DEF dispatchMessage, Goto, WizardInv
  <2>3. textHandlers' = textHandlers
    BY <1>1 DEF textHandlers
  <2>4. ASSUME Doing(r) = "timezone" PROVE "name" \in fields[Key(event[r])]
    <3>1. stage[Key(event[r])] = "timezone"
      BY <1>2, <1>4, <2>4, HandlerStages DEF Doing, match
    <3> QED
      BY <1>2, <3>1, KeyOf DEF WizardInv, WizardConsistent
  <2>5. WizardAt(r)'
    BY <1>1, <1>2, <2>2, <2>3, <2>4 DEF WizardAt, Doing, Key
  <2> QED
    BY <1>1, <2>2, <2>5 DEF WizardInv, WizardConsistent, OneRunner
<1>5. CASE index[r] <= Len(textHandlers) /\ ~match(textHandlers[index[r]], event[r])
  <2>1. Len(textHandlers) \in Nat
    BY DEF textHandlers, WizardHandlers, PollHandlers
  <2>2. pc' = pc /\ index' = [index EXCEPT ![r] = index[r] + 1]
    BY <1>2, <1>5, <2>1 DEF dispatchMessage, Set
  <2> QED
    BY <1>1, <1>2, <2>2, OutOfHandler DEF InHandler, WizardInv
<1>6. index[r] > Len(textHandlers) \/ index[r] <= Len(textHandlers)
  <2>1. Len(textHandlers) \in Nat
    BY DEF textHandlers, WizardHandlers, PollHandlers
  <2> QED
    BY <1>2, <2>1
<1> QED
  BY <1>3, <1>4, <1>5, <1>6, Zenon

LEMMA TalkWizard ==
    ASSUME WizardInv, OneRunner, NEW r \in Runners,
           (\E s \in {"name", "timezone", "confirm"} : StepAside(r, s))
             \/ Talk(r) \/ PollCommand(r)
    PROVE  WizardInv'
<1>1. pc[r] = "run" /\ UNCHANGED <<app, stage, fields, event, index>>
  BY DEF StepAside, Talk, PollCommand, Running, storeVars
<1>2. Goto(r, "prepare") \/ Goto(r, "returned")
  BY DEF StepAside, Talk, PollCommand, Replies, Passes
<1>3. pc[r] \in InHandler /\ pc[r] # "clean"
  BY <1>1 DEF InHandler
<1>4. CASE Goto(r, "prepare")
  BY <1>1, <1>3, <1>4, SameHandler
<1>5. CASE Goto(r, "returned")
  BY <1>1, <1>3, <1>5, SameHandler
<1> QED
  BY <1>2, <1>4, <1>5

LEMMA VoteWizard ==
    ASSUME WizardInv, OneRunner, NEW r \in Runners, applyVote(r) \/ decrement(r) \/ increment(r) \/ NoteVote(r)
    PROVE  WizardInv'
<1>1. UNCHANGED <<stage, fields, event, index>> /\ pc[r] \notin {"select", "ended"}
      /\ pc'[r] \in {"uncount", "count", "vote", "handled"} /\ DOMAIN pc' = Runners
  BY DEF applyVote, decrement, increment, NoteVote, Goto, storeVars, WizardInv
<1> QED
  BY <1>1, OutOfHandler DEF InHandler, WizardInv, WizardAt

LEMMA ReplyWizard ==
    ASSUME WizardInv, OneRunner, NEW r \in Runners, ReplyStep(r)
    PROVE  WizardInv'
<1>1. UNCHANGED <<app, stage, fields, event, index>> /\ pc[r] \in InHandler
  BY DEF ReplyStep, prepareHelperReply, Reply, WaitAborted, Cleanup, storeVars, InHandler
<1>2. pc' = pc \/ \E l \in {"send", "cleanup", "returned"} : Goto(r, l)
  BY DEF ReplyStep, prepareHelperReply, AbortDelay, Reply, WaitAborted, Cleanup
<1>3. pc[r] # "clean"
  BY <1>1 DEF InHandler
<1> QED
  BY <1>1, <1>2, <1>3, SameHandler, NothingChanges

\* The steps that write a conversation.
LEMMA StoreWizard ==
    ASSUME WizardInv, OneRunner, NEW r \in Runners,
           AskStep(r) \/ Advance(r) \/ Clear(r) \/ Clean(r) \/ Begin(r)
    PROVE  WizardInv'
<1>1. UNCHANGED <<app, event, index>> /\ textHandlers' = textHandlers
  BY DEF AskStep, Advance, Clear, Clean, Begin, textHandlers
<1>2. event[r] \in Messages
  <2>1. event[r].type = "message" \/ pc[r] \in {"advance", "clean"}
    BY DEF AskStep, Advance, Clear, Clean, Begin, Running
  <2>2. event[r] \in Messages \cup Reactions
    BY DEF AskStep, Advance, Clear, Clean, Begin, Running, WizardInv, WizardAt
  <2> QED
    BY <2>1, <2>2 DEF WizardInv, WizardAt, Reactions
<1>3. DOMAIN pc' = Runners /\ DOMAIN stage' = Keys /\ DOMAIN fields' = Keys
  BY DEF AskStep, SetField, Advance, Clear, Clean, Begin, Replies, Goto, WizardInv
<1>4. Key(event[r]) \in Keys
  BY <1>2, KeyOf
<1>5. SUFFICES WizardConsistent' /\ WizardAt(r)'
  BY <1>1, <1>3 DEF WizardInv, OneRunner
<1>6. CASE AskStep(r)
  <2>1. /\ pc[r] = "run" /\ pc'[r] = "advance" /\ stage' = stage
        /\ Doing(r) \in {"name", "timezone"}
        /\ fields' = [fields EXCEPT ![Key(event[r])] = @ \cup {Doing(r)}]
    BY <1>6 DEF AskStep, Running, SetField, Goto, Doing, WizardInv
  <2>2. \A k \in Keys : fields[k] \subseteq fields'[k]
    BY <2>1 DEF WizardInv
  <2>3. Doing(r) \in fields'[Key(event[r])]
    BY <1>4, <2>1 DEF WizardInv
  <2>4. Doing(r) = "timezone" => "name" \in fields[Key(event[r])]
    BY <1>2, <2>1 DEF WizardInv, WizardAt, InHandler
  <2>5. WizardConsistent'
    BY <2>1, <2>2 DEF WizardInv, WizardConsistent
  <2>6. WizardAt(r)'
    BY <1>1, <1>2, <1>4, <2>1, <2>2, <2>3, <2>4 DEF WizardInv, WizardAt, Doing, Key
  <2> QED
    BY <2>5, <2>6
<1>7. CASE Advance(r)
  <2>1. /\ pc[r] = "advance" /\ pc'[r] = "prepare" /\ fields' = fields
        /\ stage' = [stage EXCEPT ![Key(event[r])] =
                        IF Doing(r) = "name" THEN "timezone" ELSE "confirm"]
    BY <1>7 DEF Advance, Replies, Goto, Doing, WizardInv
  <2>2. /\ Doing(r) \in {"name", "timezone"} /\ Doing(r) \in fields[Key(event[r])]
        /\ Doing(r) = "timezone" => "name" \in fields[Key(event[r])]
    BY <1>2, <2>1 DEF WizardInv, WizardAt, InHandler
  <2>3. WizardConsistent'
    BY <1>4, <2>1, <2>2 DEF WizardInv, WizardConsistent
  <2>4. WizardAt(r)'
    BY <1>1, <1>2, <2>1, <2>2 DEF WizardInv, WizardAt, Doing, Key
  <2> QED
    BY <2>3, <2>4
<1>8. CASE Clear(r)
  <2>1. /\ pc'[r] = "clean" /\ fields' = fields /\ Doing(r) \in {"confirm", "cancel"}
        /\ stage' = [stage EXCEPT ![Key(event[r])] = "none"]
    BY <1>8 DEF Clear, Running, Goto, Doing, WizardInv
  <2>2. WizardConsistent'
    BY <1>4, <2>1 DEF WizardInv, WizardConsistent
  <2>3. WizardAt(r)'
    BY <1>1, <1>2, <1>4, <2>1 DEF WizardInv, WizardAt, InHandler, Doing, Key
  <2> QED
    BY <2>2, <2>3
<1>9. CASE Clean(r)
  <2>1. /\ pc[r] = "clean" /\ pc'[r] = "prepare" /\ stage' = stage
        /\ fields' = [fields EXCEPT ![Key(event[r])] = {}]
    BY <1>9 DEF Clean, Replies, Goto, WizardInv
  <2>2. stage[Key(event[r])] = "none" /\ Doing(r) # "timezone"
    BY <2>1 DEF WizardInv, WizardAt
  <2>3. WizardConsistent'
    BY <1>4, <2>1, <2>2 DEF WizardInv, WizardConsistent
  <2>4. WizardAt(r)'
    BY <1>1, <1>2, <2>1, <2>2 DEF WizardInv, WizardAt, Doing, Key
  <2> QED
    BY <2>3, <2>4
<1>10. CASE Begin(r)
  <2>1. /\ pc'[r] = "prepare" /\ fields' = fields /\ Doing(r) = "begin"
        /\ stage' = [stage EXCEPT ![Key(event[r])] = "name"]
    BY <1>10 DEF Begin, Running, Replies, Goto, Doing, WizardInv
  <2>2. WizardConsistent'
    BY <1>4, <2>1 DEF WizardInv, WizardConsistent
  <2>3. WizardAt(r)'
    BY <1>1, <1>2, <2>1 DEF WizardInv, WizardAt, Doing, Key
  <2> QED
    BY <2>2, <2>3
<1> QED
  BY <1>6, <1>7, <1>8, <1>9, <1>10

LEMMA NextWizard == ASSUME OneRunner PROVE WizardInv /\ [BotNext]_botVars => WizardInv'
<1> SUFFICES ASSUME WizardInv, [BotNext]_botVars PROVE WizardInv'
  OBVIOUS
<1>1. CASE Cancel \/ UNCHANGED botVars
  BY <1>1, NothingChanges DEF Cancel, botVars, storeVars
<1>2. CASE \E r \in Runners, e \in Inputs : dispatch(r, e)
  BY <1>2, DispatchWizard
<1>3. CASE \E r \in Runners : RunnerStep(r)
  BY <1>3, RunWizard, MatchWizard, TalkWizard, VoteWizard, ReplyWizard, StoreWizard
     DEF RunnerStep, TextStep, PollStep
<1> QED
  BY <1>1, <1>2, <1>3 DEF BotNext

\* With one goroutine in Run, as the bot examples have, no order of messages,
\* commands, refusals, repeated handlers and cancellations leaves a conversation
\* in a stage whose earlier answers are missing.
THEOREM WizardStaysConsistent == ASSUME OneRunner PROVE BotSpec => []WizardConsistent
<1>1. WizardInv => WizardConsistent
  BY DEF WizardInv
<1>2. WizardInv /\ [BotNext]_botVars => WizardInv'
  BY NextWizard
<1> QED
  BY <1>1, <1>2, InitWizard, PTL DEF BotSpec

-----------------------------------------------------------------------------
(* The poll, with one goroutine in Run.  applyVote writes the store three   *)
(* times: between the writes the tallies are off by the vote taken back and *)
(* the vote not yet noted, and by nothing else.                             *)

Voters(v) == {u \in Users : poll.votes[u] = v}

\* What the tally of v lacks, and has too many, while runner r applies a vote.
TakenBack(r, v) == IF pc[r] \in {"count", "vote"} /\ prevVote[r] = v THEN 1 ELSE 0
NotNoted(r, v) == IF pc[r] = "vote" /\ event[r].body = v THEN 1 ELSE 0

Voting == {"uncount", "count", "vote"}

PollAt(r) ==
    /\ pc[r] \in Voting =>
         /\ event[r] \in Reactions
         /\ prevVote[r] = poll.votes[event[r].from]
         /\ prevVote[r] # event[r].body
    /\ pc[r] = "uncount" => prevVote[r] # "none"
    /\ poll.yes = Cardinality(Voters("yes")) - TakenBack(r, "yes") + NotNoted(r, "yes")
    /\ poll.no = Cardinality(Voters("no")) - TakenBack(r, "no") + NotNoted(r, "no")

PollInv ==
    /\ poll \in [open : BOOLEAN, yes : Int, no : Int, votes : [Users -> Votes]]
    /\ DOMAIN prevVote = Runners
    /\ Runners = {} => poll = NoPoll
    /\ \A r \in Runners : PollAt(r)

LEMMA FiniteVoters == \A v : IsFiniteSet(Voters(v)) /\ Cardinality(Voters(v)) \in Nat
  BY FS_Subset, FS_CardinalityType DEF Voters

\* The tallies of a poll nobody has voted in.
LEMMA NoVoters ==
    ASSUME poll.votes = [u \in Users |-> "none"]
    PROVE  Cardinality(Voters("yes")) = 0 /\ Cardinality(Voters("no")) = 0
<1>1. Voters("yes") = {} /\ Voters("no") = {}
  BY DEF Voters
<1> QED BY <1>1, FS_EmptySet

LEMMA InitPoll == BotInit => PollInv
<1> SUFFICES ASSUME BotInit PROVE PollInv
  OBVIOUS
<1>1. poll = NoPoll /\ prevVote = [r \in Runners |-> "none"] /\ \A r \in Runners : pc[r] = "select"
  BY DEF BotInit
<1>2. poll \in [open : BOOLEAN, yes : Int, no : Int, votes : [Users -> Votes]]
      /\ poll.yes = 0 /\ poll.no = 0 /\ poll.votes = [u \in Users |-> "none"]
  BY <1>1 DEF NoPoll, Votes
<1>3. Cardinality(Voters("yes")) = 0 /\ Cardinality(Voters("no")) = 0
  BY <1>2, NoVoters
<1>4. ASSUME NEW r \in Runners PROVE PollAt(r)
  BY <1>1, <1>2, <1>3 DEF PollAt, TakenBack, NotNoted, Voting
<1> QED BY <1>1, <1>2, <1>4 DEF PollInv

\* A step outside applyVote that leaves the poll alone.
LEMMA PollStays ==
    ASSUME PollInv, OneRunner, NEW r \in Runners, poll' = poll, prevVote' = prevVote,
           pc[r] \notin Voting, pc'[r] \notin Voting
    PROVE  PollInv'
<1>1. Voters("yes")' = Voters("yes") /\ Voters("no")' = Voters("no")
  BY DEF Voters
<1>2. PollAt(r)
  BY DEF PollInv
<1>3. PollAt(r)'
  BY <1>1, <1>2 DEF PollAt, TakenBack, NotNoted, Voting
<1> QED BY <1>3 DEF PollInv, OneRunner

LEMMA CommandPoll ==
    ASSUME PollInv, OneRunner, NEW r \in Runners, PollCommand(r), DOMAIN pc = Runners
    PROVE  PollInv'
<1>1. pc[r] = "run" /\ pc'[r] = "prepare" /\ prevVote' = prevVote
  BY DEF PollCommand, Running, Replies, Goto
<1>2. PollAt(r) /\ poll \in [open : BOOLEAN, yes : Int, no : Int, votes : [Users -> Votes]]
  BY DEF PollInv
<1>3. poll.yes = Cardinality(Voters("yes")) /\ poll.no = Cardinality(Voters("no"))
  BY <1>1, <1>2, FiniteVoters DEF PollAt, TakenBack, NotNoted
<1>4. /\ poll' \in [open : BOOLEAN, yes : Int, no : Int, votes : [Users -> Votes]]
      /\ poll'.yes = Cardinality(Voters("yes"))' /\ poll'.no = Cardinality(Voters("no"))'
  <2>1. CASE poll' = [NoPoll EXCEPT !.open = TRUE]
    <3>1. /\ poll' \in [open : BOOLEAN, yes : Int, no : Int, votes : [Users -> Votes]]
          /\ poll'.yes = 0 /\ poll'.no = 0 /\ poll'.votes = [u \in Users |-> "none"]
      <4>1. poll' = [open |-> TRUE, yes |-> 0, no |-> 0, votes |-> [u \in Users |-> "none"]]
        BY <2>1 DEF NoPoll
      <4>2. [u \in Users |-> "none"] \in [Users -> Votes]
        BY DEF Votes
      <4> QED BY <4>1, <4>2
    <3>2. Voters("yes")' = {} /\ Voters("no")' = {}
      BY <3>1 DEF Voters
    <3> QED BY <3>1, <3>2, FS_EmptySet
  <2>2. CASE poll' = [poll EXCEPT !.open = FALSE]
    <3>1. /\ poll' \in [open : BOOLEAN, yes : Int, no : Int, votes : [Users -> Votes]]
          /\ poll'.yes = poll.yes /\ poll'.no = poll.no /\ poll'.votes = poll.votes
      BY <1>2, <2>2
    <3>2. Voters("yes")' = Voters("yes") /\ Voters("no")' = Voters("no")
      BY <3>1 DEF Voters
    <3> QED BY <1>3, <3>1, <3>2
  <2> QED BY <2>1, <2>2 DEF PollCommand
<1>5. PollAt(r)'
  BY <1>1, <1>4, FiniteVoters DEF PollAt, TakenBack, NotNoted, Voting
<1> QED BY <1>1, <1>4, <1>5 DEF PollInv, OneRunner

\* The vote begins: nothing is written yet.
LEMMA ApplyPoll ==
    ASSUME PollInv, WizardInv, OneRunner, NEW r \in Runners, applyVote(r)
    PROVE  PollInv'
<1>1. /\ pc[r] = "run" /\ event[r].type = "reaction" /\ poll' = poll /\ event' = event
      /\ prevVote' = [prevVote EXCEPT ![r] = poll.votes[event[r].from]]
      /\ pc'[r] = IF ~poll.open \/ poll.votes[event[r].from] = event[r].body THEN "handled"
                  ELSE IF poll.votes[event[r].from] = "none" THEN "count" ELSE "uncount"
  BY DEF applyVote, Goto, Set, storeVars, WizardInv
<1>2. event[r] \in Reactions
  BY <1>1 DEF WizardInv, WizardAt, Messages
<1>3. event[r].body \in {"yes", "no"}
  BY <1>2 DEF Reactions
<1>4. prevVote'[r] = poll.votes[event[r].from] /\ DOMAIN prevVote' = Runners
  BY <1>1 DEF PollInv
<1>5. Voters("yes")' = Voters("yes") /\ Voters("no")' = Voters("no")
  BY <1>1 DEF Voters
<1>6. poll.yes = Cardinality(Voters("yes")) /\ poll.no = Cardinality(Voters("no"))
  BY <1>1, FiniteVoters DEF PollInv, PollAt, TakenBack, NotNoted
<1>7. PollAt(r)'
  BY <1>1, <1>2, <1>3, <1>4, <1>5, <1>6, FiniteVoters DEF PollAt, TakenBack, NotNoted, Voting
<1> QED BY <1>1, <1>4, <1>7 DEF PollInv, OneRunner

\* The old vote is taken back; it was counted, so that its tally is not zero.
LEMMA DecrementPoll ==
    ASSUME PollInv, WizardInv, OneRunner, NEW r \in Runners, decrement(r)
    PROVE  PollInv'
<1> DEFINE v == prevVote[r]
           from == event[r].from
<1>1. /\ pc[r] = "uncount" /\ pc'[r] = "count"
      /\ poll' = [poll EXCEPT ![v] = Uncount(poll[v])]
      /\ UNCHANGED <<event, prevVote>>
  BY DEF decrement, Goto, WizardInv
<1>2. /\ poll \in [open : BOOLEAN, yes : Int, no : Int, votes : [Users -> Votes]]
      /\ event[r] \in Reactions /\ v = poll.votes[from] /\ v # event[r].body /\ v # "none"
  BY <1>1 DEF PollInv, PollAt, Voting
<1>3. from \in Users /\ v \in {"yes", "no"}
  BY <1>2 DEF Reactions, Votes
<1>4. from \in Voters(v) /\ Cardinality(Voters(v)) > 0
  <2>1. from \in Voters(v)
    BY <1>2, <1>3 DEF Voters
  <2>2. Voters(v) # {} /\ IsFiniteSet(Voters(v)) /\ Cardinality(Voters(v)) \in Nat
    BY <2>1, FiniteVoters
  <2>3. Cardinality(Voters(v)) # 0
    BY <2>2, FS_EmptySet
  <2> QED BY <2>1, <2>2, <2>3
<1>5. poll.yes = Cardinality(Voters("yes")) /\ poll.no = Cardinality(Voters("no"))
  BY <1>1, FiniteVoters DEF PollInv, PollAt, TakenBack, NotNoted
<1>6. CASE v = "yes"
  <2> DEFINE less == Uncount(poll.yes)
  <2>0. less = poll.yes - 1 /\ less \in Int
    BY <1>2, <1>4, <1>5, <1>6 DEF Uncount
  <2> HIDE DEF less
  <2>1. poll' = [poll EXCEPT !.yes = less]
    BY <1>1, <1>6 DEF less
  <2>2. /\ poll' \in [open : BOOLEAN, yes : Int, no : Int, votes : [Users -> Votes]]
        /\ poll'.yes = poll.yes - 1 /\ poll'.no = poll.no /\ poll'.votes = poll.votes
    BY <1>2, <2>0, <2>1
  <2>3. Voters("yes")' = Voters("yes") /\ Voters("no")' = Voters("no")
    BY <2>2 DEF Voters
  <2>a. TakenBack(r, "yes")' = 1 /\ TakenBack(r, "no")' = 0
    BY <1>1, <1>6 DEF TakenBack
  <2>b. NotNoted(r, "yes")' = 0 /\ NotNoted(r, "no")' = 0
    BY <1>1 DEF NotNoted
  <2>c. /\ poll'.yes = Cardinality(Voters("yes"))' - TakenBack(r, "yes")' + NotNoted(r, "yes")'
        /\ poll'.no = Cardinality(Voters("no"))' - TakenBack(r, "no")' + NotNoted(r, "no")'
    BY <1>5, <2>2, <2>3, <2>a, <2>b, FiniteVoters
  <2>4. PollAt(r)'
    BY <1>1, <1>2, <2>2, <2>c DEF PollAt, Voting
  <2> QED BY <1>1, <2>2, <2>4 DEF PollInv, OneRunner
<1>7. CASE v = "no"
  <2> DEFINE less == Uncount(poll.no)
  <2>0. less = poll.no - 1 /\ less \in Int
    BY <1>2, <1>4, <1>5, <1>7 DEF Uncount
  <2> HIDE DEF less
  <2>1. poll' = [poll EXCEPT !.no = less]
    BY <1>1, <1>7 DEF less
  <2>2. /\ poll' \in [open : BOOLEAN, yes : Int, no : Int, votes : [Users -> Votes]]
        /\ poll'.no = poll.no - 1 /\ poll'.yes = poll.yes /\ poll'.votes = poll.votes
    BY <1>2, <2>0, <2>1
  <2>3. Voters("yes")' = Voters("yes") /\ Voters("no")' = Voters("no")
    BY <2>2 DEF Voters
  <2>a. TakenBack(r, "no")' = 1 /\ TakenBack(r, "yes")' = 0
    BY <1>1, <1>7 DEF TakenBack
  <2>b. NotNoted(r, "yes")' = 0 /\ NotNoted(r, "no")' = 0
    BY <1>1 DEF NotNoted
  <2>c. /\ poll'.yes = Cardinality(Voters("yes"))' - TakenBack(r, "yes")' + NotNoted(r, "yes")'
        /\ poll'.no = Cardinality(Voters("no"))' - TakenBack(r, "no")' + NotNoted(r, "no")'
    BY <1>5, <2>2, <2>3, <2>a, <2>b, FiniteVoters
  <2>4. PollAt(r)'
    BY <1>1, <1>2, <2>2, <2>c DEF PollAt, Voting
  <2> QED BY <1>1, <2>2, <2>4 DEF PollInv, OneRunner
<1> QED BY <1>3, <1>6, <1>7

LEMMA IncrementPoll ==
    ASSUME PollInv, WizardInv, OneRunner, NEW r \in Runners, increment(r)
    PROVE  PollInv'
<1> DEFINE b == event[r].body
<1>1. /\ pc[r] = "count" /\ pc'[r] = "vote"
      /\ poll' = [poll EXCEPT ![b] = poll[b] + 1]
      /\ UNCHANGED <<event, prevVote>>
  BY DEF increment, Goto, WizardInv
<1>2. /\ poll \in [open : BOOLEAN, yes : Int, no : Int, votes : [Users -> Votes]]
      /\ event[r] \in Reactions /\ prevVote[r] = poll.votes[event[r].from] /\ prevVote[r] # b
  BY <1>1 DEF PollInv, PollAt, Voting
<1>3. b \in {"yes", "no"}
  BY <1>2 DEF Reactions
<1>4. /\ poll.yes = Cardinality(Voters("yes")) - TakenBack(r, "yes")
      /\ poll.no = Cardinality(Voters("no")) - TakenBack(r, "no")
  BY <1>1, FiniteVoters DEF PollInv, PollAt, TakenBack, NotNoted
<1>5. TakenBack(r, "yes")' = TakenBack(r, "yes") /\ TakenBack(r, "no")' = TakenBack(r, "no")
  BY <1>1 DEF TakenBack
<1>6. TakenBack(r, "yes") \in Int /\ TakenBack(r, "no") \in Int
  BY DEF TakenBack
<1>7. CASE b = "yes"
  <2>1. poll' = [poll EXCEPT !.yes = poll.yes + 1]
    BY <1>1, <1>7
  <2>2. /\ poll' \in [open : BOOLEAN, yes : Int, no : Int, votes : [Users -> Votes]]
        /\ poll'.yes = poll.yes + 1 /\ poll'.no = poll.no /\ poll'.votes = poll.votes
    BY <1>2, <2>1
  <2>3. Voters("yes")' = Voters("yes") /\ Voters("no")' = Voters("no")
    BY <2>2 DEF Voters
  <2>4. NotNoted(r, "yes")' = 1 /\ NotNoted(r, "no")' = 0
    BY <1>1, <1>7 DEF NotNoted
  <2>5. PollAt(r)'
    BY <1>1, <1>2, <1>4, <1>5, <1>6, <2>2, <2>3, <2>4, FiniteVoters DEF PollAt, Voting
  <2> QED BY <1>1, <2>2, <2>5 DEF PollInv, OneRunner
<1>8. CASE b = "no"
  <2>1. poll' = [poll EXCEPT !.no = poll.no + 1]
    BY <1>1, <1>8
  <2>2. /\ poll' \in [open : BOOLEAN, yes : Int, no : Int, votes : [Users -> Votes]]
        /\ poll'.no = poll.no + 1 /\ poll'.yes = poll.yes /\ poll'.votes = poll.votes
    BY <1>2, <2>1
  <2>3. Voters("yes")' = Voters("yes") /\ Voters("no")' = Voters("no")
    BY <2>2 DEF Voters
  <2>4. NotNoted(r, "no")' = 1 /\ NotNoted(r, "yes")' = 0
    BY <1>1, <1>8 DEF NotNoted
  <2>5. PollAt(r)'
    BY <1>1, <1>2, <1>4, <1>5, <1>6, <2>2, <2>3, <2>4, FiniteVoters DEF PollAt, Voting
  <2> QED BY <1>1, <2>2, <2>5 DEF PollInv, OneRunner
<1> QED BY <1>3, <1>7, <1>8

\* The vote is noted: one voter moves from the old vote's set to the new one's.
LEMMA NotePoll ==
    ASSUME PollInv, WizardInv, OneRunner, NEW r \in Runners, NoteVote(r)
    PROVE  PollInv'
<1> DEFINE b == event[r].body
           from == event[r].from
           p == prevVote[r]
<1>1. /\ pc[r] = "vote" /\ pc'[r] = "handled" /\ event' = event
      /\ poll' = [poll EXCEPT !.votes[from] = b]
      /\ prevVote' = [prevVote EXCEPT ![r] = "none"]
  BY DEF NoteVote, Goto, Set, WizardInv
<1>2. /\ poll \in [open : BOOLEAN, yes : Int, no : Int, votes : [Users -> Votes]]
      /\ event[r] \in Reactions /\ p = poll.votes[from] /\ p # b
  BY <1>1 DEF PollInv, PollAt, Voting
<1>3. b \in {"yes", "no"} /\ from \in Users /\ p \in Votes
  BY <1>2 DEF Reactions
<1>4. /\ poll'.votes = [poll.votes EXCEPT ![from] = b]
      /\ poll'.yes = poll.yes /\ poll'.no = poll.no /\ poll'.open = poll.open
      /\ poll' \in [open : BOOLEAN, yes : Int, no : Int, votes : [Users -> Votes]]
  <2>1. [poll.votes EXCEPT ![from] = b] \in [Users -> Votes]
    BY <1>2, <1>3 DEF Votes
  <2> QED BY <1>1, <1>2, <2>1
<1>5. /\ poll.yes = Cardinality(Voters("yes")) - TakenBack(r, "yes") + NotNoted(r, "yes")
      /\ poll.no = Cardinality(Voters("no")) - TakenBack(r, "no") + NotNoted(r, "no")
  BY <1>1 DEF PollInv, PollAt
<1>6. ASSUME NEW v \in {"yes", "no"}
      PROVE  Cardinality(Voters(v)') = Cardinality(Voters(v)) - TakenBack(r, v) + NotNoted(r, v)
  <2>1. IsFiniteSet(Voters(v)) /\ Cardinality(Voters(v)) \in Nat
    BY FiniteVoters
  <2>2. CASE v = b
    <3>1. Voters(v)' = Voters(v) \cup {from} /\ from \notin Voters(v)
      BY <1>2, <1>3, <1>4, <2>2 DEF Voters
    <3>2. Cardinality(Voters(v) \cup {from}) = Cardinality(Voters(v)) + 1
      BY <2>1, <3>1, FS_AddElement
    <3>3. TakenBack(r, v) = 0 /\ NotNoted(r, v) = 1
      BY <1>1, <1>2, <2>2 DEF TakenBack, NotNoted
    <3> QED BY <2>1, <3>1, <3>2, <3>3
  <2>3. CASE v = p
    <3>1. Voters(v)' = Voters(v) \ {from} /\ from \in Voters(v)
      BY <1>2, <1>3, <1>4, <2>3 DEF Voters
    <3>2. Cardinality(Voters(v) \ {from}) = Cardinality(Voters(v)) - 1
      BY <2>1, <3>1, FS_RemoveElement
    <3>3. TakenBack(r, v) = 1 /\ NotNoted(r, v) = 0
      BY <1>1, <1>2, <2>3 DEF TakenBack, NotNoted
    <3> QED BY <2>1, <3>1, <3>2, <3>3
  <2>4. CASE v # b /\ v # p
    <3>1. Voters(v)' = Voters(v)
      BY <1>2, <1>3, <1>4, <2>4 DEF Voters
    <3>2. TakenBack(r, v) = 0 /\ NotNoted(r, v) = 0
      BY <2>4 DEF TakenBack, NotNoted
    <3> QED BY <2>1, <3>1, <3>2
  <2> QED BY <2>2, <2>3, <2>4
<1>7. poll'.yes = Cardinality(Voters("yes")') /\ poll'.no = Cardinality(Voters("no")')
  BY <1>4, <1>5, <1>6
<1>8. PollAt(r)'
  BY <1>1, <1>4, <1>7 DEF PollAt, TakenBack, NotNoted, Voting
<1> QED BY <1>1, <1>4, <1>8 DEF PollInv, OneRunner

LEMMA QuietPoll ==
    ASSUME PollInv, WizardInv, OneRunner, NEW r \in Runners,
           RunEnds(r) \/ dispatchMessage(r) \/ RateLimitRetryMiddleware(r) \/ HandlerReturns(r)
             \/ NextEvent(r) \/ TextStep(r) \/ ReplyStep(r) \/ \E e \in Inputs : dispatch(r, e)
    PROVE  PollInv'
<1>1. poll' = poll /\ prevVote' = prevVote
  BY DEF RunEnds, dispatchMessage, RateLimitRetryMiddleware, HandlerReturns, NextEvent, TextStep,
     StepAside, AskStep, Advance, Clear, Clean, Begin, Talk, ReplyStep, prepareHelperReply, Reply,
     WaitAborted, Cleanup, dispatch, storeVars
<1>2. pc[r] \notin Voting
  BY DEF RunEnds, RunReturns, dispatchMessage, RateLimitRetryMiddleware, HandlerReturns, NextEvent,
     TextStep, StepAside, AskStep, Advance, Clear, Clean, Begin, Talk, Running, ReplyStep,
     prepareHelperReply, Reply, WaitAborted, Cleanup, dispatch, Voting
<1>3. pc' = pc \/ \E l \in {"select", "match", "run", "advance", "clean", "prepare", "send",
                            "cleanup", "returned", "handled", "ended"} :
                    pc' = [pc EXCEPT ![r] = l]
  <2>1. CASE \E e \in Inputs : dispatch(r, e)
    BY <2>1 DEF dispatch, Goto
  <2>2. CASE RunEnds(r) \/ dispatchMessage(r) \/ RateLimitRetryMiddleware(r) \/ HandlerReturns(r)
               \/ NextEvent(r)
    BY <2>2 DEF RunEnds, dispatchMessage, RateLimitRetryMiddleware, HandlerReturns, NextEvent, Goto
  <2>3. CASE TextStep(r)
    BY <2>3 DEF TextStep, StepAside, AskStep, Advance, Clear, Clean, Begin, Talk, Replies, Passes,
       Goto
  <2>4. CASE ReplyStep(r)
    BY <2>4 DEF ReplyStep, prepareHelperReply, AbortDelay, Reply, WaitAborted, Cleanup, Goto
  <2> QED BY <2>1, <2>2, <2>3, <2>4
<1>4. pc'[r] \notin Voting
  BY <1>2, <1>3 DEF WizardInv, Voting
<1> QED BY <1>1, <1>2, <1>4, PollStays

LEMMA NextPoll ==
    ASSUME OneRunner
    PROVE  PollInv /\ WizardInv /\ [BotNext]_botVars => PollInv' /\ WizardInv'
<1> SUFFICES ASSUME PollInv, WizardInv, [BotNext]_botVars PROVE PollInv' /\ WizardInv'
  OBVIOUS
<1>1. WizardInv'
  BY NextWizard
<1>2. CASE \E r \in Runners, e \in Inputs : dispatch(r, e)
  BY <1>1, <1>2, QuietPoll
<1>3. CASE \E r \in Runners : RunnerStep(r)
  <2>1. PICK r \in Runners : RunnerStep(r)
    BY <1>3
  <2>2. CASE PollStep(r)
    BY <1>1, <2>2, CommandPoll, ApplyPoll, DecrementPoll, IncrementPoll, NotePoll
       DEF PollStep, WizardInv
  <2>3. CASE ~PollStep(r)
    BY <1>1, <2>1, <2>3, QuietPoll DEF RunnerStep
  <2> QED BY <2>2, <2>3
<1>4. CASE Cancel \/ UNCHANGED botVars
  <2>1. UNCHANGED <<poll, prevVote, pc, event>>
    BY <1>4 DEF Cancel, botVars, storeVars
  <2>2. Voters("yes")' = Voters("yes") /\ Voters("no")' = Voters("no")
    BY <2>1 DEF Voters
  <2>3. ASSUME NEW r \in Runners, PollAt(r) PROVE PollAt(r)'
    <3>1. /\ TakenBack(r, "yes")' = TakenBack(r, "yes") /\ NotNoted(r, "yes")' = NotNoted(r, "yes")
          /\ TakenBack(r, "no")' = TakenBack(r, "no") /\ NotNoted(r, "no")' = NotNoted(r, "no")
      BY <2>1 DEF TakenBack, NotNoted
    <3> QED BY <2>1, <2>2, <2>3, <3>1 DEF PollAt
  <2>4. PollInv'
    BY <2>1, <2>3 DEF PollInv
  <2> QED BY <1>1, <2>4
<1> QED BY <1>2, <1>3, <1>4 DEF BotNext

\* With one goroutine in Run the tallies of the poll are the numbers of votes
\* noted, for any number of users and votes: no switch of a vote loses or
\* invents a count, though a vote is three separate writes.
THEOREM TalliesAlwaysMatch == ASSUME OneRunner PROVE BotSpec => []TalliesMatchVotes
<1>1. ASSUME PollInv PROVE TalliesMatchVotes
  <2> SUFFICES ASSUME \A r \in Runners : pc[r] \notin {"count", "vote"}
               PROVE  poll.yes = Tally("yes") /\ poll.no = Tally("no")
    BY DEF TalliesMatchVotes
  <2>1. Tally("yes") = Cardinality(Voters("yes")) /\ Tally("no") = Cardinality(Voters("no"))
    BY DEF Tally, Voters
  <2>2. CASE Runners = {}
    <3>1. poll.yes = 0 /\ poll.no = 0 /\ poll.votes = [u \in Users |-> "none"]
      BY <1>1, <2>2 DEF PollInv, NoPoll
    <3> QED BY <2>1, <3>1, NoVoters
  <2>3. CASE Runners # {}
    <3>1. PICK r \in Runners : PollAt(r)
      BY <1>1, <2>3 DEF PollInv
    <3> QED BY <2>1, <3>1, FiniteVoters DEF PollAt, TakenBack, NotNoted
  <2> QED BY <2>2, <2>3
<1>2. PollInv /\ WizardInv /\ [BotNext]_botVars => PollInv' /\ WizardInv'
  BY NextPoll
<1>3. PollInv => TalliesMatchVotes
  BY <1>1
<1> QED BY <1>2, <1>3, InitPoll, InitWizard, PTL DEF BotSpec
============================================================================
