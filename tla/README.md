# signal-go: TLA+ models, TLC runs and TLAPS proofs

signal-go is a Go client library for Signal: it links as a secondary device,
keeps a websocket to the chat server, decrypts the envelopes pushed over it,
sends to all devices of a recipient and to groups, keeps its lists and group
states in sync, keeps the server supplied with one-time prekeys, and offers a bot
framework on top. This directory models the parts of
it whose correctness depends on interleavings, failures and order, checks them
with TLC on small instances and proves their safety properties with TLAPS for
all instances. `PROJECT.json` lists components, runs, mutants, hazards and
theorems, and maps every definition to the lines it models.

Run `tlc -workers 2 -config X.cfg MCModule` for a run and `tlapm M.tla` for the
proofs of a module.

## The system

| Part | Code | State | Operations | Hard behaviour |
|---|---|---|---|---|
| websocket RPC client | `internal/ws/client.go` | pending table, `closed`, `done`, the connection | Send, Close, read loop, keepalive, one goroutine per pushed request | Close against the read loop's failPending; late, duplicate, reordered responses; cancellation |
| chat connection | `internal/chat/connection.go` | current client, `closed`, attempt counter | runLoop, reconnect, connectOnce, backoffDelay, Close | Close during a reconnect; delay overflow; who waits for whom |
| event stream | `pkg/signal/client.go`, `internal/cipher/envelope.go`, `pkg/bot/bot.go` | Events channel, session records, Bot.closed | handleInbound, Decrypt, emit, Client.Close, Bot.Run, Bot.Close | one goroutine per envelope, redelivery after a reconnect, a full channel, shutdown |
| send pipeline | `pkg/signal/send.go`, `internal/web/messages.go` | device cache, sessions, /v2/keys cooldown | discover, establish, encrypt, PUT, 409/410 repair | concurrent Sends sharing caches, lost answers, partial repairs |
| prekey maintenance | `internal/prekeymaint`, `internal/prekeys`, `internal/store/sqlstore` | prekey tables, next-id counters in memory and stored | MaybeTopUp, UploadOneTimeBatch, PersistOneTimePreKeys, SaveAccount | concurrent top-ups, lost answers, crashes, id exhaustion |
| stores | `internal/store` | identities, sessions, prekeys, sender keys | load, store, delete, trust on first use | the two implementations differ (memstore keeps a Kyber key's used mark when the id is stored again) |
| content dispatch | `pkg/signal/dispatch.go` | expire timers, profile keys, entropy pool | handleDataMessage, handleSyncMessage | order of side effects of one message |
| sealed sender, profiles | `pkg/signal/profile.go`, `send.go` | profile keys, UAKs, allowSealedSender, certificate cache | FetchProfile, ensureRecipientUAK, SetRecipientUAK | keys read under a lock and written back after it |
| group state | `pkg/signal/group.go`, `group_logs.go`, `group_revision.go` | revision, timer and endorsement caches | FetchGroup, SyncGroup, auto-sync | slow calls, paging while the group changes, pruned logs, the fallback after a 403 |
| group changes | `pkg/signal/group_modify.go`, `group_create.go`, `group_invite.go`, `internal/group` | the change under construction | create, roles, members, title, invite link, join, leave | a check on a state that is stale when the PATCH arrives; lost answers |
| group sending | `pkg/signal/group_send.go`, `group_endorsement.go` | distribution ids, sender keys, endorsements | SendGroup, reactions, typing, notifications | partial fan-out, ratchet against failed PUT, restarts, membership |
| linking | `pkg/signal/link.go`, `link_sync.go`, `internal/provisioning`, `internal/backup` | account, keys, imported lists | Link, SyncTransferArchive | a crash between any two of its steps, a dead websocket, long polls, corrupt archives |
| storage service | `pkg/signal/storage.go`, `internal/storage` | manifest version, contacts, groups | SyncStorage, auto-sync, Open's import | concurrent syncs, records deleted under a pull, a changed entropy pool |
| bot framework | `pkg/bot`, `examples/wizard-bot`, `examples/poll-bot` | handlers, conversations | dispatch, wizard, Reply, rate-limit middleware | nested retries, cancellation in a handler, commands between answers |
| REST client, attachments, CDSI, account file, command line | `internal/web`, `internal/attachment`, `pkg/signal/discover.go`, `internal/account`, `cmd` | little | request building, ciphers, parsing | none a model checker reaches |

How they interact: a Bot owns a signal.Client, which owns a chat.Connection,
which owns one ws.Client after another. The ws.Client's read loop starts a
goroutine per pushed request; it runs chat's handleServerRequest, signal's
handleInbound, the envelope decryptor (libsignal with callbacks into the
stores) and, after a prekey message, the prekey maintainer; then it puts an
event into the bounded Events channel and answers 200. Sends use the REST
client, not the websocket, and share the stores with the decryptor. A group
update starts a goroutine that syncs the group, a sync message one that pulls
the storage service; group sends fetch the group first and distribute their key
through the send pipeline. Link and Open meet on disk only: the account, the
key stores and the imported lists.

What makes each part correct: a response reaches the call that asked for it and
nobody hangs after a shutdown (websocket); one client reads at a time, none is
dialled after Close, a bounded delay (chat); nothing is acknowledged before it
is in the channel or dropped on a full one, the channel is closed once, Run
returns (stream); a message is delivered at most once, repairs are bounded and
leave caches from which later Sends recover, but for one dead end (send); every
key the server can hand out can be decrypted with, and the server does not run
dry (prekeys); the caches of a group name states it really had and catch up
(group state); a change is permitted by the state it follows and announced as of
a state that has it (group changes); every addressee of a text can decrypt it
and no iteration carries two (group sending); a linked device holds the keys it
published (linking); the lists are those of the version they are stored under,
and a contact's two keys agree (storage, profiles); one answer per message, and
conversations that stay consistent (bot).

## Modules

`MC*.tla` only give TLC its model values. Definitions called "Mutant" are
plausible bugs used to show that a property can fail; no specification uses
them.

**RpcChannel** is the abstract promise of ws.Client: a call begins once and
returns once; a response only if the peer answered that very call; a call begun
after the channel went down never reaches the peer.

**WsClient** models one ws.Client. `pending` is a set of `[id, call]` entries,
a call's channel is its one-place buffer `chBuf` and `chClosed`. Send is split
where the code can be interrupted: id, critical section with the closed check,
write, select, deferred delete. Close is its critical section, `conn.Close`,
`<-c.done`. The read loop's frames are responses, requests, undecodable and
unknown ones. The server is the environment: it answers what it received in any
order and perhaps twice. `opts` covers dialling with and without handler and
keepalive.

**Backoff** is `backoffDelay` with the integer width of a Duration: the
conversion of an out-of-range float is a choice between the least and the
greatest integer, which is what the Go ports do.

**ChatConnection** models runLoop, reconnect, connectOnce and Close. A client
is a number, in `reading` from its dial until its read loop ends and in `open`
until its connection is closed. The two part at an undecodable frame: the read
loop ends, the connection stays open, and the Close that follows returns early
(WsClose). The dial and the store of the dialled client are two steps, as no
lock spans them. The code's attempt counter has no bound; the model's stays at
MaxAttempt, which SaturationExact puts past the overflow of the delay, where all
attempts do the same. A panic ends the process.

**EventStream** extends ChatConnection with the goroutines of pushed envelopes,
the Events channel, Bot.Run and Bot.Close (which calls Client.Close, which
calls Connection.Close). A session record is abstracted to the set of envelopes
whose message key is used up; decrypting is a load and a store with nothing
between them that excludes others. The server pushes what is unacknowledged
once per connection. A panic ends the process.

**SendPipeline** models sendContent to one recipient, called again and again by
several goroutines. Sessions and bundles are registration ids. Loops over
devices visit them one at a time in any order (the server's answers and the
cache fix no order). Basic-auth and sealed delivery take the same steps and are
one. `Fault` is an error of the operation at hand; `PutLost` is a PUT the server
delivered whose answer was lost.

**PreKeyMaint** models MaybeTopUp as called after a prekey decrypt, with the
SQL stores. A key is an id and the batch it came from. The loop over a batch is
one step per kind of key, and a failure in it leaves any prefix stored. The two
assignments to the account, and SaveAccount, are separate steps, as the account
is shared without a lock. The server hands keys out once and forgets them.

**GroupSync** models the storage service's view of one group (a state per
revision, a log that is pruned), the client's caches of it, and the calls that
refresh them: FetchGroup, SyncGroup page by page, and the goroutine of
maybeAutoSyncGroupUpdate. A request and the application of its answer are two
steps. A 403 of the logs, or of the FetchGroup inside SyncGroup, is an error of
the sync; the auto-sync answers either by deleting the cached revision and
fetching the group. It is the base of the next two.

**GroupChange** extends GroupSync with every operation that changes the group:
fetch, check of the local account's role, credential request, PATCH at the
revision after the fetched one, second fetch, notification; joining by link,
leaving, creating. The service accepts only a successor of its newest revision.
The auto-sync goroutines run beside the changes, and the logs are pruned.

**GroupSend** extends GroupSync with deliveries: distribution id from memory or
store, creation of the distribution message, one send per member, encryption
with the sender-key record (load and store apart, as libsignal's callbacks hold
no lock), choice of authorisation, PUT. A key is a chain and an iteration, and
who holds one decrypts from there on. Endorsements expire, the process restarts.

**ProfileCache** models the profile keys, UAKs and sealed-sender flags of
contacts and their writers; **StorageSync** extends it with SyncStorage and
Pull, the primary device that writes manifests under an entropy pool, dispatch
of sync and data messages, Open with its import, and restarts. **LinkDevice**
models provisioning.Link's channels and watcher, then Link's requests and
stores, the polling for the transfer archive with its three timeouts, and the
import frame by frame; failures and crashes anywhere. **DeviceLifecycle**
composes StorageSync and LinkDevice: the account Link saves is what Open takes
its pool from, the frames it imported are what Open loads.

**Bot** models Run, dispatch through the handlers in registration order with
their matchers and ErrPass, RateLimitRetryMiddleware, Message.Reply with delay
and retry (its typing indicator is best effort, with errors ignored, and left
out), and the conversations, under the applications wizard-bot and poll-bot. A
text is the class the handlers tell apart. A runner is a call of Run; the code
allows several.

**WsClientProofs, EventStreamProofs** (with the chat connection's),
**SendPipelineProofs, PreKeyProofs, GroupProofs** (GroupSync and GroupChange),
**GroupSendProofs, DeviceLifecycleProofs, BotProofs** hold the theorems.

## Runs

| Run | Instance | Shows |
|---|---|---|
| ws_client | 2 Sends, 2 Closes, 1 frame in flight | NoChannelPanic, ResponseMatchesRequest, ClosedIsDrained, and refinement of RpcChannel |
| ws_client_live | 1 Send, 2 Closes, 1 pushed request | ShutdownCompletes: once closed from either side everybody returns |
| chat_connection | 2 Closes, 3 dials, delays up to the overflow | OneReader, DelayCapped, NoReconnectAfterClose, CloseReturns, Reconnects |
| chat_backoff_panic | the same | violation of NoPanic: a long outage makes the delay overflow and the process panic |
| event_stream | 1 envelope over 2 connections, 1 Bot.Close, channel of 1 | AckedAfterEmit, RunReturns, AllAcked |
| send_pipeline | 2 callers that keep sending, 2 devices, 1 change, 1 fault | DeliveredOnce, RecoversOrDeadEnd |
| prekey_maint | 1 maintainer, 1 fault, 1 lost answer, 1 crash, ids up to 8 | PublishedDecryptable, PublishedHasRow, KyberIDsValid, InventoryAccurate, SmoothlyReplenished |
| group_sync | 2 calls, 2 revisions, 2 pages of 1, 1 fault | CacheNotAhead, SyncNotStale, ForgetsOnlyOnRefusal, CatchesUp |
| group_change | 2 calls, changes or auto-syncs, 2 accounts, 2 revisions, 1 page of 2, 1 fault | PatchAuthorised, NoticeCoversChange, ChangeIsCached |
| group_send | 1 call at a time, 3 accounts, 1 change, 1 fault or restart, 2 chains, iterations and ids | SentDecryptable, IterationsFresh |
| device_lifecycle | 2 Links, 1 failure or crash in them; 2 goroutines, 1 contact with 2 keys, 2 manifests, 2 pools, 1 fault, 1 restart | PublishedHeld, HandshakeEnds, UAKFollowsKey, SyncedIfCurrent, VersionGoesBackOnlyWhenOvertaken, SyncCatchesUp |
| bot | 1 runner, 2 users, 5 events, 4 refusals, 1 retry | RepliedOnce, WizardConsistent, TalliesMatchVotes, CancelEndsRun |

NoPendingLeak, CancelLeavesNoReader, ClosedOnce, PutsBounded, LinkedHasACIKeys,
OnlyValidatedImported and SendsBounded, and the types of WsClient,
ChatConnection, EventStream, SendPipeline, PreKeyMaint, GroupSync, GroupChange
and GroupSend, are proved for all instances and are not repeated in the runs.

DelayCapped, CloseReturns and Reconnects cover outages of any length: past the
overflow a delay is the cap or there is the panic, and the two liveness
properties except a process that panicked, which chat_backoff_panic shows can
happen. DeadEnd, which RecoversOrDeadEnd excepts, is the state SendStuck.cfg and
SendCacheRace.cfg end in: the property says that nothing else stops a caller for
good. InventoryAccurate and SmoothlyReplenished hold while nothing failed,
PublishedDecryptable while no answer was lost and nothing crashed, and all of
prekey_maint but PublishedHasRow for one top-up at a time; PreKeyStarved.cfg,
PreKeyLostAnswer.cfg, PreKeyCrash.cfg and PreKeyRace.cfg show the rest.

Bounds. Two Sends are needed for a response to reach the wrong call, two Closes
for one to meet another; one frame in flight suffices as each frame is handled
before the next. Three dials let a reconnect be lost, won and lost again; the
Duration has 6 bits so that the cap (20) and the overflow are a few doublings
away: base 7 overflows at the third doubling, so MaxAttempt 3 is past it. Two
connections and a channel of one give redelivery, two goroutines with the same
envelope and a full channel; one Bot.Close suffices, as more of them are covered
by the proof of ClosedOnce. Two devices and registration ids give missing, extra
and stale devices in all combinations, and two callers with one change and one
fault are enough to reach the dead end. Batches of two with a threshold of two
need a top-up after every message, and ids up to 8 are used up after three
batches. Two revisions and pages of one make a sync of two pages that is
overtaken between them, and two calls make one slow. A second account is enough
for a change to be someone else's, a third for a fan-out to break off half-way.
In group_change the logs carry no states, so that a sync of the one page also
makes the nested fetch, whose refusal is the case that matters to a change; both
kinds of logs are covered by group_sync and the proofs. Its VIEW leaves out what
no step and no property reads any more: the registers of calls that returned,
revisions that are not to be checked again, and at the last revision, where
nothing more is accepted, all of a change but how it will be refused. Two Links
let the second meet what the first left behind; a single frame and a poll of two
chunks reach every branch of the import and of the timeouts. Two manifests and
two pools let a sync be overtaken and meet a key it does not have; two profile
keys let a slow call meet a newer one (manifests carry the second, the archive
the first); calls about single contacts are explored on an account without a
pool, where no sync interferes, as a sync writes those caches just as an inbound
message does. Five events run the wizard's three stages with a command or
cancellation between, and four refusals use up both retries. The timers of
groups are {0} in the runs and {0, 1} in GroupTimer.cfg.
Symmetry is used in safety runs only. Deadlock checking is off where the system
may stop (everything closed, ids or bounds used up).

Fairness. Goroutines that can run do run (weak fairness of their steps); timers
fire and dials return. Callers need not call Close, Send or Run; the server need
not answer. Where a liveness property is about recovery, the environment is
assumed to help: a server that stays reachable accepts a dial at last (strong
fairness of DialOk, as dials are retried), pushes what it holds while connected,
a cooldown ends, and a message under way is delivered. RecoversOrDeadEnd assumes
callers that keep sending. SyncFairSpec lets every call go on or fail (weak
fairness) and the dispatcher start its goroutine for an update (strong fairness,
as the model's goroutines are few and reused; Go's are not). LifeFairSpec is
weak fairness of a running Link and of each sync; the primary need never write,
scan or answer. BotFairSpec is weak fairness of each runner; cancellation need
not come.

## Disagreements

Where the code and its comments, docs or an evident intention part, the property
that states the intention is refuted by TLC. The configuration is named before
the property; where it is that of a run, the property takes the place of the
run's own:

* `ChatBackoffPanic.cfg` (NoPanic): `time.Duration(float64(base) * 2^attempt)`
  is out of range from attempt 34 on. With the conversion of amd64 it becomes
  negative, passes the cap, and `rand.Int64N` panics: an outage of about half an
  hour ends the process (`internal/chat/connection.go:299`, "capped exponential
  backoff"; `docs/adr/0010-phase-3-receive.md:119-120`, "60s thereafter"). It is
  the run chat_backoff_panic.
* `ChatConnection.cfg` (CloseLeavesNoClient): Close between connectOnce's dial
  and its store leaves a connected client behind (`connection.go:158`).
* `ChatConnection.cfg` (OneConnection): after an undecodable frame the old
  connection stays open while the next is dialled and beyond
  (`internal/ws/client.go:283-287` and 155-158).
* `EventStream.cfg` (NoStreamPanic): Client.Close closes Events without
  waiting for the envelope goroutines; one that emits afterwards panics
  (`pkg/signal/client.go:305`, "Blocks until teardown completes").
* `SendCacheRace.cfg` (SendRecovers, two callers): a discovery that finishes
  late stores its old device list over a repaired one; the session of the
  removed device is gone, so every later Send stops at that device's 404
  (`docs/adr/0014-send-retry-fanout.md:50`).
* `PreKeyRace.cfg` (HandedOutDecryptable): two top-ups at once use the same ids
  and overwrite private keys whose public halves are published
  (`internal/prekeymaint/upload.go:25`).
* `WsCloseLeak.cfg` (CloseTearsDownConnection): after an undecodable frame the
  read loop sets `closed` without closing the connection, so Close returns
  early ("Close tears down the connection", `internal/ws/client.go:152`).
* `EventStream.cfg` (ReplayFailsClosed): a redelivered envelope is decrypted
  twice by goroutines that loaded the same session record (`ROADMAP.md:259`,
  replayed envelopes "fail closed").
* `EventStream.cfg` (RunSeesConnectionEnd): when the context given to
  Open ends, Run waits for ever (`pkg/bot/bot.go:221`, "non-nil on transport
  failure").
* `EventStream.cfg` (LateRunDispatchesNothing): Run after Close dispatches what the
  channel still holds (`pkg/bot/bot.go:205`, "return immediately").
* `SendStuck.cfg` (SendRecovers, one caller, two changes): a failed 410 repair
  followed by the device's removal, the same dead end as SendCacheRace.
* `CooldownCleared.cfg` (CooldownRespected): an answer that was under way when
  the 429 came clears the cooldown (`pkg/signal/client.go:154`).
* `PreKeyLostAnswer.cfg`, `PreKeyCrash.cfg` (HandedOutDecryptable): an applied
  upload whose answer is lost, or a crash before SaveAccount, make the next
  batch reuse published ids (`internal/prekeymaint/upload.go:25`).
* `PreKeyStarved.cfg` (ServerReplenished): keys persisted by a top-up whose
  upload failed are counted as available, and no later top-up uploads anything
  (`internal/prekeymaint/maintain.go:57`).
* `GroupSendRace.cfg` (SentDecryptable, two calls): both find no sender-key
  record; the chain stored last was distributed by one of them only.
* `GroupSend.cfg` (AllSentDecryptable): notifications of changes are sent
  without distributing the sender key; who joined since the last text cannot
  read them.
* `GroupChange.cfg` (NoticeMatchesChange): a notification names the
  revision of the second fetch, which may be a later change of someone else.
* `GroupChange.cfg` (ChangeStaysCached): an auto-sync whose logs were pruned
  deletes the revision a change has just cached
  (`pkg/signal/group_revision.go:56-62`), and so does the LeaveGroup of an
  account that has joined again since its PATCH
  (`pkg/signal/group_modify.go:35-37`).
* `GroupTimer.cfg` (TimerFollowsGroup): FetchGroup does not clear the cached
  timer of a group that switched it off (`pkg/signal/group.go:139`;
  `CHANGELOG.md:75`, "populates the client's internal timer cache
  automatically").
* `DeviceLifecycle.cfg` (SyncConverges): of two syncs that overlap the older one
  may commit last.
* `DeviceLifecycle.cfg` (EnsureKeepsKey): ensureRecipientUAK writes back the key
  it read before it released the lock, over a newer one.
* `DeviceLifecycle.cfg` (StoredIsLastSync): Open loads the imported lists
  after it has connected (`pkg/signal/client.go:273-287`), over those of an
  auto-sync that is already through.
* `DeviceLifecycle.cfg` (WaitsForPrimary): web.Client's timeout of 30 s ends the
  five-minute long poll (`internal/web/transfer_archive.go:42-50`).
* `DeviceLifecycle.cfg` (AllPublishedHeld): PNI prekeys are uploaded with no store
  (`pkg/signal/link.go:185`; the comment at 166 says otherwise).
* `DeviceLifecycle.cfg` (SavedAccountHasKeys): a crash between SaveAccount
  (`link.go:204`) and persistSignalStoreKeys leaves an account that opens and
  cannot decrypt first messages.
* `Bot.cfg` (CancelEndsWizard): wizard-bot's usage says "/cancel cancel
  active wizard", but its step handlers are registered first and answer every
  text that begins with a slash.
* `Bot.cfg` (WelcomeComplete): the middleware runs the confirm handler
  again after it has deleted the fields, and the welcome has no name.
* `BotTwoRuns.cfg` (WizardConsistent, two runners): two calls of Run interleave
  inside a handler.

Read in the code and not turned into a property: `link.go:64` says a count of 0
skips the upload, it means the default of 100, and a negative one is rejected
only after the device is registered (`link.go:169`); OpenFromStore passes no
BackupImportStore; handleDataMessage returns at a reaction before it takes the
timer and the profile key; SyncGroup stops silently after 256 pages;
CreateGroup does not cache the timer; a join request that needs approval is
applied and then reported as an error, as its FetchGroup is refused; LeaveGroup
leaves the persisted distribution id; a storage sync that meets a new entropy
pool before the message that brings it fails and is not repeated.

## Proofs

Every theorem is for all values of the constants. The assumptions on constants
are the ones named in the modules; TLC evaluates them in the runs.

* **WsClientProofs**. WsInv adds to the properties that ids are handed out once
  (IdsUnique), that everything carrying an id carries its call's own (IdsOwned),
  that a buffered answer is the call's own and only registered channels get
  closed (ChannelsOwned), and that a late call is refused (LateCallsRefused).
  ResponseMatchesRequest alone is not inductive: it depends on what is on the
  wire. WsRefinesRpc proves each step to be a step or a stutter of RpcChannel.
* **EventStreamProofs**, the chat connection. LiveAtPc says which client can be
  reading at each point of runLoop, ExitFacts what holds once the loop is over.
  OneReader, CancelLeavesNoReader and NoReconnectAfterClose follow. DelayCapped
  needs no condition on the attempts: an overflow that becomes the least integer
  panics before there is a delay (LeastPanics), one that becomes the greatest is
  capped (DelayBounds). TLAPS has no theory of `2^n`; the facts used are the
  assumption PowersOfTwo.
  The stream: StreamImplementsChat shows that the composition takes
  only ChatConnection steps on its variables, so ChatInv carries over.
  ReplyAfterOut (a goroutine at its reply has emitted) makes AckedAfterEmit
  inductive; CloseGuarded makes ClosedOnce inductive.
* **SendPipelineProofs**. PutsCounted ties the number of PUTs to the program
  point; DeviceInHand is needed for the types of the bundle loops. All theorems
  are for any number of concurrent Sends.
* **PreKeyProofs**. PreKeyTypeCorrect and PreKeyRows hold for any number of
  concurrent top-ups, lost answers and crashes. PreKeyRows needs that a batch on
  its way to the server has its rows; which key is in them is another matter.
  The other three theorems have the condition `[]OneTopUp` on the run: no two
  goroutines are inside a top-up at the same time. The code does not ensure it,
  and TLC refutes all three properties on the instance of PreKeyRace.cfg. Any
  number of goroutines may decrypt messages and count keys during the top-up of
  another; ForeignToBatch shows that such a message does not name a key of the
  batch.
  PreKeyKyberIDs rests on CountersTogether: the two counters part only between
  the two assignments, also across crashes. PreKeyPublished (as long as no answer
  was lost and nothing crashed) rests on IDsFresh (ids from the counters on are
  unpublished) and BatchReady (a batch is stored before it is uploaded);
  PreKeyLostAnswer.cfg and PreKeyCrash.cfg show that each condition is needed.
  PreKeyInventory (nothing failed) is InventoryAccurate made exact at every
  program point: the local pools are what the server has or handed out and the
  batch on its way there (ExactEC, ExactKEM). That a message takes just its own
  keys out of the pools needs the server to hand a key out once (HandedOutOnce,
  KyberOnce); that a stored batch only adds to them needs IDsFresh.
* **GroupProofs**, GroupSync. SyncInv adds to the types and CacheNotAhead that a call
  about to fill the caches has a snapshot in hand (InHand; without it None could
  be stored) and that advertised revisions exist. CacheForgetsOnlyOnRefusal
  follows from storeGroupRevision's maximum and the type of what is stored; the
  refusal is any 403 an auto-sync meets.
  CallsNotStale needs StaleInv: the cursor of a call that pages through the log
  is as many pages past its start as it has read, and what it has in hand
  afterwards is as new as the group was when it began, or a whole window on.
  GroupChange: ChangeInv says per call what it has in hand. HandOK: the state a
  change was checked on is one the group had. BuiltOK: a PATCH carries the
  revision after it and was permitted by it; as the service accepts only the
  successor of its newest revision, an accepted change was permitted by its
  predecessor, which is ChangesAuthorised. AppliedOK ties the applied revision
  to the second fetch and the notification. ChangesCached has two halves: only
  FetchGroup's own step leaves the second fetch (OnlyFetchGroupLeaves), and only
  a deletion lowers the cache (OnlyClearsLower). All four theorems hold for any
  number of concurrent changes and auto-syncs.
* **GroupSendProofs**. GroupSendTypes is for any number of deliveries at once.
  TextsDecryptable and IterationsNotReused are for one at a time (OneCall;
  GroupSendRace.cfg shows why). KeyInv: two distribution ids never share a chain
  and every message used an iteration before the stored one (StoreOK); what the
  delivery has loaded is what is stored, and the key its distribution message
  carries is the one it encrypts with (TipKnown); every member it does not have
  to provide any more holds that key (Distributed). A fan-out that breaks off, a
  forgotten distribution id and a restart all lead back to such states.
* **DeviceLifecycleProofs**. LinkInv says per program point of Link what is on
  the server and on disk; PublishedHeld depends on the store step preceding the
  upload, also in the second Link over the first one's stores. UAKInv is
  UAKFollowsKey with the types of the keys in hand. ListInv says that a manifest
  in hand that is the newest has not lost records (FreshInHand): only so is a
  commit at the current version complete, though older ones may not be.
* **BotProofs**. TurnInv counts sends and accepted replies per program point:
  before another send nothing was accepted, as only a refusal leads there.
  WizardInv is proved for one runner (OneRunner); BotTwoRuns.cfg shows that the
  condition is needed. PollInv corrects each tally by the vote taken back and
  the vote counted and not yet noted; with a finite set of users the cardinality
  of the voters then moves by one as a vote is noted. That decrement never meets
  a tally of zero is part of it.

Only model-checked: the liveness properties (ShutdownCompletes, CloseReturns,
Reconnects, RunReturns, AllAcked, RecoversOrDeadEnd, SmoothlyReplenished, CatchesUp,
SyncCatchesUp, HandshakeEnds, CancelEndsRun), as the prover has no fairness or
ENABLED. Every invariant and action property of the runs is a theorem.
LifeTypeOK and BotTypeOK document the variables and hold as invariants of the
runs' configurations; they are not proved.

## Not modelled

Cryptography (libsignal, the provisioning, attachment, profile, storage, backup
and device-name ciphers), wire formats, JSON and generated protobuf code (three
fifths of the lines of the repository's Go code), logging, TLS, the command
line and tools, attachments and contact discovery, which are sequences of
requests without state, the group-crawler and the stateless examples. This is
also why the definitions cover a small share of all lines: what is left out has
no state that two steps could disagree about.

In the modelled parts: the choice between sealed and basic delivery and the
certificate cache; SaveAccount calls outside the maintainer, Link and the
entropy pool; the memory store's differing treatment of used Kyber keys; a peer
that fetches a bundle and never writes; a Link without key stores (it stores
nothing, and LinkedHasACIKeys assumes they were given); trust on first use of
identities; typing indicators, edits, receipts and attachments of the bot. The
order in which events of one sender appear is not promised by the code and not
checked. A client is opened after an undisturbed first Link only; what disturbed
ones leave on disk is covered by the properties of LinkDevice.

## Status

Done: websocket client, chat connection, event stream, send pipeline, prekey
maintenance, group state, changes and sending, profiles, storage sync, linking,
bot; every safety property of the runs proved. Worth adding:

1. Type theorems of DeviceLifecycle and Bot.
2. An abstract specification of the send pipeline (at-most-once delivery) and
   its refinement, and one of a group's cache as a lagging reader of its log.
3. Sealed-sender selection with fallback, over ProfileCache; trust on first use.
