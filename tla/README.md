# WhatsMiau in TLA+

Specifications of WhatsMiau, a gateway between an HTTP API and WhatsApp written
in Go, with their model-checking configurations and their proofs. Paths are
relative to the root of the repository; `whatsmeow` is the client library the
gateway uses, which is not part of the repository.

## 1. The system

### Components, their state and their operations

| Component | State | Operations | Source |
|---|---|---|---|
| Session life cycle | the concurrent maps `clients`, `qrCache`, `observerRunning`; the client objects; the SQL device store | `LoadMiau`, `Connect`, `observeConnection`, `PairPhone`, `Logout`, `Disconnect`, `Status` | `lib/whatsmiau/whatsmeow.go`, `server/controllers/instance.go` |
| Instance repository | one JSON record per instance in Redis | `Create`, `Update`, `List`, `Delete`, and the read-modify-write around them in the handlers | `repositories/instances/redis.go`, `server/controllers/instance.go` |
| Instance cache | `instanceCache`, one expiry goroutine per stored entry | `getInstanceCached`, `InvalidateCache` | `lib/whatsmiau/event_emitter.go` |
| Event pipeline | handler semaphore, `emitter` channel, the emitter goroutine and the response bodies it has not closed | `Handle`, the ten event handlers, `emit`, `startEmitter`, `EmitConnectionEvent` | `lib/whatsmiau/event_emitter.go`, `helper.go` |
| Message conversion | none | `canIgnoreGroup`, `convertEventMessage` and the other `convert*`, `parseWAMessage` | `event_emitter.go`, `models.go` |
| Automatic receipts | timers | `SendDeliveryReceipt`, `SendReadReceipt` | `event_emitter.go`, `whatsmeow.go` |
| Media | pooled buffers, the worker pool's queue and workers | `ProcessMedia`, `ProcessAudio`, `download`, `SubmitWithContext` | `lib/converter/` |
| Sending messages | none of its own | `SendText`, `SendAudio`, `SendImage`, `SendVideo`, `SendDocument` | `controllers/message.go`, `lib/whatsmiau/send.go` |
| Status posts | none of its own | `SendStatusText`, `SendStatusImage`, `SendStatusVideo`, `SendStatusAudio` | `controllers/status.go`, `lib/whatsmiau/status.go` |
| Chat endpoints | the goroutine of a delayed presence | `ReadMessages`, `SendChatPresence`, `NumberExists` | `controllers/chat.go`, `lib/whatsmiau/whatsmeow.go` |
| HTTP plumbing, environment, storage, logging | none | routes, authentication, connections | `server/`, `env/`, `services/`, `lib/storage`, `lib/logger` |

### How they interact

* A request to connect maps a client object to the instance id, starts an observer
  goroutine for it and polls `qrCache` for the code that the observer stores. The
  observer ends with the login, with the end of the QR channel or after two
  minutes, and on a login writes the account (`RemoteJID`) into the record.
* Records in Redis and devices in the SQL store outlive the process. `LoadMiau`
  joins them by `RemoteJID`, and deletes the devices that no record names, without
  looking at whether that works.
* The library calls `Handle` for every event. The handler reads the instance
  through the cache, decides by its settings, and puts items into a channel that
  one goroutine drains with HTTP requests.
* A message from somebody else starts two more goroutines when the instance reads by
  itself: a delivery receipt at once and a read receipt after a delay, each through the
  client the instance has by then.
* A request that sends media checks the number, shows itself composing, loads the
  client of its instance, downloads into memory of a shared pool, shares the workers
  with other requests, uploads and sends. A presence with a delay leaves a goroutine
  behind that is to take it back.

### What is hard, and what makes each component correct

Nothing in the program is transactional. Two accesses to a map, two commands to
Redis, or a check and the use of what was checked are always separated by a point
where other goroutines run; goroutines outlive the requests that started them; the
process may end anywhere. The correctness of the parts is therefore this:

* sessions: one observer per instance and a guard that never stays behind, codes
  that are cleared, no account in the hands of another instance, the three views
  of a session (client, device, record) consistent over a restart;
* repository: a request works on values that its record had while the request was in
  flight, and on no other record; no writer undoes another, which the code does not
  achieve when two of them overlap;
* cache: never stale for good, never without an expiry;
* pipeline: nothing twice, nothing stuck, everything that is wanted and can be
  converted delivered, receipts independent of the webhooks;
* sending: every task is run once, workers come back, every request is answered, with
  its own bytes; the bars of a voice message follow the samples they are drawn from; one
  chat that fails does not keep others from being marked; a presence is taken back.

`PROJECT.json` lists the single hazards at their lines.

## 2. The modules

| Module | What it is |
|---|---|
| `Accounts` | abstract: an account is linked to one instance, held, recorded, and brought back by a restart |
| `Session` | the session life cycle, with the library, the network, crashes and restarts |
| `SessionProofs` | type correctness, exclusive observers, codes have observers |
| `SessionIsolation` | accounts stay with their instance |
| `SessionStore` | clients, devices and records agree, handlers are put back, a restart keeps what is recorded; the whole implements `Accounts` |
| `InstanceRecord` | the record and the requests about it, shared by the next two |
| `SnapshotRepo` | abstract: however requests overlap, each works on values its record had while it was in flight |
| `InstanceRepo` | the repository and its callers, one Redis command per step |
| `InstanceRepoProofs` | type correctness; implements `SnapshotRepo`; `UpdateWebhook` keeps the other settings of a record that nobody else changes meanwhile |
| `InstanceCache`, `InstanceCacheProofs` | the cache of one instance; type correctness, expiry, the end of old entries |
| `Conversion` | operators only: what becomes of one event |
| `WebhookFeed` | abstract: what a webhook may rely on, one feed of notices that ends with the first failure |
| `EventPipeline`, `EventPipelineProofs` | from the library's event to the webhook, with the receipts; type, no duplicates, implements `WebhookFeed` |
| `Waveform`, `WaveformProofs` | operators only: the bars of a voice message, and that they follow the samples |
| `TaskService` | abstract: what a request may rely on when it hands a conversion to the worker pool |
| `Media` | the actions of the converter: pooled memory, worker pool, cancellation |
| `Outbound`, `OutboundProofs` | all requests that reach WhatsApp, composed with `Media`; type, tasks, the pool implements `TaskService`, read marks |
| `MC...` | definitions that the TLC configurations of each module need |

The abstract modules `Accounts`, `SnapshotRepo`, `WebhookFeed` and `TaskService` stand for
no code of their own: each is what one component promises to the next, and a property
`Refines...` of the component says that it keeps the promise.

`EventPipeline` EXTENDS `Conversion`; `Outbound` EXTENDS `Media`, and has the
specification for both. `Waveform` stands alone.

### Session

The variables `clients`, `qrCache` and `observerRunning` are the maps of
`Whatsmiau`; `devices` is the SQL store; `repo` keeps of each record only whether it
exists and its `RemoteJID`. A client object has the instance it was created for
(`home`, used by properties only), its identity (`client.Store.ID`), its link and
whether it has a handler. `req[r]` is a handler and `obs[r]` the observer that it
started; `at` names the statement that is next. Each action is what happens from
one access of shared state to the next: `Load` is `clients.Load`, `ObsRelease` and
`ObsClear` are the two deletions of the deferred function, in the order of the code,
`ObsList` and `ObsSet` the two Redis accesses of `repo.Update`.

What the library does is taken from the calls the code makes on it: a QR channel
offers codes, then one other event, or is closed (`EmitCode`, `QrEnd`, `QrClose`);
a phone may accept a shown code while the connection is open and no phone has
(`Shown`), and the identity is saved before the client logs in again (`PairSuccess`,
`Reconnect`, `Authenticated`); links break (`NetDrop`); the phone may remove the
device (`RemoteLogout`); `client.Logout` needs a login and deletes the device
(`LogoutOk`). A client whose connection breaks after its login is still logged in to the
library (`link` is "lost"), which is when `Status` says "connecting". `Crash`
loses everything but `repo` and `devices`; `ObsPanic` is the same, caused by a nil identity at `whatsmeow.go:219`; `Boot` is `LoadMiau`, which drops
the error of `DeleteDevice`, so that any of the devices no record names may stay in the
store without a client. All calls that can fail do so in a disjunct of their action.

`heldBar` maps the client objects to `Accounts`: an instance holds the identities of the
objects that were made for it, mapped or not. `PairSuccess` is `Link`, a successful
logout from any side `Unlink`, the three writers of records are `Write`, `Crash` and
`ObsPanic` are `Stop`, `Boot` is `Start`, which leaves some of the devices that nobody
holds, or none, and everything else, the making of a client and
all that concerns codes, links and handlers, changes nothing there.

### InstanceRecord, SnapshotRepo, InstanceRepo

A record is a function from groups of settings that are always read and written
together to values, one of which is the zero value that Go cannot tell from an
absent one. `InstanceRepo` follows `List` (SCAN, MGET) and SET or DEL step by step;
`UpdateWebhook` has two more steps because it lists first (`ScanCurrent`, `Get`).
`Merge` is the merge of `Update`. Nothing keeps two callers of one instance apart.

`seen[p]` is a history variable: the values the record has had since `p` called, up to
its answer. `SnapshotRepo` has it too, and says with it what a request may depend on: a
create takes effect only if the record has been absent, a change or a delete only if it
has been there, and the groups a change was not asked for come from one such value, or
for `UpdateWebhook`, which reads twice, each from some such value. `pendingBar` maps the
callers to its pending requests: `Set` is `Apply`, every early return and `Fail` are
`Refuse`, and the reads change nothing there.

### Conversion

An event is a record of its kind, whether it concerns a group, whether the user sent it,
and `about`, which abstracts its content to what the `convert` functions decide by: the
parts of a message, the type of a receipt once for every message it names, the places a
name is looked for in, the entries of a history. There is one operator per function,
`ConvertsMessage`, `ConvertsHistory` and so on, that says whether a payload is made.

### EventPipeline

`<<i, n>>` is the n-th event of instance `i`, `<<i, 0>>` the connecting notification
of `LoadMiau`, which holds no slot of the semaphore. `Dispatch` chooses the event.
`Route` is the lookup, the switch of `Handle` and the tests at the head of the
handlers; where `AutoRead` holds it starts both receipts. `Convert` is the conversion,
for which there may be no client. `Targets` says to which webhooks the kind is
emitted and has the three handlers that do not ask for an URL. `Emit` sends one item
and blocks when the channel is full. `Receive`, `PostOk` and `PostFail` are the loop
of `startEmitter`; after `PostFail` it is gone. `open` counts the response bodies whose
`Close` is deferred to the end of that loop: when no connection is left, the next
request fails. `SendDeliveryReceipt` and `SendReadReceipt` are the two goroutines of a
message; the second waits for its timer. The settings of an instance do not
change in this module; how long they may be old is the subject of `InstanceCache`.

`dueBar`, `closedBar` and `waitingBar` map this to `WebhookFeed`: a notice is due from the
moment the payload is made, an event is closed when its handler has ended, and what is
being posted is still the head of what waits. `Convert` is `Accept`, `Emit` is `Publish` and,
like `Route` and `Convert`, `Close` where it ends the handler; `PostOk` is `Deliver` and
`PostFail` is `Break`.

### InstanceCache

One instance, whose record is named by its version. `Load`, `Scan`, `Get`, `Store`,
`Arm` are the steps of `getInstanceCached`, `Expire` is the end of some timer. `WriteWebhook`
and `InvalidateCache` are the two steps of `UpdateWebhook`; `Write` and `Delete` are
the writers that leave the cache alone.

### Media, Waveform and Outbound

A slice is the array it lies in; `bytes` says whose file an array holds, or that it
is being written. `Download` takes a buffer and starts to overwrite its array;
`Copied` ends in the same array or, when the file did not fit, in a new one, returns
the slice and gives the buffer back. `Submit` is the `select` of `SubmitWithContext`,
with the goroutine it starts when the queue is full; `Work` and `WorkAlone` read the
input when the conversion runs, not when it was submitted. `ConvertToOpus` reads it
three times, outside the pool, as `ProcessAudio` does, though for the duration the
bytes do not matter to the model. `waitingBar`, `openBar` and `resultBar` map the pool to
`TaskService`, which knows no queue: a task is open as long as it is in the queue, at a
worker or in a goroutine of its own, so that `Take` changes nothing there.

`Waveform` has the arithmetic of the bars: `Level` turns a byte into a level, `Peak` is
the loop over one bar, and `Waveform(raw)` the loop over all bars, with the repetition
of the bar before when one has no samples. It has no state and no part in `Outbound`:
its correctness is that of a function, `BarsShowAmplitudes`, and nothing is said there of
whose samples they are, which is the question of `OwnMedia`. `MCOutbound` assumes
`BarsAreRight`, so that TLC evaluates it before the runs of that module.

A request of `Outbound` is one run of a handler. `kind` is one of five messages, four
status posts, a presence or read marks, and `at` the call that is next: binding and
`numberToJid` (`Start`, `IsNumber`), the composing presence (`Presence`), the client and
the file (`Load`, `Fetch`, or `Download` of `Media`), the conversion, `Upload` and
`SendMessage`. `Mark` is one turn of the loop over the chats of `ReadMessages`. `Pause`
is the goroutine of a delayed presence. It asks its `echo.Context` for the request only
when it runs, and echo hands the contexts of answered requests to later ones:
`Start` may take over the context of a goroutine that has not yet looked (`Recycled`).
`Answered` cancels the request's context, as the HTTP server does.

## 3. The runs

| Run | Instance | Shows |
|---|---|---|
| `session_race` | 2 instances, 2 clients, 1 identity, 2 requests that connect and log out, 1 crash | `TypeOK`, `ObserverExclusive`, `QrHasObserver`, `HandlerGap`, `AccountIsolation`, `DeviceStoreAgrees`, `RestartKeepsClaimed`, `RefinesAccounts` |
| `session_live` | 1 instance, 1 client, 2 identities, 2 requests, all operations | `QrCleared`, `ObserverEnds` |
| `session_recorded` | 1 of each, pairing code only | a violation of `LoggedInIsRecorded` |
| `repo_overlap` | 1 instance, 2 callers that overlap | `TypeOK`, `RefinesSnapshots` |
| `repo_webhook` | 1 instance, 2 callers that overlap | a violation of `WebhookKeepsOthers` |
| `pipeline_flow` | 1 instance, 2 of 4 events and the notification, 3 settings, semaphore, channel and connections of 1 | `TypeOK`, `AtMostOnce`, `WantedIsDelivered`, `ReadFollows`, `RefinesFeed` |
| `pipeline_message` | 1 instance, 2 messages, failing requests | a violation of `MessagesArePosted` |
| `cache_entries` | 2 lookups, 2 webhook updates, 3 versions, 2 timers | `TypeOK`, `EntryWillExpire`, `CacheSettles`, `StaleDiesOut` |
| `cache_stale` | 2 lookups, 1 webhook update | a violation of `AppliedAtOnce` |
| `outbound_flow` | 3 requests in 4 mixes of kinds, 1 worker with a queue of 2 | `TypeOK`, `TaskCarried`, `RequestEnds`, `WorkerReturns`, `AllChatsTried`, `RefinesService` |
| `media_own` | 2 documents, 2 buffers | a violation of `OwnMedia` |
| `outbound_pause` | 2 presences | a violation of `PauseFollows` |

### Bounds

* `Ids`, `Reqs`, `Clients`, `Jids`: two requests are two handlers and two observers,
  enough for every pairwise race of the maps, and two clients are what such a race
  creates. `session_race` has them on two instances, which isolation needs, and leaves
  to `session_live` the requests to create, pair with a code and delete; there one client
  object, used again and again, keeps the liveness checks small, and its two identities
  let it be paired again after a logout. The safety properties of both runs are proved
  for any number of each (section 4). One code per attempt (`MaxCodes`) already gives a
  code before, during and after another observer's clean-up.
* `MaxCrashes` = 1: `Boot` starts from what `repo` and `devices` hold, so a second
  crash finds nothing that a first one could not; `ObsPanic` is not bounded by it.
* Values of a group: one value and the zero value tell apart all that `Merge` asks. Keys
  do not interact in the runs of `InstanceRepo`, so that one instance is enough; its
  theorems have any number.
* `MaxSeen` = 2: nobody calls while a request in flight has seen its record take more
  than two values. A request can so be overtaken by a change, or by a delete and a create
  after it, between any two of its steps. The theorems have it as a parameter.
* `SemaphoreSize`, `BufferSize`, `MaxOpen` = 1 and `QueueSize` = 2 are below the number
  of events and tasks, so that the limits are reached.
* `Events`, `Configs` of `pipeline_flow` have an event for each way through a handler:
  with receipts, ignored as a group's or passed on and then without a payload, to the
  instance only, and without a payload for one bad entry.
* `MaxTimers` delays the start of a timer when two are waiting; timers expire under
  fairness, and `EntryWillExpire` counts a timer that is about to start.
* `Mixes` of `outbound_flow` put three tasks before one worker (one at work, two queued,
  or one beside the queue), and between them have every kind of step of a request.
  One array there: the memory plays no role for the tasks. `Numbers` has two that
  are valid and one that is not.
* `Bars` = 3 and recordings of 0 to 5 samples, for `BarsAreRight`: none, fewer than bars,
  as many, and a remainder; the bytes include both sides of the sign and of the cap.

Deadlock is checked in the runs of `InstanceRepo` and `InstanceCache`. The others stop
when the bounded events, identities or requests are used up, or when the emitter of
`EventPipeline` is gone, which the program really does.

### Fairness

* `Session!FairSpec`: weak fairness of each observer. Observers are goroutines that
  wait on channels and a two-minute timer; Go schedules them. Nothing is assumed of
  requests, of the library and of the network, not even that a code ever arrives.
* `EventPipeline!FairSpec`: weak fairness of each handler, of each receipt and of the
  emitter. Handlers only wait for the semaphore and the channel; the HTTP client has a
  timeout of 30 seconds; the delay of a read receipt is a timer. A handler that waits
  for a slot needs no strong fairness in these runs because the events are finitely many.
* `InstanceCache!FairSpec`: the lookups (whose Redis context has a timeout) and the
  timers. Writers need none.
* `Outbound!FairSpec`: handlers, workers, the extra goroutines and the pauses; transfers
  and commands have timeouts. Nobody is assumed to cancel a request.

### Where the code disagrees with what it says

Six runs end in a counterexample; `PROJECT.json` quotes the lines.

1. `session_recorded`: only the QR observer writes `RemoteJID`. A session paired with a
   code works until the next start, which deletes its device as orphaned.
2. `repo_webhook`: `UpdateWebhook` reads the record "to not overwrite other fields" and
   overwrites what was written since; it even brings back a record deleted since. The
   login observer's own update can do the latter, too.
3. `pipeline_message`: the emitter goroutine returns on the first failed request.
   Nothing starts it again: the channel fills, the handlers keep their slots, and the
   client's dispatcher blocks. The handlers and items it keeps are no more than there are
   slots; the dispatchers that wait for a slot have no bound.
4. `cache_stale`: a lookup that is under way during `UpdateWebhook` puts the old record
   back after the invalidation that should "apply settings immediately".
5. `media_own`: a downloaded file lies in memory that is already back in the pool.
6. `outbound_pause`: the goroutine that takes a presence back gives up when the context
   of its request ends, and that ends as soon as the presence is answered.

While writing the modules we met more, which the models contain but for which the
repository makes no statement a property could be compared with:

* two connects at once leave the first client running but unmapped; a QR event other
  than a code unmaps a client that is still connected;
* `events.Connected` is lost between `RemoveEventHandlers` and `AddEventHandler`
  (`HandlerGap` shows that this is the only such moment); connecting may arrive after
  open;
* three handlers emit to an empty URL, which ends the emitter; pictures of groups pass
  `groupsIgnore`; one entry with an address for a name gives up a whole history;
* response bodies stay open until the emitter ends, so that connections may run out;
* receipts are sent before it is known whether a message makes a payload;
* `{false, 0}` cannot be stored as read settings (`TypeOK` of `InstanceRepo`);
* a pause may be sent before the presence it takes back, and a pause may depend on
  another request than its own;
* read marks name their chat by the number: groups are refused by `numberToJid`, the
  `Sender` that `dto/chat.go:10` requires for them is never used, and the answer is the
  same whether marks succeed or not.

Left of the abstraction: `SendDeliveryReceipt` calls `MarkRead` with an empty timestamp;
the model has it as the delivery receipt its comment says it is.

## 4. The proofs

All theorems hold for every value of the constants that satisfies the named
assumptions: sentinels differ from the values they mark, bounds are naturals, and the
set of workers is finite.

* `SessionProofs!TypeCorrect`. `TypeOK` is inductive. Lemmas `GotoTyped`, `ReturnTyped`,
  ... give the type of the update helpers once.
* `SessionProofs!ObserversExclude`. `ObserverExclusive` is inductive given `TypeOK`: its
  first conjunct, guard set if and only if some observer is between `LoadOrStore` and
  the deferred deletion, is what makes the second one survive `ObsStart` and
  `ObsRelease`.
* `SessionProofs!QrObserved`. With exclusion, only the active observer of an id stores
  into its cache entry, and an observer that ends clears whatever is there.
* `SessionIsolation!AccountsIsolated`. `AccountIsolation` speaks of clients, records,
  identities and cached codes only and is not inductive: requests and observers carry
  clients, and observers carry an identity from `ObsList` to `ObsSet`. The invariant
  `Isolated` adds to the first part, `Separate`, that what they carry belongs to the
  instance they work for, and that an object made for no instance has no identity. The
  part about codes follows with `QrHasObserver`: whoever stored a code still carries the
  client it pairs, which is one of its own instance.
* `SessionStore!StoreAgrees`, `HandlersPutBack`. What a start failed to delete stays in the
  store without a client, so that the store is not simply the identities of the clients.
  `StoreInv` says that it contains them, that everything in it once had an owner, so that
  no phone brings it again, and that the rest is `Unnamed`, by records and by observers
  that are about to write one. `Recorded` adds `CodeUnpaired`: a client that shows a code
  has no identity. Without it `PairSuccess` could overwrite an identity whose device
  stays in the store and is still to be recorded.
* `SessionStore!RestartKeepsDevices`, an action property about `Boot`. It needs that while
  the process is down there are no client objects (`Down`), so that `Boot` alone decides
  which devices stay; those it fails to delete are not among the ones it must keep.
* `SessionStore!AccountsLive`, the refinement of `Accounts`. One lemma per way the held
  accounts can change (`HeldSame`, `HeldLess`, `HeldMore`) says what a step does to
  `heldBar`; all steps but pairing, start-up and the end of the process are then a record
  written or at most one client logged out. `HeldLess` needs that no two clients have one
  identity, `Link` needs `CodeUnpaired`, `Write` that an observer records what was linked
  to its instance, and `Start` that at most one record names a device: the parts of
  `Isolated` and `Recorded`. `Start` leaves what the failed deletions of `Boot` leave.
* `InstanceRepoProofs!RepoTypeCorrect`, `OverlapsAreSnapshots`. The refinement needs what a
  caller has in its hands: `SeenWhile` says that the record is one of the values a request
  has seen, and so are `old`, which it is about to merge with, and the record that
  `toUpdate` of `UpdateWebhook` was made from. From this invariant every `Set` is an
  `Apply` of `SnapshotRepo`. Nothing is assumed of the callers.
* `InstanceRepoProofs!UndisturbedWebhookKeeps` draws from the same invariant that what
  `repo_webhook` refutes holds for each single request whose record had one value from
  the call to the SET: a change by somebody else meanwhile is all that is wrong with
  `UpdateWebhook`.
* `InstanceCacheProofs!CacheTypeCorrect`, `EntriesExpire`. An entry comes only from
  `Store`, after which its goroutine is about to start, and the entry is cleared by
  whichever timer fires first. Inductive given `TypeOK`.
* `InstanceCacheProofs!StaleEntriesDieOut`, an action property and the safety that
  `CacheSettles` rests on: while the record stays the same no lookup turns late, and each
  late one can spoil the cache once. It needs of `TypeOK` only the types.
* `EventPipelineProofs!PipelineTypeCorrect`, `DeliveredOnce`. The second adds `NotYet`: a
  handler that has not come to `emit` has no item anywhere, so that the set `Convert`
  computes is fresh.
* `EventPipelineProofs!PipelineIsFeed`, the refinement of `WebhookFeed`. The invariant
  `Promised` ties the mapped state to the places of the items: what is due is either out
  (waiting, being posted, delivered or failed) or left in the list of its handler, never
  both, and the item for the instance leaves that list first; only a wanted event reaches
  the conversion, and nothing is posted when the emitter is gone. It is inductive given
  `TypeOK`.
* `OutboundProofs!OutboundTypeCorrect`. A request that reads its input has an array; this
  is no part of `TypeOK`, which says that it has one or none, and is added as `Ready`.
* `OutboundProofs!EveryTaskCarried`. `TaskCarried` speaks of tasks that exist; the
  invariant `Carried` adds that a request before `Submit` has none, neither in the pool
  nor as an answer, so that the task it submits is the only one.
* `OutboundProofs!PoolIsService`, the refinement of `TaskService`. By `Carried` a task is in
  one place at most, so what takes it from there takes it out of the pool, and a request
  that hands one in finds no task and no result of its own.
* `OutboundProofs!NoChatPassedOver`, an action property, from the actions alone.
* `WaveformProofs!BarsAreFaithful`: `BarsShowAmplitudes` for all recordings, the empty one
  included, and all numbers of bars. The arithmetic is in
  `LevelIsAmplitude`, `BarsAreConsecutive` and `RemainderIsShort`. That the recursion over
  the bars computes the bars at all is an induction, which the provers cannot take from the
  library as its theorem has an operator for a parameter. It is done here by a least
  counterexample instead: `WFMin` and `NatLessThanWellFounded` give every set of numbers
  that is not empty a least element (`LeastNatural`), from which follow the maximum of the
  samples of a bar (`Highest`) and that the equation of the recursion has one solution
  (`LoopUnique`), the bars that are filled from the last bar with samples (`Filled`).

Only model-checked: liveness (`QrCleared`, `ObserverEnds`, `WantedIsDelivered`,
`ReadFollows`, `CacheSettles`, `RequestEnds`, `WorkerReturns`), because it needs ENABLED,
which the prover does not handle. Every other property of a passing run is a theorem.
Of the invariants the proofs add, `Promised`, `Carried`, `SeenWhile` and `Recorded` were also
checked with TLC on the instances above.

## 5. Not modelled

* The field by field translation of messages (`parseWAMessage`, contexts, `models.go`),
  `GetJidLid` and `NumberExists`: sequential code without state. `Conversion` keeps when
  they give nothing.
* Colours, mime types, file names and captions of what is sent; the arithmetic of
  durations, which become sleeps and timers.
* `WorkerPool.Stop` and `ConverterService.Shutdown`: nothing calls them. Neither is
  `shutdownChan` ever closed, which is why no module has a shutdown.
* Temporary files and picture bodies that are not closed; a temporary file that cannot
  be created ends the process, which `Session` has as a crash at every step.
* Routes, authentication, binding, logging, storage, configuration.
* Glob characters in instance ids, which `List` hands to SCAN as a pattern.

## 6. Plan

Sessions came first, then the records they share with the endpoints, the way of events
with their receipts, and everything that is sent. What is left:

1. A module that composes `InstanceRepo` and `InstanceCache` with the settings the
   pipeline uses, shown to implement a cache that is at most so many writes old.
2. The composition of `Session` and `Outbound` at `clients.Load`: which session a request
   or a late receipt speaks through when the client was replaced since.
3. `Stop` of the worker pool, once something calls it.
