# TLA+ specifications of miniapp-bridge

miniapp-bridge connects a WeChat mini program, which speaks the WMPF debug
protocol, with Chrome DevTools. This directory models the parts of it whose
correctness depends on concurrency, failure and order. TLC checks each module on
a small instance; TLAPS proves the central safety properties of the request path,
the service, the contexts, the native session and its runtime, and the recorder
for every value of the constants. `PROJECT.json` lists the runs, the code each
definition stands for, the hazards the properties are for, and the findings.

    tlc -workers 2 -config Ownership.cfg Ownership.tla
    tlapm OwnershipProofs.tla

Paths below are relative to `src/`.

## The system

| component | code | state | operations |
|---|---|---|---|
| Connection ownership | `internal/app/hardening.go`, `app.go`, `internal/proxy/hub.go` | per endpoint (upstream, CDP): `owner`, `claimed`, `generation`; the hub's client | reserve, upgrade, install, read, release, finish release, hub drop, `App.Close` |
| Request routing | `internal/app/app.go`, `generation_fence.go`, `internal/cdp/correlator.go` | pending requests by (owner, generation, id); response fences; the automatic `Runtime.enable` | send, respond, expire, cancel, drain, fence |
| SDK requests | `sdk/service.go` | `pending` (one channel per id), `upstreamOnline` | `Send`, `SendRaw`, `observeCDP`, `observeConnection`, time out, shut down |
| SDK lifecycle | `sdk/service.go` | `state`, `stopRequested`, done channels, the app's recorder, the native session | `Start`, `Close`, the lifetime goroutine, `StartRecording`, `StopRecording` |
| SDK health | `sdk/service.go` | `health`, `recoveryGeneration`, `recoveryActive` | observers, runtime errors, recovery attempts |
| Native session | `sdk/target.go`, `sdk/native_starter_windows.go`, `internal/frida/native_windows.go`, the C shim | session, script, callback owners, message and control queue | attach, detach, close, callbacks of Frida, the queue goroutine |
| Capture | `internal/capture` | queue, open file, file number, lock file | `WriteFrame`, `Close`, rotate, publish, retain, replay |
| Contexts, subscriptions | `internal/context`, `app.go` | contexts per generation, the selected one, a controller's subscriptions | context events, `SelectContext` |
| Outbound queues | `wsClient` in `app.go` | bounded queue of batches, in messages and bytes | `SendBatch`, write, close |
| Event subscriptions | `eventBus` in `sdk/service.go` | subscribers, bounded channels | publish, subscribe, close |
| Native runtime install | `internal/native`, `sdk/native_starter_windows.go` | cache directory (manifest, DLL, file lock), leases on the DLL | verify, extract, replace, restore, load |
| WMPF protocol, process discovery, configuration, command line, agent, scripts | `internal/wmpf`, `internal/process`, `internal/version`, `cmd`, `frida`, `scripts` | none that outlives a call | pure functions and I/O |

How they interact. Two HTTP servers run a goroutine per connection. Each reader
checks that its client owns the endpoint and then handles frames under
`dispatchMu`, where routing, fences, contexts and the hubs are touched. The app
calls the SDK's observers (`observeCDP`, `observeConnection`,
`observeRuntimeError`) synchronously, but the loss of a connection is observed
after the endpoint has been released, so it may overlap with the next
connection. The SDK takes `s.mu` for each small step and calls the app outside
it; `resourceMu` orders attach, detach, recording and shutdown. Frida calls back
on its own threads into two bounded queues. The recorder writes in its own
goroutine.

What is hard: a frame of one connection handled under the next; a response
whose only mark is an id that several askers may use; a number read before a
lock and used after it; a Close that meets a Start between two of its steps; a
step of a teardown that fails; callbacks into something that is being freed.

What makes each component correct:

- ownership: one connection at a time from reservation to the end of the cleanup;
  a live reader is current; nothing is installed behind `App.Close`; no connection keeps
  it from returning;
- routing: a response reaches who asked; an entry has a live owner; a fenced id is
  not reused; nobody waits for a response that cannot come; a loss is reported;
- SDK requests: the map and the callers agree; a loss is told; a close ends the calls,
  unless it crosses with one of them;
- lifecycle: a start acquires everything or nothing; one shutdown; no Close is
  overlooked; no recorder is lost;
- health: "ready" has something behind it; "reconnecting" is worked on and ends;
- native: nothing is freed while in use; control messages are not lost; the status
  is true; Close ends;
- capture: one writer per path; what is read back is gapless; Close is durable;
- outbound: a batch goes out whole or not at all; nothing follows a Close; one circle
  of locks is all that can keep Close from returning;
- contexts: the registry is coherent; no context outlives its connection; what
  subscribers are told adds up to what is registered;
- native install: what is returned, and what is loaded, is what the build asked
  for; an install that fails changes nothing.

## Modules

| module | extends / uses | models |
|---|---|---|
| `OwnerSlot` | - | the abstract endpoint: one holder that joins, owns and leaves |
| `Ownership` | implements `OwnerSlot` | the fields of `App` for one endpoint, the handler, the reader, the hub, `App.Close` |
| `Correlator` | - | the table of pending requests: scopes, limit, removal |
| `Bridge` | `Correlator`, two instances of `Ownership` | requests, responses, fences and losses over both endpoints |
| `MCBridge` | `Bridge` | symmetry for TLC |
| `UpstreamLink` | - | the upstream endpoint as the SDK's observers see it |
| `SdkRequests` | `UpstreamLink` | `sendPayload` and everything that ends it |
| `Health` | `UpstreamLink` | the health state and the recovery goroutines |
| `Service` | - | `Start`, `Close`, shutdown, rollback, the recorder |
| `NativeDevice` | - | the native session and the Frida device |
| `SegmentedCapture` | - | the segmented recorder, two of them in sequence |
| `Outbound` | - | the queue and writer of a client, who closes it, the locks of `App.Close` and of the SDK |
| `MCOutbound` | `Outbound` | an instance for TLC |
| `ContextRegistry` | - | the registry as a value, one operator per method |
| `Contexts` | `ContextRegistry` | the dispatcher, generations, replays, `SelectContext`, the bus of context events |
| `MCContexts` | `Contexts` | symmetry for TLC |
| `NativeInstall` | - | `Prepare` on a cache shared by processes, and the load of the DLL |
| `MCNativeInstall` | `NativeInstall` | an instance for TLC |
| `OwnershipProofs`, `BridgeProofs`, `SdkRequestsProofs`, `ServiceProofs`, `HealthProofs`, `ContextsProofs` | the module named, TLAPS | proofs |
| `NativeProofs` | `NativeDevice`, `NativeInstall`, TLAPS | proofs |
| `WriterProofs` | `SegmentedCapture`, `Outbound`, TLAPS | proofs |

**Grain.** An action is what one goroutine does in one critical section, or
between two points where another goroutine can see or change something. Every
write of the handler is in it. `Bridge` joins the check of `ownerCurrent` with
the section of `dispatchMu` that follows, because nobody but the reader itself
releases its connection; `Ownership` keeps these steps apart and `LiveConnections`
is the fact that makes the joining right. Where several steps of the code only
touch what the goroutine owns they are one action.

**Ownership.** `phase[c]` is the place of connection `c`'s goroutine in
`handleDebugWebSocket`/`handleCDPWebSocket`; `owner`, `claimed`, `generation`
are the fields of `App`; `down` holds the clients whose transport is closed, so
that their reader will get an error. `HubDrop` is a full outbound queue, or a
write error seen by the hub. `closeStage` is `App.Close`: in "locked" it holds `connMu`
while `CloseAll` waits for the writers, so no other section of `connMu` runs
(`ConnMuFree`). The writers are in `Outbound`.

**Bridge.** An entry is (owner, generation, id). A request on the transport
remembers its asker in `inflight`, which the code cannot see; the properties
compare it with who gets the response. `FifoUpstream` lets the mini program
answer in order or in any order. `mixed` is a history variable: the ids that
were ambiguous on this transport (used twice at a time, expired, cancelled). It
does not influence any action; it states the condition under which an id is
enough. Left out: contexts (a request goes to the selected one; they are in
`Contexts`), subscriptions (they only refuse requests, which `ControllerRefused`
does) and notifications.

**SdkRequests.** `call[a]` is where `sendPayload` is, `channel[a]` its buffered channel of
one. Every section of `s.mu` is one step but that of a call that gives up: it keeps `s.mu`
(`smu`) from `GiveUp` until `CancelCDPRequest` has had `connMu` (`Cancel`). `Admit` to
`Dispatch` is `SendCDPRoute`. `UpstreamLink` takes over the order that `Ownership`
guarantees (installed, connected observed, lost, released, clients counted, loss observed)
and keeps the counting of clients, which happens before `s.mu` is taken, as a step of its
own. Its connections differ by nothing but their order, so `NextUp` names the next one.

**Service.** `start` is the step of the one goroutine in `Start`; `closer[c]` and
`shut[c]` are a call of `Close` and the shutdown goroutine it may have begun.
`App.Close` is one action here, which need not be taken once the service has run; what it
waits for is in `Outbound`. Any step of the
start may fail, any context may be cancelled at any time.

**Health.** Recovery goroutines are numbered by their generation. Delays are left
out: a timer fires at any time. The history variable `lostEarly` marks a loss that
was observed before the service ran; no recovery is started for it.

**NativeDevice.** `op`/`at` is the one operation that `resourceMu` and the
session's mutex let run. `script[s]` and `sess[s]` are the callback owners of the C
shim, which let callbacks in while open and wait for those inside when closing.
`thread[t]` is one of Frida's threads in `goFridaMessage` or `goFridaDetached`.
`runner` is `runMessageQueue`, `draining` says that it is in
`drainMessageQueue`. Every message counts one byte. `DeviceFree` is the mutex of the
device, which `Enumerate` and `Attach` hold during their call to Frida. `late` is a
history variable.

**SegmentedCapture.** A frame is (recorder, number accepted), a file the sequence
of its frames. `SegmentMax` counts frames. Every step on the disk may fail. A crash
loses queue and temporary file and leaves the lock file, which somebody removes.
After an error the open temporary file may hold part of a frame; it is never
published, so the part is left out.

**Outbound.** One `wsClient` behind each hub. `outbound` is its channel, `queueBytes`
its count of bytes, which a `SendBatch` raises after the channel has taken the batch,
both inside `sendMu`, while the writer receives outside it: hence `CountBytes` as a
step of its own. `loop[c]` is where `writeLoop` is, `ender[k][c]` where each of the
four goroutines that may close the client is: `App.Close` through the hub, the
goroutine of a failed broadcast, that of a refused batch of errors, and the reader.
`at` is the hub `App.Close` has come to. Of the SDK there is what it does with locks: the
observer of a runtime error takes `s.mu` (`Report`), a call that gives up holds
`s.mu` while it asks for `connMu` (`CallGivesUp`, `CancelCDPRequest`). `due` and
`wire` are history variables, the messages of the batches the channel has taken and those
the peer has got; the id of a batch is the number of messages accepted before it. Here
`App.Close` takes every step it takes; `Ownership`, `SdkRequests` and `Service` have the
part that concerns them, with its stay in `CloseAll` as a stage of its own or, in
`Service`, an action that may never end.

**ContextRegistry, Contexts.** Each method of the registry runs inside its lock and is an
operator from one registry to the next. A section under `dispatchMu` makes several calls,
with `SelectContext` and the status reader free to come between them: the first call is the
action that begins the section, the rest is its `agenda`, done one step at a time by
`RegistryStep` and `AnnounceStep`. So the seeding of a new generation (`installOwner`) can
be seen half done: a `SelectContext` that comes between may be refused or taken back by the
selection that is carried over. A frame of generation 0 is a replayed one, which the methods
without a generation handle; a replayed `addJsContext` is announced even when the full
registry has refused it, as in the code. A replay that is superseded is cancelled, not
awaited. A subscription is a channel of `BufferSize` events; `told` is what its subscriber
will believe when it has read all of them, `raced` the contexts that were announced though
they were not registered, both history variables. Subscribers subscribe before the first
event. A context's target name is told apart only by who announced it, a generation or a
replay.

**NativeInstall.** `pc[p]` is where a process is in `Prepare` and then in the starter that
loads the DLL; a file is a member of `Contents`: a runtime, missing, or junk. The cache
starts in any state, with what an earlier build or anybody else left in it.
The file lock is the operating system's: a process that dies loses it. The starter
opens the DLL so that it can be read by others but neither written nor replaced
(`lease`); a replacement that meets a lease fails. `before` and `vouched` are history
variables.

## Runs

All runs together take about a quarter of an hour on two cores. Deadlock is not
checked: each model stops when its connections, calls or recorders are used up, and
nobody has to make another.

| run | instance | states | shows |
|---|---|---|---|
| `ownership` | 3 connections | 940 | `LiveConnections`, `CloseCompletes`, and `ImplementsSlot` (refinement) |
| `bridge` | 2 upstream and 2 CDP connections, 2 ids, 2 pending, 1 fence, 2 requests on the transport, any order | 1,975,448 | `FencedNeverReused`, `EveryWaitMatched`, `RightRecipient`, `LossReported` |
| `sdk_requests` | 2 calls, 2 ids, 2 upstream connections, limit 2 | 681,118 | `PendingMatchesCalls`, `ResponseToAsker`, `LossIsTold`, `CloseEndsCalls` |
| `service` | 2 Start, 1 Close, lifetime, 2 StartRecording, 1 StopRecording | 344,536 | `StartIsAllOrNothing`, `CloseNotOverlooked`, `TapesAccounted`, `ShutdownComes` |
| `health` | 3 upstream connections, 3 attempts, 2 runtime errors | 180,900 | `ReadyIsBacked`, `ReconnectingIsTried`, `RecoveryGivesUp` |
| `contexts` | 3 contexts, capacity 2, 1 upstream connection with 1 frame, 2 replays of 2 frames, 1 SelectContext, 1 subscription of 1 event | 2,190,189 | `RegistryCoherent`, `NoContextMissed`, `ExceedsOnlyByRace`, `EndedGenerationsGone`, `AtMostOneLate`, `NothingAfterClose` |
| `outbound` | the controller's client, queue of 2 batches and 3 bytes, 3 sends, 1 SDK call | 280,452 | `WholeBatches`, `QuietAfterClose`, `CloseReturnsUnlessCrossed` |
| `native` | 2 attachments, 2 threads, 3 messages, queues of 1 | 611,843 | `TeardownOrder`, `ControlFirst`, `StatusTrue`, `ControlKept`, `CloseEnds` |
| `native_install` | 3 processes of 2 builds, 2 deaths | 12,081 | `ReturnedIsWanted`, `FailedInstallRestores`, `VouchedStays`, `LoadedIsTrusted` |
| `capture` | 2 recorders, 1 writer, queue 2, files of 2 frames, 2 files kept, 6 frames, 1 crash | 167,015 | `NoSendOnClosed`, `ReplayInOrder`, `CloseIsDurable`, `CloseIsAnswered` |
| `service_leak` | as `service` | - | `CloseReleases` is violated |
| `shutdown_deadlock` | as `outbound`, queue of 1, 1 send | - | `AppCloseReturns` is violated |

The type invariants (`TypeOK`) are not listed in the runs; those of `Ownership`,
`SdkRequests` (with its limit), `Health`, `SegmentedCapture`, `Service`, `NativeInstall` and, as
`RegInv`, `Contexts` are part of the proofs.

Every property has a mutant of the code it would catch (`"mutants"` in
`PROJECT.json`); the mutated operators stand in the modules, before the definition
they mutate, so that each property is seen to fail when the code is wrong.

Why the bounds are enough. Races of ownership are between a connection, its predecessor and
a competitor: three. A stale response needs one old and one new owner on each side, and one
id that is reused next to one that is not; one fence makes overflow happen with two
requests. A late loss needs the connection lost and the next; `health` has a third for the
connection that comes back. A generation of recovery that was superseded needs two losses,
exhaustion needs the last of several attempts. In `native`, queues of one overflow with the
second message, and two sessions are one to take apart and one to attach. In `capture`, six
frames fill three files of two, so that retention with two files removes one, and the second
recorder starts behind the first or behind its crash. In `contexts` the third context meets
a full registry; the second replay supersedes the first; a buffer of one overflows with the
second event; a context can come from the connection or from either replay, so its end is
tried with contexts of both kinds left, and `EndedGenerationsGone` is proved for any number
of connections. In `outbound`, three sends fill a queue of two and of three bytes, with
batches of two that fit in part; the second client would only repeat the first (`App.Close`
goes to it after it has done with the other). In `native_install`, two processes of a build
and one of another are who installs, who uses and who replaces, and two deaths leave a
broken cache twice.

Fairness. Goroutines that can run do run: weak fairness of each goroutine's next step.
Nothing is assumed of those outside: nobody has to connect, call, send, respond, cancel,
crash or fail, and no deadline has to expire. A reader whose transport is closed gets an
error; an upgrade has a timeout; Frida's calls have a deadline (`MB_NATIVE_DEADLINE_MS`),
hence `OpStep` in `NativeDevice`. In `Outbound` every goroutine of the bridge runs on;
peers, senders and the caller of `App.Close` owe nothing, and no write on an open transport
has to fail; a write ends, since it has a deadline (`websocketWriteTimeout`). Go's mutexes
are fair to waiters, and each call takes `resourceMu` once, so weak fairness is enough.
Where liveness is bought by a timeout of the code (Close's context) the property is stated
so that the timeout is not used.

One wait of the code need not end: `App.Close` in `CloseAll`, with `connMu`, while a
writer's observer waits for `s.mu` and a call that gives up keeps `s.mu` and waits for
`connMu` (the run `shutdown_deadlock`). So no module is fair to it where it can happen,
and the liveness properties say what is left:

| property | condition | fairness it rests on |
|---|---|---|
| `CloseCompletes` | or `App.Close` stays in `CloseAll` for ever (`closeStage = "locked"`) | none for `ClientsClosed`; readers that need `connMu` are fair when it is free |
| `CloseEndsCalls` | or `App.Close` is in `CloseAll` and a call keeps `s.mu`, for ever (`Crossed`) | `CloseAll` ends while no call keeps `s.mu` (`LeaveCloseAll`), a cancellation while `connMu` is free (`Cancel`) |
| `ShutdownComes` | or the shutdown of a service that has run stays in `App.Close` for ever (`HeldUp`) | `App.Close` ends if the service never ran: before it does no call is accepted, so none keeps `s.mu` |

That the circle is the only way for `App.Close` not to return is
`CloseReturnsUnlessCrossed` of `Outbound`, where the writers and both locks are modelled;
`LeaveCloseAll` is fair on its account. In `Health` and `UpstreamLink` nothing is
assumed of `App.Close`.

### Disagreements with the documentation

Two runs check what a document of the repository says and find a behaviour of the
code that contradicts it.

- `service_leak`: a Close between the last check of a start and its end returns nil with
  the listeners and the native session open.
- `shutdown_deadlock`: `App.Close` holds `connMu` while it waits for a client's writer; a
  writer that failed reports it, and the SDK's observer wants `s.mu`; a call of the SDK that
  gives up holds `s.mu` and wants `connMu`. `CloseReturnsUnlessCrossed` says that this
  circle is the only way for `App.Close` not to return. The calls and the shutdown it
  holds up are excepted in `CloseCompletes`, `CloseEndsCalls` and `ShutdownComes`.

The following can be reproduced with a configuration of their own; each states what the
document says as an invariant or a temporal property and ends in a counterexample.

- `tlc -config BridgeBootstrap.cfg MCBridge.tla`: the response to the automatic
  `Runtime.enable` is swallowed only while its entry is in the correlator. If the entry
  expires and a client uses the id, the response goes to the client, even from an
  upstream that answers in order.
- `tlc -config BridgeGiveUp.cfg MCBridge.tla`: `CancelCDPRequest` looks in the scope of the
  controller that happens to be connected, so an SDK call that gives up leaves its own
  entry behind or removes the controller's.
- `tlc -config SdkStranded.cfg SdkRequests.tla`: `observeConnection` counts clients before it
  takes `s.mu`; a number counted for the first loss and written after the second one was
  handled leaves the service online with no upstream. A call made then waits for its
  deadline. The service also reports "ready" then.
- `tlc -config NativeDetached.cfg NativeDevice.tla`: when Frida ends a session the status
  goes on saying attached.
- `tlc -config ContextsStaleSelect.cfg MCContexts.tla`: `SelectContext` selects, looks up and
  announces a context in three steps, none of them under `dispatchMu`. If the context goes
  between the first and the second, the event "selected" has neither ID nor target name,
  which `docs/sdk.md:99-100` says it keeps.

Related, and stated as a condition rather than as a finding: only ids still in the
correlator are fenced when a controller leaves (`app.go`, `readCDP`), so a late
response to an expired request is not held off (`RightRecipient` excludes `mixed`
ids); a loss observed while the service starts never gets a recovery (`lostEarly`);
with `RecordPath` a StartRecording during the start can lose a recorder
(`TapesAccounted`).

## Proofs

`OwnershipProofs`, from `OwnershipAssumption` (`NoConn` is no connection), for any set
of connections and any number of generations. `OneHolder` is not inductive: it needs
that `claimed` is set exactly while a connection is reserved or draining (`ClaimedInv`),
that the owner is exactly the connection whose goroutines run (`OwnerInv`), that it has
the newest generation (`GenerationInv`), and what the hub and `App.Close` have
closed (`HubInv`, `CloseInv`). `IInv` is their conjunction. From it: `TypeCorrect`,
`Exclusive`, `LiveConnectionsSafe` (joined from `LiveReaderCurrent` and
`ClosedForGood`), and `Implements`: under `IInv` the `CHOOSE` of the refinement mapping has
one candidate (`ClaimHolder`, `MappingHolds`), and every step maps to a step of
`OwnerSlot` or a stutter (`StepImplements`).

`BridgeProofs`, from the assumptions of `Bridge`, `Correlator` and `Ownership`. Each
endpoint follows `Ownership`'s safety specification (`EndpointsFollowOwnership`), so the
lemmas of `OwnershipProofs` are used for both through INSTANCE (`EndpointInv`).
`RouteInv` relates entries and fences to the owners: `RequestsOwned`, `FencesOwned` and
`FencedKeptOut` follow. It is inductive only together: a fence may only be dropped when
the upstream goes, and an entry only be added when it is not fenced. Four more follow, each
from what it needs beside that:

- `LossesReported`: a request of a controller has a controller (`PendingOwned`), so whoever
  drains the table has somebody to tell or to close.
- `TableLimited`: the table is finite and keeps its limit (`TableInv`).
- `WaitsMatched`: `EveryWaitMatched` counts. A request sent adds one entry and one place on
  the transport (`MatchSent`), a response takes one place and one of the entries that wait
  for it or a fence (`ResolvedWaits`, `MatchAnswered`), the cleanup of a controller puts a
  fence in the place of an entry or blocks the transport (`MatchFenced`).
- `RecipientsRight`: `RightRecipient` speaks of the response that has just come, so it needs
  what is known of a request still on the transport (`AskerInv`): an id that is not
  ambiguous is there once, the request of the bridge still has its entry, that of a
  controller has its entry under the present owner or is fenced, and no call of the SDK
  waits under its id.

`SdkRequestsProofs`, from `SdkAssumption` and `LinkAssumption`. `PendingIsLive`,
`WaiterIsPending` and `ResponseToAsker` hold together (`Agree`, with `StartedInv` for calls
that have begun and `KeeperInv`: whoever keeps `s.mu` is giving up); the limit needs that
the occupied ids are finite (`BoundInv`, by the theorems on cardinality). From `IInv`:
`LimitKept`, `PendingMatches` (from `OnlyLiveCallsPending` and `WaitersReachable`),
`ResponsesReachAskers`. `LossesAreTold` needs that only a connection in use is in the hub
(`HubInv`): a request goes to no transport whose loss has been observed.

`ServiceProofs`, from `ServiceAssumption`, for any number of calls of `Start`, `Close`,
`StartRecording` and `StopRecording`. The four safety properties need one invariant: how the
step of the start and the state of the service go together (`StageInv`), what each step has
acquired or given back (`AcquireInv`), that only a service that stops has a shutdown, and
one (`ShutInv`), that a Close which met the start is on record until `Decide` reads it
(`HeardInv`), and who holds which recorder (`TapeInv`: a recorder that a call has taken out
is never the current one, and none is installed twice). From it: `StartsAllOrNothing`,
`NoCloseOverlooked`, `NoTapeLost`, and `ShutsDownOnce`, which is proved without a run of its
own. That the state `stopped` may come with everything open, as `service_leak` shows, is no
contradiction: `StartIsAllOrNothing` speaks of `running` and `failed`.

`ContextsProofs`, from the assumptions of both modules, for any set of contexts, any
capacity, and any number of replays, selectors, subscribers and connections. A registry
stays coherent under each of its operators (`RegistryAlwaysCoherent`), whatever order the
steps of the sections come in. `ReplayInv` makes a replay late at most once. `ClosedInv`
leaves nobody after `App.Close` who could begin a section. `GenInv` is what
`EndedGenerationsGone` lacks to be inductive: it also holds in the middle of a section,
where the end of a generation is still the first thing on the agenda (`Pending`), and the
steps that carry contexts over to a new generation carry those of replays alone
(`AgendaOf`). `TellInv` says what `NoContextMissedEver` needs of the middle of a section: a
registered context is known to every subscriber still served, or the section that registered
it has its announcement ahead; a context whose removal is still to be announced is
unregistered, or is removed by an earlier step of the same agenda; the contexts a new
generation starts with are known already; and while a connection lasts, until its end has
been applied, its generation is active or still to begin (`OwnerInv`), so the end that
withdraws contexts does remove them.

`ExceedsOnlyByRaceEver` in `ContextsProofs` needs what a section has yet to do: what is
known and not registered was announced so by a race, is still to be withdrawn by the
section, or is still to be registered by the seeding (`Explained`); whatever takes a context
out of the registry has its withdrawal behind it on the agenda (`RemovalsFollow`,
`Accounted`); and what is seeded has room (`Fits`), because it was registered when the
section began.

`HealthProofs`, from `HealthAssumption` and `LinkAssumption`, for any finite number of
connections, attempts and runtime errors. A goroutine that has not been stopped is that of
the present generation (`RecoveryInv`), while the upstream counts as connected a connection
serves or its loss is still to be counted or observed (`BackedInv`), and the health goes
with the state of the service (`HealthInv`). From them `ReadyAlwaysBacked`,
`ReconnectingAlwaysTried` and `ReconnectingAlwaysLive`, which no run lists. `TypeCorrect`
also says that the numbers the model has for generations suffice: each observation of a
connection and each error makes one at most (`GenInv`).

`NativeProofs` extends two modules, which is why the specification of one is called
`InstallSpec` (and that of `Outbound`, for `WriterProofs`, `OutboundSpec`). On
`NativeInstall`, for any number of processes, builds and deaths: `LockInv` says that one
process at a time is between the lock and its release, `CacheInv` what that process knows of
the two files at each step, `VouchedInv` that nothing is vouched for while a manifest is in
place without its DLL, `LeaseInv` that a DLL checked under a lease is still the same when it
is loaded. From them the four properties of the run.

On `NativeDevice`, from `DeviceAssumption`, for any number of threads, sessions and messages
and any capacity of the queues. `IInv` says, by the place of the running operation, which
sessions and scripts are there (`SlotInv`: a script in use has an open session, a session in
use is `cur` or `fresh`) and what the status says (`StatusInv`); that a callback is inside
an owner in use (`CallInv`), which is why an owner that waits for its callbacks leaves none
behind; and where the queue goroutine may be while messages wait (`RunnerInv`,
`ReleaseInv`). None of them is inductive alone: `TeardownOrder` needs that the operations
release the script before the session and the session before the device, and `StatusTrue`
needs the place at which an operation failed. From it: `TeardownSafe`, `ControlPrompt`,
`StatusAgrees`. The action property `ControlNeverLost` needs beside it that only data takes
the way on which messages are dropped, and that a closed device has no callback inside
(`PathInv`, `ClosedIsQuiet`).

`WriterProofs` is about two modules too. On `SegmentedCapture`, from `CaptureAssumption`,
for any number of recorders, writers, frames and crashes and any sizes. `PathExclusive`: the
lock file is there as long as a goroutine works on the path (`LockInv`). `SendsAreSafe`: a
writer between its check of `closing` and its send keeps `queueMu`, so `Close` cannot close
the queue (`QueueInv`). `ReplaysInOrder` and `ClosesDurably` follow from `CapInv`, which
adds `TapeInv`:

- Each file is a strip, consecutive frames of one recorder, and the files are a shelf: a
  later file is above an earlier one, and goes on where its neighbour ends (`Shelf`). A
  shelf stays one when a strip that follows its end is added at the top (`AddKeepsShelf`)
  and when the oldest files are removed (`TrimKeeps`).
- The frames a recorder has accepted are, from the last to the first, in its queue
  (`LastOf`), held, in its temporary file (`TempInv`), and published (`CountInv`): the
  published ones are on the shelf up to the last, from the first unless retention has left
  at least `RetainSegments` files (`Kept`).
- After an error the count no longer holds, because frames were lost; what remains is that
  the temporary file follows the end of the shelf. So an error must be sticky, or the next
  file would leave a gap.
- Recorders start in their order and only with the lock, so the shelf ends with frames of an
  earlier one (`StartInv`, `LockInv`), and their numbers go on above it (`IndexInv`).

On `Outbound`, from `LimitsAssumption` and `CloseOrderAssumption`, for any clients,
batches, limits and closing goroutines. `BatchesGoWhole`: the batches of a channel continue
each other up to the last message accepted (`InLine`), the batch in the writer's hand stands
right before them, and what is on the wire before that (`Reached`); a batch whose byte count
is still to be raised is already in line. `QuietAfterCloseAlways`: whoever has got past the
stop has closed the client, and whoever has returned has seen its writer end (`EndInv`).

Only model-checked: the liveness properties (`CloseCompletes`, `CloseEndsCalls`,
`ShutdownComes`, `RecoveryGivesUp`, `CloseReturnsUnlessCrossed`, `CloseEnds`,
`CloseIsAnswered`), because TLAPS does not prove them under fairness. Every safety invariant
and every action property that a run checks is a theorem. No module uses a RECURSIVE
operator, so none is closed to proofs; what a recursion over data computes for every input
could not be proved, and nothing here depends on it.

## Not modelled

- The format of messages (`internal/wmpf`), addresses and version tables, process
  discovery, flags and logging: functions without state, covered by golden tests.
- The counters of a controller's subscriptions (`trackSubscriptionLocked`): they
  only refuse requests.
- Of native installation: the content of archives and manifests, the partial and staged
  files a dead process leaves behind (they have names of their own and are never
  looked at as the cache), and the load by the zlib path, which takes no lease.
- The single-file recorder and `capture.Start`, which only tests use at this
  commit; the format of a capture. `Contexts` models a replay as the frames it
  feeds into the dispatcher.
- Subscribing to events while they come, and the copies of events a bus makes.
- The agent, Frida and its loader (`frida/hook.js` and the C shim): external; `NativeDevice`
  takes from the shim when callbacks come and when they are kept out. A callback that
  Frida would run on the thread that waits for it is not covered.
- Scripts: builds, releases, smoke tests, generators of fixtures under `scripts/`, and the
  bundled tools under `.agents`, which are not part of the running system.
- Real time: deadlines expire at any time.

## Plan

The order is by what a user of the bridge would lose: requests and endpoints first,
then the service around them, the native session and the recorder, then the
contexts, the outbound queues with the locks of a shutdown, and the runtime's
installation. All of these are done. What is left:

1. The correlator joined with `SdkRequests`, for requests that are dropped without a
   word and for entries that outlive their call.
2. `Contexts` composed with `Ownership`, so that the generation of a frame is that of its
   reader; subscriptions made while events come.
3. `CapturePublish`: the two renames of `publishGeneration` and recovery after a crash
   between them, if the program comes to use `capture.Start`.
4. Proofs: the composition of `Outbound` with `Ownership` as a refinement, now that both have
   their invariants.
