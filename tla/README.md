# eebus-ha-bridge in TLA+

This directory holds TLA+ models of eebus-ha-bridge, the TLC configurations that
check them on small instances, and TLAPS proofs of what matters most for every
instance. Paths are relative to the repository; line numbers are those of the
commit this was written against.

```
tlc -config MCEventBus.cfg MCEventBus      # one run
tlapm EventBusProofs.tla                   # one component's proofs
```

`PROJECT.json` lists the runs, the mutated definitions that show each property
can fail, the source lines every definition stands for, the hazards, the
findings and the theorems.

## 1. The system

The bridge is a Go process (`src/eebus-bridge`) that speaks EEBUS (SHIP and SPINE,
through the eebus-go library) to heat pumps and other devices, and gRPC to a
Home Assistant integration written in Python (`src/custom_components/eebus`).

| Component | State it keeps | Operations | Status |
|---|---|---|---|
| Event bus (`internal/eebus/eventbus.go`) | a revision per device, a buffered channel per subscriber, drop counters, a pending resync marker per subscriber | Subscribe, SubscribeWithRevision, Publish, Unsubscribe, TakePendingResync | modelled |
| Device state stream (`internal/grpc/device_state_stream.go`, `adapter_helpers.go`, client `device_streams.py`, `streams.py`) | stream cursor, last revision, refresh task and its trailing request | SubscribeDeviceState, envelope handling, debounced refresh, the poll every five minutes | modelled |
| Device state store and poller (`state.py`, `snapshot.py`) | leaves, freshness, capabilities, field revisions, contract flag | reduce_observation, apply_event, poll of three bridge generations | modelled |
| Registry, capabilities, trust (`registry.go`, `capabilities.go`, `trust.go`, `callbacks.go`, `usecases/entity.go`) | catalog, health, capability rows, tombstones | service callbacks, use-case events, read results, RegisterSKI, UnregisterSKI | modelled |
| Reads (`internal/grpc/*_service.go`, `device_snapshot.go`, `usecases/*.go`) | none of their own: the registry's row and the stack's copy of the device's data | every read RPC, GetDeviceStatus, GetDeviceSnapshot, the payloads of events | partly |
| Writes (`internal/grpc/*_service.go`, `usecases/*_configuration.go`, `*_adapter.go`, `dhw.go`, `ohpcf.go`, `device_session.py`) | a pending write, a one-slot result channel, a timer | six acknowledged write RPCs | modelled |
| Providers (`usecases/provider_*.go`, `mgcp.go`, `vapd.go`, `vabd.go`, `providers.py`) | sample, version, expiry timer, advertised availability; worker, dirty flag, invalidation latch | push, invalidate, expire, close, reconfigure, unload | partly |
| Recovery supervisor (`recovery.go`, watchdog of `app.go`) | per device: attempts, next attempt | Tick, recover, reconcileHealthy, restartDecision | modelled |
| Application lifecycle (`app.go`, `lifecycle.go`, `grpc/server.go`) | ledger of started stages, gate, failure channel, health status | Start, rollback, Stop, background failure, graceful and forced stop | partly |
| Home Assistant runtime (`runtime.py`, `grpc_client.py`, `streams.py`, `device_streams.py`, `coordinator.py`, `__init__.py`) | shared runtimes with reference counts, a channel and its contract, a session and its streams per device | set-up, move, unloading of an entry; ensure, invalidate, negotiate; restart of streams | partly |
| Classifier (`usecases/classification.go`) | one-shot request flags | request, reply, enrichment | not modelled |
| Discovery, certificates, configuration, tools, HA entities and forms, scripts | none of their own, or files | conversion and I/O | not modelled |

How they interact. The stack calls the bridge back from goroutines of its own:
service callbacks (connected, disconnected, trust) reach the registry and the bus,
use-case events reach the registry, and then the bus. A gRPC stream goroutine
drains one channel of the bus and reads the payload from the device when it
converts an event, not when the event was published. Home Assistant reduces
stream envelopes and poll answers into one store on one event loop, but every
`await` between them is an interleaving point. In the other direction, Home
Assistant's sensors push samples into the provider use cases, where three
goroutines (a gRPC handler, a timer callback and Close) share one mutex.

What is hard about it:

* events overflow bounded channels, and what replaces them is one marker that
  must reach a consumer who may never get another event;
* polls and deltas overtake one another, and payloads are newer than the
  revision they travel under;
* registry handlers are several locked steps with callbacks in between, while
  the stack changes its mind about trust;
* a device that flaps, loses trust or answers late must neither escape the supervisor's
  count of attempts nor be held to one it has answered;
* timers that have fired cannot be stopped, and clients that gave up on a call
  learn nothing about it;
* a write is answered by a message of the device that may be quicker than the callback
  that waits for it, later than the timer, or lost with the connection;
* a snapshot is put together from a dozen reads, each of which also changes what the
  registry says of the device;
* a stop may come at any moment of a startup, and both undo the same ledger;
* config entries share runtimes, and each of their set-ups, moves and unloadings may be
  cancelled at every `await`.

What makes each component correct is stated in section 3, next to the run that
checks it.

## 2. The modules

| Module | Models | State against code |
|---|---|---|
| `EventBus` | `EventBus` of eventbus.go | `revisions`, `queue`, `pendingDropped`, `droppedByDevice`, `resyncsByDevice`, `unresolved` are the struct's fields; `scope` and `status` the subscription; `deferrals` the consumer's local counter; `handedOut` and `announced` are history |
| `FeedContract` | what the client of a scoped subscription is promised | abstract: the device's latest change, and per feed what its client knows, what is to come and whether it is owed word of a gap |
| `DeviceStateStream` (extends `EventBus`) | device, bus, server goroutine, transport, client, poll | `server[s]` is the program counter of subscribeRevisionedEvents; `wire[s]` the gRPC stream; the client's variables carry their Python names |
| `StateStore` | `DeviceStateStore`, `reduce_observation`, `DevicePoller.poll`, and the streams that feed them | `wire[s]` are the envelopes of a stream that the bridge has read and the client has not reduced; `newer` stands for the comparison of field_revisions with the base of the one poll in flight; `truth`, `support`, `online`, `profile` are the bridge |
| `RegistryRows` | the rows of registry.go and capabilities.go | one operator per method that writes a row, from the row it finds to the row it makes |
| `Registry` (extends `RegistryRows`) | the handlers that share the rows: callbacks.go, trust.go, entity.go, reads | `reg[d]` is one device's row over the three maps; `pending`, `callback`, `useCase`, `reading`, `command` are what runs; `stackTrust`, `link`, `epoch` are the external stack |
| `RegistryTrust` (extends `Registry`) | the same handlers when one side decides about trust | `master` is that side; commands of a device come one at a time |
| `UseCaseReads` | what a use-case wrapper reads of the copy of the device's data | tables: the data a use case carries, the data a read needs, and what its event tells |
| `Readings` (extends `RegistryRows`, `UseCaseReads`) | the read RPCs, the snapshot assembler, the payloads of events, the use-case callbacks | `job[r]` is a call: where it is, the domains it has still to read, and what it has put together; `row` is the registry's row; `linked`, `offer`, `due`, `copy` are the external stack |
| `WriteContract` | what a write RPC promises its caller | abstract: `answer` and `takeovers` per call |
| `DeviceWrites` | the six acknowledged writes | `pc`, `told`, `inbox` are the call; `wire`, `link`, `device`, `cache` are the external stack and device; `takeovers` is history |
| `Provider` | providerSnapshotStore, providerAvailability and the serialized publisher of one provider | `publishMu` says who holds the mutex and what it does next, so that timers, clock and consumers see every step in between |
| `ProviderPush` (extends `Provider`) | ProviderManager, _ProviderPusher, reconfiguration | `dirty` is the worker's asyncio.Event, `invalidated` the saved-invalidation latch |
| `Recovery` | RecoverySupervisor, the watchdog, the health rows of the registry | `row[d]` is deviceMonitoringState with timestamps as ages; `record[d]` the recoveryRecord; `tick` the watchdog goroutine with the snapshots it took; `heard` stands for "later than LastAttemptAt"; `tries` and `pause` are history |
| `Lifecycle` | Application, lifecycleTransaction, Server | `ledger`, `serving`, `failures`, `startupMu`, `stopped`, `once` are fields; `up` and `broken` the components that run and those whose stop failed; `pc` and `todo` where each Start and Stop is |
| `BridgeRuntime` | BridgeRuntimeRegistry, BridgeRuntime, GrpcChannelManager, DeviceStreams (its life), the coordinator and the entry's set-up, reload and unloading | `registry` and `count` are the reference counts; `channel`, `contract`, `sessions`, `streams` belong to a runtime; `pc`, `runtime`, `replacement`, `previous` to an entry; `abandoned` and `reopened` are history |
| `MC*` | instances for TLC | |
| `*Proofs` | proofs about the module of that name; those about `DeviceStateStream` are in `EventBusProofs`, about `RegistryTrust` in `RegistryProofs`, about `ProviderPush` in `ProviderProofs`, and about the calls of the gRPC services, `DeviceWrites` and `Readings`, in `CallProofs` | |

Granularity. What runs under one lock without calling out is one action; so is
Python code between two awaits. A method the registry calls under its lock is an
operator from a row to the next row, and a handler that calls several is several
actions. These things are data and abstracted: a telemetry leaf is a version
number that says how old it is, and in `Readings` only whether it is there, absent or
not to be read; an SKI is a model value with a normalisation
function that may send several spellings to one identity, or to none; the event
types are the few classes the stream tells apart; the measurements of a provider's sample
carry one value, which tells them from those of another sample; a bridge's contract is
the stream profile it leads to.

The stack (eebus-go) is external. The models assume of it, as callbacks.go
does, that it delivers the service callbacks of one device one at a time, and use-case
events of a connection only once the connection was announced.

## 3. The runs

### MCEventBus

Two subscribers, two devices, one of them reachable by a second spelling, and a
spelling that is nobody's; channels of capacity 1. `QueueOrdered`, `NoSilentLoss`,
`DropsAccounted` (every drop is in a diagnostics counter and announced or still owed) and
`FeedKept`, the refinement: the bus implements `FeedContract`, in which a client is handed the
changes of its device oldest first, and one beyond the next only while it is owed the
marker. Capacity 1 already overflows at the second event, three
revisions let an overflow happen between, before and after deliveries, and one
deferral reaches both branches of the decision to postpone a marker.

### MCDeviceStateStream, MCDeviceStateStreamLive

Two incarnations of the stream (so it breaks and is reopened), a transport of one
envelope, one change of the leaf, three revisions, reads that may fail. Of the events that carry no
leaf the first run has the provider acknowledgement, which asks for nothing, the second the
connection event, which asks for a poll, and the classification update. `Converged`: once nothing
is in flight, a leaf the client calls fresh is the device's, provided that the debouncer has dropped no
request since the last poll began. `NoStrandedResync`: a stream goroutine never
sleeps on an empty channel with a drop to report. Both hold, and EventBusProofs proves them.

The debouncer is Home Assistant's own (coordinator.py:51 gives the coordinator no other): a request
made while a poll waits to run is served by that poll, one made when none is under way begins
one or queues it, and one made while a poll is running is dropped. The model has all three, and
the history variable `absorbed` says whether the third has happened since the last poll began. The
condition on `Converged` is needed: a client whose only request was dropped may rest on a stale leaf
that it calls fresh, until the five-minute poll. What holds without the condition is
`EventuallyMirrored`.

The acknowledgements are what makes the client's gap detection necessary, although the
bus announces every drop itself: when a delta is dropped between two of them, the second takes the
client to the newest revision, the marker that follows carries the same one and is taken for
stale, and only the gap before the second has asked for a poll. The check of stale revisions, on the
other hand, is never what saves `Converged`, because the leaf is read when the envelope is made.

`EventuallyMirrored` adds fairness: weak fairness of every goroutine and task that is
able to run, and of the poll, which the coordinator's timer (five minutes) repeats for as
long as the entry is loaded. That the timer itself is not put off for ever is thereby assumed; the
code sees to it by not calling async_set_updated_data for pushes (coordinator.py:230). None is
assumed of the device or of the network. The base revision of a poll is what makes it hold: with a
base taken once (the mutant), the poll's answer is discarded for ever.

### MCStateStore

Two leaves, a temperature that no capability gates and a limit that one does, and the three
generations of bridge contract: aggregate snapshots, capability statements only, neither. An envelope
is read at the bridge (`Delta` and its siblings) and reduced later (`Deliver`), so that polls, other
streams and changes of the device come in between; with the consolidated contracts one stream
carries both leaves, with the oldest each has a stream of its own. A stream may break with what
it carries and begin anew, with a snapshot if the contract has one (`Reopen`). One envelope per stream is enough
for it to be overtaken by a poll, by a change and by the other stream, and one change
of each leaf makes it old.

`UnsupportedHasNoValue`, `UnavailableIsNotFresh`, `NoRegression`, `LeavesRepaired`,
`SupportRepaired`. The first two and the last are claimed for the snapshot contract only: the other
two combine answers of several RPCs and do not promise them. Late envelopes do not
disturb them, because gates are applied when an envelope is reduced.

`NoRegression` is about polls: the answer of a poll never takes a leaf back, however many
envelopes were reduced since it was read. The other way round it is not so. An
envelope has no base revision; one that was read before a poll and is reduced after it puts the older
value back, as fresh, until the next envelope of its stream or the next poll. In `DeviceStateStream`,
where the bus is modelled too, such a next envelope or poll is always to come, because the change that
the late one does not know of was published after it was read; this is part of what `Converged` says.
`NoRegression` also speaks of values, not of capabilities: a poll's explicit
capability statements are applied without a comparison of revisions (state.py:392), so an older
statement can stand until the next poll.

Observed, and not a property: *inferred* capability states of a legacy poll are never
applied. The observation that brings them has just raised the revisions of its own leaves,
and state.py:392 compares them with those (the poll's base revision, snapshot.py:169, is older).

### MCRegistry, MCRegistryUnpaired

One device, because rows of different devices never touch; two connections;
callbacks, a use-case event, a read, a command at once. `master` (of RegistryTrust) says who
decides about trust in a behaviour: the user's commands, one of a device at a time, or the peer.
`RegistryTypeOK`, `RemovedIsForgotten`, `CapabilityMatchesConnection` and
`UnsupportedIsSticky` do not depend on that, and RegistryProofs proves them for behaviours in which
both decide. `TrustAgrees` needs it, and `PeerLinkAgrees` that it is the peer: RegistryProofs proves
them for the behaviours of RegistryTrust (`MasterSpec`), with any devices and clients. When a trust callback is
still waiting while a command runs, or two RPCs of one SKI run at once
(TrustController has no lock), the registry can end up with the other answer than the
stack; and a connection that comes in between the stack's registration and MarkTrusted
(trust.go:29, :31) is lost on the tombstone (registry.go:187), which is why
`PeerLinkAgrees` leaves the user out. A device the configuration makes the stack trust
(app.go:764) is trusted at the stack only until it first connects, and `TrustAgrees` says nothing of it
until then; MCRegistry has none, so that it is checked from the start.

Violation: the supervisor's reconnect registers a device the user has just
unpaired (recovery.go:148).

Also observed, and not a property: a monitoring event that was read before a
reconnect leaves an entity of the old connection in the catalog (entity.go:31)
until the next disconnect clears it.

### MCReadings

Fourteen devices, one per behaviour: each offers a few use cases, with the data of theirs
that may change and the domains that are read of it, and together they use every table of
`UseCaseReads`. Two in which reads can disturb one another (they record in the same
capability, or share data) have two calls at once, the others one. Between any two steps
of a call the device connects, negotiates, changes, disconnects, is unpaired or is paired again; one
event at a time waits for its stream.

`LeafTruthful`: a field of a snapshot is said to be available if and only if its value is in
the payload, although the two are put together by different passes over up to a dozen
reads. `SnapshotAgrees`: a snapshot that nothing crossed agrees with the capabilities it
carries. It is stated for domains read from one use case; a capability made
of several tells what the last of their reads has found. `StatusOfKnown`: GetDeviceStatus
tells nothing of a device that is removed before its first read or between its two, although the
health it found in the first may have been that of a connected device. The history field `removal` of a
call says what became of the device since: nothing, a removal that stands, or one that a new
pairing has ended. In the last case the device is known again and is answered for, with the health
that was read in its former lifetime or, if there was none, as a device that is not connected.

Observed, and not properties: a room-heating capability is recorded as not advertised
by the resolution that finds no entity for one of its use cases, while the other
is advertised, and the good read that follows does not take that back
(hvac_service.go:99; capabilities.go:202 says it is so "only after every source seen for it
currently reports false"); GetDeviceCapabilities may answer with no entries when the
device is removed between its two reads; a failsafe write whose second part, the
duration, fails reports an error and leaves its first part in force (lpc_service.go:165-174); a
device that reconnects loses its zone label, because RemoteServiceConnected puts a new row in the
catalog (callbacks.go:46, registry.go:415), and the classifier, which asks for the label once per device
(classification.go:220), does not ask again.

### MCDeviceWrites

Two concurrent calls of each of the six acknowledged writes, and either two connections or a
device that changes its mind once. Two calls are what it takes for a late result of the first to meet
the second, and for a retry to follow a write whose outcome is unknown; the second connection
gives a resolution that is stale when the write is sent.

`ContractKept` is the refinement: `DeviceWrites` implements `WriteContract` under
`answer <- told`. What is reported as applied was taken over exactly once, what is reported as
refused never is, and of a time-out or a lost connection nothing follows: the documents
of the repository promise no more, and the model shows why (the device may take over a
write after its caller was told that the outcome is unknown). `AppliedIsShown`: even
if the device sends no notifications, the read that follows an accepted write brings its
value to the bridge's cache. `EveryCallEnds`: the wait of the compressor has no
context, and its timer is what ends it.

Fairness: handlers and the stack's event goroutine run, and a device that is
connected answers a read. None is assumed of the result of a write, nor of the connection.

The LPC writes (limit, failsafe) wait for no result; they are steps of `Readings`.

### MCProvider

The PV provider, which has everything the other two have and its peak power: grid and battery
differ in the number of measurements a sample may lack. Two calls in flight,
samples that hold for one tick, and either two managers in succession or a second tick: a sample expires while its call
waits, while a newer one is written, and while the provider is closed. A feature may refuse a
write (`WriteFails`); a quantity it could not describe at the start refuses every one, so
that one undescribed optional measurement makes each publish and invalidation of its
provider fail. A bridge may not know the feature of invalidations.

`ServedIsHeld` (what consumers read are the measurements of the one sample the
store holds, and the use case is advertised exactly then), `ExpiryAhead`,
`OnlyExpiredTaken` (a late callback takes back nothing that was valid when its timer fired),
`SilentOnceClosed`, and end to end `SensorServed`. The peak power is pushed by itself after a
sample and does not expire.

Two exceptions are written into the properties as history variables. `owed`: when the
write of an expiry fails, the callback returns and nobody tries again, so the sample stays
until the next push. `disturbed`: during a reconfiguration the old and the
new manager push at once (the new one is started before the old one is stopped), and the
old one's call may land last; a call the client gave up on may do the
same, because the handlers do not look at their context.

Observed, and not a property: the invalidation latch is only released by a push that *answers*
(providers.py:413, :500), so after a push that timed out but was committed, an unavailable
sensor is not invalidated; the sample then ends with its expiry.

Assumed: the clocks of bridge and Home Assistant agree and are not set back. The
code compares wall clocks but arms a monotonic timer; a clock set back between the two
would leave a sample without an expiry.

### MCRecovery

Time is counted in watchdog intervals. A timestamp is an age that grows with each
tick until it exceeds the threshold it is compared with, so the state space is finite
without a bound on time. Grace period and heartbeat tolerance are one interval, the stale
threshold, the base and the maximal delay are two, and two attempts are allowed: enough
for a retry to fall before, within and after a grace period and for a device to be
reconnected twice and given up. That the delay doubles is not visible at this instance;
`Backoff` is, and RecoveryProofs reasons about it for all values.
Either one device is present, to which everything may happen (pairing and unpairing
during a tick, revoked trust, flapping, reads while disconnected, heartbeats), or
two that connect, answer reads and fall silent: what two devices share is the tick and its
decision. Of these two, one never answers and is the first to fall silent.

`AttemptsBounded` and `RetriesSpaced` say that flapping neither puts off the end nor speeds
up the retries: the record survives a disconnect, a revoked trust, and even
the removal and new pairing of the device. `RestartJustified` is the promise of SPEC4-05: one
device that works keeps the process up. It asks for a confirmation older than the
tick, because the decision uses the snapshot the tick began with: a device whose
heartbeats become required during the tick, or that answers just after it was
looked at, may still be counted as exhausted.

`StuckIsRestarted`: when all devices present have fallen silent, the process restarts. Fairness is
weak fairness of the watchdog, which a ticker drives; of a registered device in
reach connecting again; and of its callbacks being delivered. Nothing else need happen. The
exception `Missed` is the connection that is lost on a tombstone (MCRegistry): the supervisor does not see a
device whose row says disconnected.

Assumed: a tick takes less than an interval, and no service callback waits as long as one.

### MCLifecycle

Two goroutines in Start, one more in Stop, a client that holds a stream open or switches the
heartbeat, and of the optional parts the compressor and one provider. Every step of a
startup may fail, a use case may be refused, the server may fail at once or later, the
recovery may give up, a signal may come at any moment, and a stop may return an error.

`ServesWhole`: the gate that admits RPCs is open only while every stage is up, every use
case is registered and no Stop has begun. `StackOutlives`: components are stopped
before what they are built on, in the rollback of a half-finished startup as in a stop.
`ReturnedClean`: when a Start or a Stop returns, all is stopped but what refused to.
`EveryoneReturns`: all of them return, over a hanging watchdog and clients that never hang up
(gRPC's GracefulStop waits for handlers; the forced stop after its timeout does too, but
closes their connections first).

Fairness: goroutines run and timeouts expire. A watchdog tick may hang for ever, a client need
not end its call, and neither signals nor Stops need happen.

Observed, and not a property: a watchdog tick under way may publish SERVING to the health
service after Stop has withdrawn it (server.go:104 loads the flag and publishes later), although
app.go:781-783 says that this can never be; the gate of the RPCs, which is what
`ServesWhole` speaks of, is not affected.

### MCBridgeRuntime

Two config entries for a device each, two bridges (addresses), at most two runtimes in a
behaviour, one of which can be shared, given up and moved to. In a behaviour either a bridge
changes its contract once, between consolidated and per-domain streams, or an entry is moved to
another runtime and has its unloading cancelled. Only one entry (`Mobile`) is ever moved, polls
and has an unloading cancelled, and a new set-up of it waits for its old poll; the
other is the one who shares its runtimes and must not notice. All of it runs on one event
loop; a step is what happens between two awaits, and at each the task may be cancelled.

`CountsExact`: each runtime is counted once for every entry that holds it, so that it is open as
long as one does and closed with the last; the handover has a commit point, and a
cancellation on either side of it must give back the other runtime. `SessionsOwned`: no session
is left behind by a set-up or handover that fails, a loaded entry has one and only one,
and a closed runtime runs nothing. `ProfileFollows`: streams are those of the contract in force,
whenever it changed: before, while or after they were started.

Two exceptions are written into `SessionsOwned` as history variables, and both are
observations about the code. `abandoned`: async_shutdown stops the providers first, and an
unloading that is cancelled while it waits for them never releases the session
(coordinator.py:418-419). In a runtime that another entry shares the session lives on, and a later
set-up of the device is refused ("device session already active", runtime.py:284). `reopened`: a poll that
was under way when its runtime closed opens its channel once more, and nobody closes it.

Also observed, and not properties: a poll that began before a handover and fails
invalidates the channel of the *new* runtime (coordinator.py:275 reads the attribute after the
await), and one that succeeds returns the old store's state to the coordinator; ensure_channel may return
a channel that was invalidated after its negotiation ended and before its caller woke up; the
comparison of generations (runtime.py:257) and the loop of the restart (device_streams.py:276)
are never what saves a property, because negotiations do not overlap.

Assumed of grpc.aio (external): a stream on a channel that is closed ends with an RPC error,
which is retried. Were it a CancelledError, `_run_stream` would take it for its own
cancellation and end for good. Changes of a contract that do not change the stream profile, which
restart the streams as well, and a contract with the consolidated stream but without snapshots
are left out.

### Deadlock

`CHECK_DEADLOCK FALSE` is set where the bounds of the model, the end of all
subscriptions, or the end of the process let the system stop: the bus, the stream, the
provider, the supervisor (restart), DeviceWrites (all calls ended, nothing left to change),
Lifecycle (everything returned) and BridgeRuntime (a bound on runtimes). MCStateStore, MCReadings
and the MCRegistry runs keep the check.

## 4. The proofs

All are safety proofs by an inductive invariant, for every value of the constants that
satisfies the modules' named assumptions.

* **EventBusProofs.** `BusInv` = `BusTypeOK`, `QueueOrdered`, `HandedOutPublished`,
  `NoSilentLoss` and `UnusedEmpty` (a subscription not yet made has an empty
  channel and nothing pending). `NoSilentLoss` alone is not inductive: that a receive
  makes no hole needs the order of the channel, and that a subscription
  starts without one needs that nothing was handed out beyond the device's revision.
  `GapIsAnnounced` follows from it: in an ordered channel without a hole the
  head is the next revision.

  `FeedKept`, the refinement of `FeedContract`: a publication is a change that leaves out the feeds whose
  channel is full, a receive hands the oldest change out, a marker is the word owed. The
  receive is the hard step: that the head is the least of what is to come, and the rest what was to
  come without it, needs `QueueOrdered`, and the contract's condition on a gap `NoSilentLoss`. Unscoped
  subscriptions, refused events and postponed markers leave the feeds alone.

  `DropsAccounted` compares the drops counted per device with those counted per subscription. Sums are
  not what one proves about by an invariant: a counter is therefore stated as the set of what it
  counted, of which there are as many as the sum says, and every publication adds to both sides one element
  for each subscription it misses; a marker moves a subscription's elements from owed to announced.

  `StreamUsesBus`: every step of the stream is one of the bus or leaves it alone, so all of this holds
  of the stream, which therefore keeps the feed contract too.

  Of the stream itself, `Converged` and `NoStrandedResync`. `Converged` says what holds at rest, and the
  invariant has to say it of every combination of channel, wire, refresh and poll. It does so by
  asking one question, where the latest change of the leaf is (`Mirrors`): in the channel as a delta;
  dropped from it, before what was last handed out; on the wire, in an envelope that the client
  will not take for stale and that asks for a poll or comes after a gap, or carries the leaf itself,
  with nothing older behind it; or it has arrived, and the client is right or a poll that will not be
  held against the stream is to come. At rest only the last is left. `Attached` (no envelope and
  no client is ahead of what was handed out) is what a gap is known by. That a marker is
  never lost is again `NoSilentLoss`. A request that the debouncer drops is the one way in which a
  poll that is to come fails to come, so that the invariant, like the property, speaks of behaviours
  up to then (`absorbed`), and takes up again when the next poll begins; no assumption is made.
* **StateStoreProofs.** `UnsupportedHasNoValue` and `UnavailableIsNotFresh`. An observation keeps
  them only if it is *accountable*: every gated leaf it brings comes with its capability, stated, or
  inferred and not held against a base revision. `StoreInv` adds that the answer a poll
  of the snapshot contract has in hand is accountable. A legacy poll's answer is
  not, which is the observation above (MCStateStore) seen from the proof. `NoRegression`,
  `LeavesRepaired` and `SupportRepaired` are about every bridge and rest on
  `ReadInv`: values come from the bridge, and the answer in hand is what the bridge would answer now
  unless it changed, and is older than the store only in leaves that are marked newer. What waits on
  the wires is as old as it likes, but no newer than the bridge (`Late`), and accountable.
* **RegistryProofs.** `RegInv` = `Shape` (types of what runs), `Rows` (every row has the
  invariants of one device), `ReadsKnown` (a read past its checks belongs to a
  device with a health record or a tombstone) and `LinksKnown` (so does a
  connected device, unless its announcement is still to come). Each method has a lemma
  from row to row (`...Step`); the actions then only say which lemma applies.

  `TrustAgrees` and `PeerLinkAgrees` say what holds once nothing is under way; `MasterInv` says what holds
  before. While the user decides (`UserTrust`), registry and stack agree but for the connections that are
  announced and not yet taken note of (`Agree`), except that a command that has been to the stack
  has yet to go to the registry, or a reconnect to come back to the stack (`Underway`). While the peer decides
  (`PeerTrusts`), the latest waiting callback that tells about trust tells what the stack has decided (`Verdict`),
  and the latest one that tells about the connection of a connected device says so (`LinkComes`); what waits
  before it does not matter, since callbacks of a device run in order. Both need that the registry has no
  connected device it does not trust (`LinkedTrusted`). `MasterIsRegistry`: these behaviours are behaviours
  of the registry, and what is proved of it holds of them.
* **RecoveryProofs.** `AttemptsBounded`. The history counts reconnects since the device
  answered, the record those since the supervisor took note of an answer. `RecoveryInv` adds `Counted`: the
  record's count is never the smaller one, and evidence that would let the
  supervisor reset it has already ended the history's. Every operation that touches the
  record has a lemma; the one that resets it (reconcileHealthy) is where `Counted` is needed.

  `RetriesSpaced` needs that the doubling delay never decreases. `Backoff` is defined by
  recursion, and that there is such a function, with the equation one expects, is proved first
  (by the least number at which it fails: the library's induction cannot be used). `BackoffSchedule` is what
  comes of it. `RestartJustified`
  needs to know what the snapshots that a tick took say of a device after the stack has
  gone on: `SupervisorInv` adds for each device what the registry will have been told (`Known`), who is
  making an attempt (`Attempted`), what a device was when the tick looked (`Absent`), and that
  what a connection made after an attempt has said was said after it (`Answered`).
* **ProviderProofs.** `ServedIsHeld`, `ExpiryAhead`, `OnlyExpiredTaken` and `SilentOnceClosed`, for
  any number of calls in flight and managers. Between two holders of publishMu they
  nearly are the invariant; while one works, wire, availability and store change one after
  another. `ProviderInv` = `Types`, `Holding` (the call that holds publishMu is under way),
  `Shut` (nobody holds it of a closed provider), `Settles`, `Publishes` and `Expires` (what is
  still, or already, in place at each step of a push and of an expiry) and `Ahead`. It
  is needed because an expiry decides at its first step and acts at the three after it: that the
  version and the sample are still the same then is what the lock gives. Home Assistant's side
  enters by one lemma, `ClientsCall`: it begins calls and forgets those nobody works on. Assumed
  is, beside the constants' types, that "nobody" and the expiry are none of the callers.

  `SensorServed` follows a value from the sensor to the wire. `WorkerInv` speaks of states that nothing
  `disturbed`: there is one worker and one call, the one it awaits (`Alone`), which carries a sample
  or the peak power and not both (`Shapes`), and (`Present`) a sample under way has the sensor's
  value unless the event is set again, what it has written is there or expired, and what was
  taken back nobody has written since.
* **CallProofs, the writes.** `ContractKept`, the refinement of `WriteContract`, for any number of
  calls and connections. The contract speaks of two variables; what makes it true is where the
  message of a call is: nothing is on the wire before the call has sent, a value on the wire
  has not been taken over and its caller was told nothing definite, and a result, on the wire or
  in the inbox, says what the device did. One lemma per kind of step; each maps to
  a step of the contract or a stutter.
* **CallProofs, the reads.** `LeafTruthful`, `SnapshotAgrees` and `StatusOfKnown`, for any number of calls
  and every device: the three speak of a finished call, and a snapshot is finished after dozens of steps,
  between any two of which the device and the other calls go on. `ReadsInv` says of an unfinished one
  (`SnapshotSound`) where it is (`OnTrack`); of every domain, that nothing is served of it before it is read,
  and that once told it is told available if and only if some of it is served, as is each
  measurement (`Accounted`); and, as long as nothing crossed the call and the device is
  connected, that what is told of a domain agrees with the capability recorded of it, the domain in
  hand included at each step between its resolution and its state (`Recording`). That later
  reads leave this alone needs that no two of these domains share a capability, and that a record changes one
  entry (`RowRecorded`). `ToldSoFar` is the invariant between two domains, to which the end of each leads
  and from which the begin of the next starts. At the end `FieldStatesTold` says what the two passes of
  populateSnapshotFieldStates come to: that room heating goes over everything else, and that the second
  pass keeps what the overrides gave the first. `StatusOfKnown` needs that between its two
  reads a call knows of a removal what the row says (`StatusSound`): only an unpairing
  removes a device and only a pairing brings it back, and no other method does either (`RowKept`).
* **LifecycleProofs.** `ServesWhole`, for any number of Starts and Stops and every set of
  optional use cases. `LifecycleInv` = `Typed`, `Locked` (a startup past its first step holds
  startupMu), `OneStartup`, `ClosedAfterGate` (a rollback comes after the gate was closed),
  `LedgerGrows` and `Registers` (ledger and registered use cases are those of the startup's
  progress) and `GateOpen`. It is needed because the commit looks at `stopped` and nothing
  else: that all stages are up at that moment follows from the lock, which keeps every rollback
  out, and that none is rolled back later from the order in which a Stop acts.

  `StackOutlives` and `ReturnedClean` need the order as well. `StackInv` says that there are so
  many stages, the first of the order, which are in the ledger, or from the last one back on the list of
  the one goroutine that rolls back; they run, and whatever else runs is in the hands of the startup
  that has not recorded it yet, or refused to stop (`Running`). The rollback takes one away at its
  end, the startup adds one at its end.
* **BridgeRuntimeProofs.** `CountsExact`, `SessionsOwned` and `ProfileFollows`, for any finite set of
  entries, and any bridges and runtimes. `OwnInv`: where an entry is tells which runtimes it
  has and which one a failure would release (`Placed`), and the counts are the cardinalities of the
  sets of holders, which one entry enters or leaves at a time. `UseInv` and `SesInv` add what runs on a runtime:
  only one that was made is used, a session belongs to a holder or was abandoned (`Owned`), an entry has its
  session exactly from the step at which it is created to the one at which it is released, on the
  runtime its step names (`Staged`), and a stream that is being stopped is waited for (`ClosingEnds`).
  `ProfileFollows` adds that an entry that negotiated knows a contract and that a stream that is
  not being restarted runs by the one in force. Nothing of it depends on the bounds of the run.

The assumptions are named in the modules. Beside types and bounds they say that what stands for
nothing or nobody is none of the things it is told from (`SKIAssumption`, `NoneAssumption`,
`CallerAssumption`, `ThreadAssumption`, `OnceAssumption`, `InvalidAssumption`, `ClientAssumption`), that
sets that are counted are finite (`SubAssumption`, `EntryAssumption`), and that the device of a stream
is named by its own SKI and has deltas (`DeviceAssumption`).

Every safety property that holds is proved. Only model-checked: `UnpairedStaysOut`, which is false,
and liveness (`EventuallyMirrored`, `StuckIsRestarted`, `AppliedIsShown`, `EveryCallEnds`,
`EveryoneReturns`): liveness under fairness is out of TLAPS's reach. So is
induction over data: what is proved of `Backoff` comes from the least counterexample, a fact of
the library about numbers.

## 5. Plan

Modelled first was what carries every value from the device to the user, then
what decides whether a device is trusted and readable, then the way back, what
keeps a connection alive, the writes and the reads, and what starts, stops and shares
it all. Next, in this order:

1. `Classifier`: its one-shot requests over reconnects. Two observations to start from: the
   guard `requested` is never cleared (classification.go:137), and the fallback of the
   use-case callbacks stores data without an event (classification.go:283).
2. A provider that serves either the last valid sample or none, implemented by `Provider`;
   a mirror whose value is live or stale, implemented by `DeviceStateStream`.

## 6. Not modelled

* Validation of requests and conversion of values in the gRPC services, measurement
  catalogues: functions of a request. The choice of a device by an empty SKI: all calls of the
  models name their device. The listing and diagnostics RPCs, and the legacy event
  streams of each domain, which repeat the one that is modelled without its revisions.
* The classifier: planned. Everything else the use-case wrappers do is in `UseCaseReads`,
  but each callback is one step there, and the temperature wrapper that may list an entity of a
  connection just cleared (temperaturemonitoring.go:133) is not told apart from the others.
* What the health service publishes; TLS, tokens, certificates, configuration, mDNS, reflection:
  input and library calls. The flags of the composition root.
* Home Assistant's entities and forms: projections of the store and a wizard at a time. The
  migration of entries, which runs once.
* In the providers: events about consumers, the readers of the current sample and the single
  publishers (`CurrentXSnapshot`, `PublishPower` and their like), which have no caller, and the peak power
  that old clients embed in a PV sample.
* `retain` and `reference_count` of the runtime registry, which have no caller.

Times are abstract ticks everywhere; delays of back-off between stream attempts are left out,
a reconnect may simply happen at any time.
