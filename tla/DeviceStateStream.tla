--------------------------- MODULE DeviceStateStream ---------------------------
(***************************************************************************)
(* The consolidated device stream end to end, for one device:              *)
(*                                                                         *)
(*   live value --publish--> EventBus --subscribeRevisionedEvents-->       *)
(*   gRPC stream --handle_device_state_event--> Home Assistant state,      *)
(*                                                                         *)
(* and the poll that repairs what the stream reports lost.  The server     *)
(* side is internal/grpc/adapter_helpers.go and device_state_stream.go,    *)
(* the client side device_streams.py, streams.py and DevicePoller.poll in  *)
(* snapshot.py.                                                            *)
(*                                                                         *)
(* One telemetry leaf stands for the state: every change of the device     *)
(* gives it the next number, so a value says how old it is.  Payloads are  *)
(* read when an event is converted, not when it is published.  Absent is a *)
(* read that failed.  Each element of Sub is one incarnation of the        *)
(* stream: a channel on the bus, a goroutine and a call of the client.     *)
(***************************************************************************)
EXTENDS EventBus

CONSTANTS
    Device,            \* the one device
    NoStream,          \* the client is between two stream calls
    Absent,            \* a payload the bridge could not read
    NoRevision,        \* Python None in _last_revision
    ReadsFail,         \* BOOLEAN: may the bridge fail to read the leaf
    WireCapacity,      \* envelopes the transport holds before send blocks
    MaxLive            \* bound of the model on changes of the leaf

ASSUME DeviceAssumption ==
    /\ Device \in SKI /\ Device \in RawSKI /\ NormalizeSKI(Device) = Device
    /\ "delta" \in EventType
ASSUME ClientAssumption == NoStream \notin Sub /\ NoRevision \notin Nat

VARIABLES
    live,         \* the leaf as the bridge would read it now
    unpublished,  \* changes whose event callback has not reached the bus yet
    server,       \* [Sub -> program counter of subscribeRevisionedEvents]
    wire,         \* [Sub -> Seq(Envelope)]: the gRPC stream
    stream,       \* the incarnation the client iterates, or NoStream
    lastRevision, \* DeviceStreams._last_revision
    value,        \* the leaf in DeviceStateStore
    fresh,        \* is the leaf in fresh_fields
    refresh,      \* DeviceStreams._refresh_task: "idle" | "start" | "await"
    trailing,     \* DeviceStreams._refresh_pending
    poll,         \* DevicePoller.poll: "idle" | "sent" | "answered"
    polled,       \* what the answered poll read
    revised,      \* the leaf was dispatched to since the poll's base_revision
    queued,       \* the debouncer's timer owes a poll
    absorbed      \* it dropped a request since the last poll began

clientVars == <<stream, lastRevision, value, fresh, refresh, trailing>>
pollVars == <<poll, polled, revised, queued, absorbed>>
deviceVars == <<live, unpublished>>
serverVars == <<server, wire>>
streamVars == <<busVars, deviceVars, serverVars, clientVars, pollVars>>

Readings == 0..MaxLive \cup {Absent}
Envelope == [kind : {"snapshot", "delta", "ack", "device", "resync"},
             rev : Nat, val : Readings]

StreamInit ==
    /\ BusInit
    /\ live = 0
    /\ unpublished = 0
    /\ server = [s \in Sub |-> "new"]
    /\ wire = [s \in Sub |-> <<>>]
    /\ stream = NoStream
    /\ lastRevision = NoRevision
    /\ value = Absent
    /\ fresh = FALSE
    /\ refresh = "idle"
    /\ trailing = FALSE
    /\ poll = "idle"
    /\ polled = Absent
    /\ revised = FALSE
    /\ queued = FALSE
    /\ absorbed = FALSE

-----------------------------------------------------------------------------
(* The device and the producers of the bridge.                             *)

\* The protocol stack stores a new value and will then call the event handler.
Change ==
    /\ live < MaxLive
    /\ live' = live + 1
    /\ unpublished' = unpublished + 1
    /\ UNCHANGED <<busVars, serverVars, clientVars, pollVars>>

PublishChange ==
    /\ unpublished > 0
    /\ unpublished' = unpublished - 1
    /\ Publish(Device, "delta")
    /\ UNCHANGED <<live, serverVars, clientVars, pollVars>>

\* Events that carry no leaf: acknowledgements, connection changes and
\* classification updates.  The model keeps enough revisions in reserve for
\* every change of the leaf to be published.
PublishOther ==
    /\ revisions[Device] + unpublished + (MaxLive - live) < MaxRevision
    /\ \E type \in EventType \ {"delta", DiscoveryUpdated} : Publish(Device, type)
    /\ UNCHANGED <<deviceVars, serverVars, clientVars, pollVars>>

-----------------------------------------------------------------------------
(* The server goroutine of one stream: subscribeRevisionedEvents.          *)

\* What a read of the leaf may return now.
Read(v) == v = live \/ (ReadsFail /\ v = Absent)

\* send blocks while the transport is full and fails once the call is gone.
Send(s, envelope) ==
    /\ stream = s
    /\ Len(wire[s]) < WireCapacity
    /\ wire' = [wire EXCEPT ![s] = Append(@, envelope)]

ServeSubscribe(s) ==
    /\ stream = s
    /\ server[s] = "new"
    /\ SubscribeWithRevision(s, Device)
    /\ server' = [server EXCEPT ![s] = "initial"]
    /\ UNCHANGED <<deviceVars, wire, clientVars, pollVars>>

\* The snapshot is built after the subscription and carries its revision
\* (handedOut still is the one SubscribeWithRevision returned); a bridge that
\* cannot build it asks the client to resynchronise.
ServeInitial(s) ==
    /\ server[s] = "initial"
    /\ \/ \E v \in Readings :
            Read(v) /\ Send(s, [kind |-> "snapshot", rev |-> handedOut[s], val |-> v])
       \/ Send(s, [kind |-> "resync", rev |-> handedOut[s], val |-> Absent])
    /\ server' = [server EXCEPT ![s] = "take"]
    /\ UNCHANGED <<busVars, deviceVars, clientVars, pollVars>>

\* The top of the loop: a due marker is sent, otherwise the goroutine goes on
\* to wait for an event.
ServeResync(s) ==
    /\ server[s] = "take"
    /\ TakePendingResync(s)
    /\ Send(s, [kind |-> "resync", rev |-> revisions[Device], val |-> Absent])
    /\ UNCHANGED <<server, deviceVars, clientVars, pollVars>>

ServeNoResync(s) ==
    /\ stream = s
    /\ server[s] = "take"
    /\ \/ PostponeResync(s)
       \/ ~ResyncOwed(s) /\ UNCHANGED busVars
    /\ server' = [server EXCEPT ![s] = "select"]
    /\ UNCHANGED <<deviceVars, wire, clientVars, pollVars>>

\* deviceStateEnvelope: the leaf is read now, whatever it was at publication.
Converted(event, envelope) ==
    /\ envelope.rev = event.rev
    /\ envelope.kind = IF event.type = "classified" THEN "resync" ELSE event.type
    /\ IF event.type = "delta" THEN Read(envelope.val) ELSE envelope.val = Absent

ServeEvent(s) ==
    /\ server[s] = "select"
    /\ Receive(s)
    /\ \E envelope \in [kind : {"delta", "ack", "device", "resync"},
                        rev : {Head(queue[s]).rev}, val : Readings] :
            Converted(Head(queue[s]), envelope) /\ Send(s, envelope)
    /\ server' = [server EXCEPT ![s] = "take"]
    /\ UNCHANGED <<deviceVars, clientVars, pollVars>>

\* ctx.Done or a failed send: the goroutine returns and unsubscribes.
ServeEnd(s) ==
    /\ stream # s
    /\ server[s] \in {"initial", "take", "select"}
    /\ Unsubscribe(s)
    /\ server' = [server EXCEPT ![s] = "done"]
    /\ UNCHANGED <<deviceVars, wire, clientVars, pollVars>>

-----------------------------------------------------------------------------
(* The client: DeviceStreams.                                              *)

\* StreamManager._run_stream: a new call, with no revision known.
Connect(s) ==
    /\ stream = NoStream
    /\ server[s] = "new"
    /\ stream' = s
    /\ lastRevision' = NoRevision
    /\ UNCHANGED <<busVars, deviceVars, serverVars, value, fresh, refresh, trailing, pollVars>>

\* The call fails; what was in flight is lost.  The model lets this happen only
\* while another incarnation is left.
BreakStream ==
    /\ stream # NoStream
    /\ \E s \in Sub : server[s] = "new" /\ s # stream
    /\ server' = [server EXCEPT ![stream] = IF @ = "new" THEN "done" ELSE @]
    /\ wire' = [wire EXCEPT ![stream] = <<>>]
    /\ stream' = NoStream

Break ==
    /\ BreakStream
    /\ UNCHANGED <<busVars, deviceVars, lastRevision, value, fresh, refresh, trailing, pollVars>>

\* _refresh: start the task, or ask the running one for a trailing pass.
RefreshForgetful ==  \* mutant: a request during a running refresh is ignored
    /\ refresh' = IF refresh = "idle" THEN "start" ELSE refresh
    /\ trailing' = FALSE
Refresh ==
    /\ refresh' = IF refresh = "idle" THEN "start" ELSE refresh
    /\ trailing' = (refresh # "idle")
NoRefresh == UNCHANGED <<refresh, trailing>>

\* Dispatching the leaf to the store, as observed or as unavailable.
Observe(v) ==
    /\ value' = IF v = Absent THEN value ELSE v
    /\ fresh' = (v # Absent)
    /\ revised' = TRUE
ObserveNothing == UNCHANGED <<value, fresh, revised>>

Gap(rev) == lastRevision # NoRevision /\ rev # lastRevision + 1

StaleEnvelope(rev) == lastRevision # NoRevision /\ rev <= lastRevision

\* handle_device_state_event.  A provider acknowledgement changes nothing; a
\* connection event always asks for the reconciliation poll.
HandleEnvelope ==
    /\ stream # NoStream
    /\ wire[stream] # <<>>
    /\ wire' = [wire EXCEPT ![stream] = Tail(@)]
    /\ LET e == Head(wire[stream])
       IN  IF StaleEnvelope(e.rev)
           THEN UNCHANGED <<lastRevision, value, fresh, revised, refresh, trailing>>
           ELSE /\ lastRevision' = e.rev
                /\ IF e.kind \in {"snapshot", "delta"} THEN Observe(e.val) ELSE ObserveNothing
                /\ IF Gap(e.rev) \/ e.kind \in {"resync", "device"} THEN Refresh ELSE NoRefresh
    /\ UNCHANGED <<busVars, deviceVars, server, stream, poll, polled, queued, absorbed>>

-----------------------------------------------------------------------------
(* Refreshes and polls.  Home Assistant's coordinator, an external library, *)
(* runs one poll at a time, on request or periodically.  Its Debouncer      *)
(* holds a lock while it polls and drops every request made meanwhile.      *)

\* A poll that begins cancels the debouncer's timer.
BeginPollOldBase ==  \* mutant: base_revision is taken once, not by each poll
    /\ poll = "idle"
    /\ poll' = "sent"
    /\ queued' = FALSE /\ absorbed' = FALSE
    /\ UNCHANGED <<polled, revised>>
BeginPoll ==
    /\ poll = "idle"
    /\ poll' = "sent"
    /\ revised' = FALSE
    /\ queued' = FALSE /\ absorbed' = FALSE
    /\ UNCHANGED polled

\* _run_refresh calls async_request_refresh: it polls at once, leaves the poll
\* to the debouncer's timer, or finds a poll in flight and is dropped.
RefreshCall ==
    /\ refresh = "start"
    /\ trailing' = FALSE
    /\ refresh' = "await"
    /\ \/ ~queued /\ BeginPoll
       \/ poll = "idle" /\ queued' = TRUE /\ UNCHANGED <<poll, polled, revised, absorbed>>
       \/ poll # "idle" /\ absorbed' = TRUE /\ UNCHANGED <<poll, polled, revised, queued>>
    /\ UNCHANGED <<busVars, deviceVars, serverVars, stream, lastRevision, value, fresh>>

\* The call returns, with or without a poll behind it, and a signal that came
\* in meanwhile gets exactly one trailing pass.
RefreshReturn ==
    /\ refresh = "await"
    /\ refresh' = IF trailing THEN "start" ELSE "idle"
    /\ UNCHANGED <<busVars, deviceVars, serverVars, stream, lastRevision, value, fresh,
                   trailing, pollVars>>

TimedPoll ==
    /\ queued
    /\ BeginPoll
    /\ UNCHANGED <<busVars, deviceVars, serverVars, clientVars>>

PeriodicPoll ==
    /\ BeginPoll
    /\ UNCHANGED <<busVars, deviceVars, serverVars, clientVars>>

\* GetDeviceSnapshot reads the bridge.
PollRead ==
    /\ poll = "sent"
    /\ poll' = "answered"
    /\ Read(polled')
    /\ polled' \in Readings
    /\ UNCHANGED <<busVars, deviceVars, serverVars, clientVars, revised, queued, absorbed>>

\* The observation is reduced with its base_revision: a leaf dispatched to since
\* the poll began keeps what the stream gave it.
NeverProtected == FALSE  \* mutant: base_revision is not passed on
Protected == revised

PollApply ==
    /\ poll = "answered"
    /\ poll' = "idle"
    /\ polled' = Absent
    /\ IF Protected THEN ObserveNothing ELSE Observe(polled)
    /\ UNCHANGED <<busVars, deviceVars, serverVars, stream, lastRevision, refresh, trailing,
                   queued, absorbed>>

\* _async_update_data: a failed poll invalidates the channel, which ends the
\* stream as well.
PollFail ==
    /\ poll \in {"sent", "answered"}
    /\ poll' = "idle"
    /\ polled' = Absent
    /\ BreakStream
    /\ UNCHANGED <<busVars, deviceVars, lastRevision, value, fresh, refresh, trailing,
                   revised, queued, absorbed>>

-----------------------------------------------------------------------------

Serve(s) ==
    \/ ServeSubscribe(s) \/ ServeInitial(s) \/ ServeResync(s)
    \/ ServeNoResync(s) \/ ServeEvent(s) \/ ServeEnd(s)

StreamNext ==
    \/ Change \/ PublishChange \/ PublishOther
    \/ \E s \in Sub : Serve(s) \/ Connect(s)
    \/ Break \/ HandleEnvelope
    \/ RefreshCall \/ RefreshReturn
    \/ TimedPoll \/ PeriodicPoll \/ PollRead \/ PollApply \/ PollFail

StreamSpec == StreamInit /\ [][StreamNext]_streamVars

\* Goroutines and event-loop tasks that can run do run; the coordinator polls
\* every five minutes.  Nothing forces the device to change or the network to fail.
StreamFairness ==
    /\ WF_streamVars(PublishChange)
    /\ \A s \in Sub : WF_streamVars(Serve(s)) /\ WF_streamVars(Connect(s))
    /\ WF_streamVars(HandleEnvelope)
    /\ WF_streamVars(RefreshCall)
    /\ WF_streamVars(RefreshReturn)
    /\ WF_streamVars(TimedPoll)
    /\ WF_streamVars(PeriodicPoll)
    /\ WF_streamVars(PollRead)
    /\ WF_streamVars(PollApply)

FairStreamSpec == StreamSpec /\ StreamFairness

-----------------------------------------------------------------------------

\* Nothing is on its way to the client any more.
Quiet ==
    /\ stream # NoStream
    /\ server[stream] \in {"take", "select"}
    /\ unpublished = 0
    /\ queue[stream] = <<>> /\ pendingDropped[stream] = 0
    /\ wire[stream] = <<>>
    /\ refresh = "idle" /\ poll = "idle" /\ ~queued

\* The client mirrors the device: once nothing is in flight, a leaf the client
\* shows as fresh is the device's, whatever was dropped, reordered, overtaken by
\* a poll or lost with a broken stream on the way (Publish, TakePendingResync,
\* handle_device_state_event, poll), unless Home Assistant's debouncer has
\* dropped a request for a poll since the last one began: that request was the
\* repair, and the leaf stays wrong until the next poll (EventuallyMirrored).
Converged == Quiet /\ ~absorbed => (fresh => value = live)

\* A goroutine never waits for an event while a drop it should report is pending
\* and nothing is left in the channel to wake it (subscribeRevisionedEvents).
NoStrandedResync ==
    \A s \in Sub : server[s] = "select" /\ stream = s /\ queue[s] = <<>>
                        => pendingDropped[s] = 0

\* If the device stops changing, the client ends up showing its last value and
\* keeps showing it: the periodic poll repairs even an absorbed refresh.
EventuallyMirrored == <>[](fresh /\ value = live)

=============================================================================
