----------------------------- MODULE ProviderPush -----------------------------
(***************************************************************************)
(* The whole way of a provider's samples: the sensors mapped to it in Home *)
(* Assistant, the worker that pushes them (ProviderManager and             *)
(* _ProviderPusher in providers.py), gRPC, and the provider of the bridge. *)
(*                                                                         *)
(* A reconfiguration starts a new manager before it stops the old one      *)
(* (coordinator.py).  A client that gives up on a call, on a time-out, a   *)
(* broken channel or because its worker is cancelled, learns nothing of    *)
(* what becomes of it: the bridge ignores the cancellation.                *)
(***************************************************************************)
EXTENDS Provider

CONSTANTS
    Manager,     \* provider managers, one after another
    First,       \* the manager that setup starts
    Unavailable  \* the sensor has no usable state

ASSUME ManagerAssumption == First \in Manager /\ Unavailable \notin Value

VARIABLES
    sensor,       \* [Manager -> state of the sensor it maps]
    manager,      \* [Manager -> life cycle]
    dirty,        \* [Manager -> its worker's event]
    pushing,      \* [Manager -> the call its worker awaits, or Nobody]
    invalidated,  \* [Manager -> _provider_invalidated]
    succeeded,    \* history: [Manager -> its latest push did what it should]
    disturbed     \* history: two managers have run at once, or a call was given up

haVars == <<sensor, manager, dirty, pushing, invalidated, succeeded, disturbed>>
pushVars == <<providerVars, haVars>>

PushInit ==
    /\ ProviderInit
    /\ \E state \in Value \cup {Unavailable} :
          sensor = [m \in Manager |-> IF m = First THEN state ELSE Unavailable]
    /\ manager = [m \in Manager |-> IF m = First THEN "running" ELSE "new"]
    /\ dirty = [m \in Manager |-> m = First]
    /\ pushing = [m \in Manager |-> Nobody]
    /\ invalidated = [m \in Manager |-> FALSE]
    /\ succeeded = [m \in Manager |-> FALSE]
    /\ disturbed = FALSE

-----------------------------------------------------------------------------

Bridge == BridgeNext /\ UNCHANGED haVars

\* A replaced manager works on until it is stopped.
Working(m) == manager[m] \in {"running", "replaced"}

\* The state change calls _on_change, which signals the worker.
SensorChange(m) ==
    /\ Working(m)
    /\ \E state \in (Value \cup {Unavailable}) \ {sensor[m]} :
          sensor' = [sensor EXCEPT ![m] = state]
    /\ dirty' = [dirty EXCEPT ![m] = TRUE]
    /\ UNCHANGED <<providerVars, manager, pushing, invalidated, succeeded, disturbed>>

\* _async_publish_provider sends the sample; the manager awaits the answer.
StartCall(m, value) ==
    \E c \in Caller : Send(c, value) /\ pushing' = [pushing EXCEPT ![m] = c]

\* _async_invalidate_grid_data and its siblings: not twice in a row, and not at all while
\* the bridge is not known to understand it.
InvalidateUnlessDone(m) ==
    \/ succeeded' = [succeeded EXCEPT ![m] = FALSE] /\ UNCHANGED <<providerVars, pushing>>
    \/ /\ invalidated[m]
       /\ succeeded' = [succeeded EXCEPT ![m] = TRUE] /\ UNCHANGED <<providerVars, pushing>>
    \/ /\ ~invalidated[m]
       /\ StartCall(m, Invalid) /\ UNCHANGED succeeded

Undirtied(m) == dirty' = [dirty EXCEPT ![m] = FALSE]

\* _run and async_push_grid_data: the event is cleared before the sensor is read.
PushBegin(m) ==
    /\ Working(m) /\ dirty[m] /\ pushing[m] = Nobody
    /\ Undirtied(m)
    /\ IF sensor[m] = Unavailable
       THEN InvalidateUnlessDone(m)
       ELSE StartCall(m, sensor[m]) /\ UNCHANGED succeeded
    /\ UNCHANGED <<sensor, manager, invalidated, disturbed>>

\* mutant: the event is cleared when the push is over
PushEndClearing(m, c) == dirty' = [dirty EXCEPT ![m] = FALSE]
PushEndDirty(m, c) == UNCHANGED dirty

Freed(c) ==
    /\ calls' = [calls EXCEPT ![c] = NoCall]
    /\ UNCHANGED <<now, sends, publishMu, servedVars, storeVars>>

OfPeak(c) == calls[c].has = {"peak"}
Stopped(m) == manager' = [manager EXCEPT ![m] = IF @ = "stopping" THEN "stopped" ELSE @]

\* async_push_pv_data: the peak power follows the sample, whatever became of it.
PushPeak(m, c, sample) ==
    /\ sample # Invalid
    /\ SendPeak(c)
    /\ pushing' = [pushing EXCEPT ![m] = c]
    /\ UNCHANGED manager

SampleEnd(m, c) ==
    /\ succeeded' = [succeeded EXCEPT ![m] = calls[c].step = "ok"]
    /\ invalidated' = [invalidated EXCEPT ![m] = IF calls[c].step = "ok" THEN calls[c].value = Invalid ELSE @]

PushEnd(m) ==
    LET c == pushing[m]
    IN  /\ c # Nobody
        /\ calls[c].step \in {"ok", "failed"}
        /\ IF OfPeak(c) THEN UNCHANGED <<succeeded, invalidated>> ELSE SampleEnd(m, c)
        /\ \/ Freed(c) /\ pushing' = [pushing EXCEPT ![m] = Nobody] /\ Stopped(m)
           \/ PushPeak(m, c, calls[c].value)
        /\ PushEndDirty(m, c)
        /\ UNCHANGED <<sensor, disturbed>>

-----------------------------------------------------------------------------
(* Clients that do not wait.                                               *)

Dropped(m) ==
    /\ succeeded' = [succeeded EXCEPT ![m] = FALSE]
    /\ disturbed' = (disturbed \/ pushing[m] # Nobody)

\* The worker is cancelled; the model forgets what nobody asks for any more.
Cancel(m) ==
    /\ Dropped(m)
    /\ pushing' = [pushing EXCEPT ![m] = Nobody]
    /\ sensor' = [sensor EXCEPT ![m] = Unavailable]
    /\ dirty' = [dirty EXCEPT ![m] = FALSE]
    /\ UNCHANGED <<providerVars, invalidated>>

GiveUp(m) ==
    LET given == pushing[m]
    IN  /\ given # Nobody
        /\ Dropped(m)
        /\ \/ pushing' = [pushing EXCEPT ![m] = Nobody] /\ Stopped(m) /\ UNCHANGED providerVars
           \/ \E c \in Caller : calls[c] = NoCall /\ PushPeak(m, c, calls[given].value)
        /\ UNCHANGED <<sensor, dirty, invalidated>>

Orphan(c) == calls[c] # NoCall /\ \A m \in Manager : pushing[m] # c

\* The bridge has finished the call nobody awaits, or never gets it.
Forget(c) ==
    /\ Orphan(c)
    /\ calls[c].step \in {"sent", "ok", "failed"}
    /\ Freed(c)
    /\ UNCHANGED haVars

-----------------------------------------------------------------------------
(* async_reconfigure_providers, and the unloading of the entry.            *)

Replace(m) ==
    /\ manager[m] = "new"
    /\ \E k \in Manager :
        /\ manager[k] = "running"
        /\ manager' = [manager EXCEPT ![k] = "replaced", ![m] = "running"]
    /\ \E state \in Value \cup {Unavailable} : sensor' = [sensor EXCEPT ![m] = state]
    /\ dirty' = [dirty EXCEPT ![m] = TRUE]
    /\ disturbed' = TRUE
    /\ UNCHANGED <<providerVars, pushing, invalidated, succeeded>>

\* The previous manager is stopped without an invalidation.
StopPrevious(m) ==
    /\ manager[m] = "replaced"
    /\ manager' = [manager EXCEPT ![m] = "stopped"]
    /\ Cancel(m)

\* async_stop: the worker is cancelled, then the sample invalidated.
Unload(m) ==
    /\ manager[m] = "running" /\ \A k \in Manager : manager[k] # "replaced"
    /\ manager' = [manager EXCEPT ![m] = "stopping"]
    /\ Cancel(m)

UnloadInvalidate(m) ==
    /\ manager[m] = "stopping" /\ pushing[m] = Nobody
    /\ InvalidateUnlessDone(m)
    /\ manager' = [manager EXCEPT ![m] = IF pushing' = pushing THEN "stopped" ELSE @]
    /\ UNCHANGED <<sensor, dirty, invalidated, disturbed>>

PushNext ==
    \/ Bridge
    \/ \E m \in Manager :
        \/ SensorChange(m) \/ PushBegin(m) \/ PushEnd(m) \/ GiveUp(m)
        \/ Replace(m) \/ StopPrevious(m) \/ Unload(m) \/ UnloadInvalidate(m)
    \/ \E c \in Caller : Forget(c)

PushSpec == PushInit /\ [][PushNext]_pushVars

-----------------------------------------------------------------------------

Settled(m) ==
    /\ manager[m] = "running" /\ \A k \in Manager : manager[k] # "replaced"
    /\ ~dirty[m] /\ pushing[m] = Nobody
    /\ publishMu = Free /\ ~closed

\* When the worker has nothing to do and its latest push went well, consumers read
\* the sensor's present value, an expired one or none, and none of an unavailable
\* sensor: no burst of changes is coalesced away and no invalidation saved that
\* was needed (_run, _async_invalidate_grid_data).  Excepted are behaviours in
\* which a call was given up or two managers worked at once, see disturbed.
SensorServed ==
    \A m \in Manager : Settled(m) /\ succeeded[m] /\ ~disturbed =>
        wire["power"] \in {Invalid, sensor[m]}

=============================================================================
