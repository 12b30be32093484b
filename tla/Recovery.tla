------------------------------- MODULE Recovery -------------------------------
(***************************************************************************)
(* The recovery supervisor (internal/eebus/recovery.go) under the watchdog *)
(* of the bridge (app.go): a connected device that stops answering is      *)
(* registered anew with the stack, with a growing delay, and when every    *)
(* relevant device has used up its attempts the process restarts.          *)
(*                                                                         *)
(* The health rows of the registry change under the supervisor's hands;    *)
(* what else their handlers do is Registry's subject, and each is one step *)
(* here.  Times are ages in watchdog intervals; an age that exceeds its    *)
(* threshold grows no more.  A tick is many steps of the watchdog          *)
(* goroutine but takes less than an interval, and no service callback is   *)
(* as late as one.                                                         *)
(***************************************************************************)
EXTENDS Naturals, Sequences

CONSTANTS
    SKI,
    Paired,              \* devices the user pairs and unpairs, the others are configured
    Beating,             \* devices that report LPC heartbeats
    GracePeriod,         \* monitoringGracePeriod
    StaleThreshold,      \* monitoringStaleThreshold
    HeartbeatTolerance,  \* remoteHeartbeatTolerance
    BaseBackoff,         \* RecoveryConfig.BaseBackoff
    MaxBackoff,          \* RecoveryConfig.MaxBackoff
    MaxAttempts,         \* RecoveryConfig.MaxAttempts
    MaxPending           \* bound of the model on callbacks waiting per device

ASSUME DeviceAssumption == Beating \subseteq SKI /\ Paired \subseteq SKI
ASSUME ThresholdAssumption ==
    {GracePeriod, StaleThreshold, HeartbeatTolerance, BaseBackoff, MaxBackoff, MaxAttempts}
        \subseteq Nat \ {0}
ASSUME BackoffAssumption == BaseBackoff <= MaxBackoff
ASSUME PendingAssumption == MaxPending \in Nat

VARIABLES
    row,         \* registry: [SKI -> its health row]
    required,    \* registry: devices whose heartbeats are required
    removed,     \* registry: tombstones
    registered,  \* stack: trusted devices
    link,        \* stack: connected devices
    pending,     \* stack: [SKI -> callbacks to run]
    silent,      \* devices that answer nothing any more
    record,      \* [SKI -> recoveryRecord]
    tick,        \* the watchdog goroutine
    restart,     \* RestartRequired was reported
    heard,       \* [SKI -> what came from it since its latest attempt]
    heardInTick, \* [SKI -> what came from it since the running tick began]
    tries,       \* history: [SKI -> reconnects since it last proved alive]
    pause        \* history: [SKI -> age of its latest reconnect]

registryVars == <<row, required, removed>>
stackVars == <<registered, link, pending>>
supervisorVars == <<record, tick, restart>>
heardVars == <<heard, heardInTick>>
historyVars == <<tries, pause>>
vars == <<registryVars, stackVars, silent, supervisorVars, heardVars, historyVars>>

Larger(a, b) == IF a > b THEN a ELSE b
Smaller(a, b) == IF a < b THEN a ELSE b

\* An age grows until it exceeds its threshold; Never exceeds every one.
Aged(age, threshold) == IF age <= threshold THEN age + 1 ELSE age
Never == Larger(Larger(GracePeriod, StaleThreshold), Larger(HeartbeatTolerance, MaxBackoff)) + 2

-----------------------------------------------------------------------------
(* Health rows.  A read counts for the connection it was made on, so its   *)
(* age starts anew with each (monitoringSuccessOnConnect).                 *)

NoRow == [health |-> "unknown", trusted |-> FALSE, since |-> Never, read |-> Never, beat |-> Never]

MarkConnected(r) ==
    IF r.health = "connected" THEN r
    ELSE [health |-> "connected", trusted |-> TRUE, since |-> 0, read |-> Never, beat |-> Never]
MarkDisconnected(r) == IF r.health = "connected" THEN [r EXCEPT !.health = "disconnected"] ELSE r
MarkTrusted(r) ==
    [r EXCEPT !.health = IF @ = "unknown" THEN "disconnected" ELSE @, !.trusted = TRUE]
MarkUntrusted(r) == [r EXCEPT !.health = "disconnected", !.trusted = FALSE]

\* MonitoringSuccessOnConnect of a DeviceHealthSnapshot.
ReadOnConnect(d) ==
    row[d].read # Never /\ (d \in required => row[d].beat # Never)

\* StaleDevices.
Stale(d) ==
    /\ row[d].health = "connected" /\ row[d].since > GracePeriod
    /\ \/ row[d].read > StaleThreshold
       \/ d \in required /\ row[d].beat > HeartbeatTolerance

\* MonitoringSuccessSince: the heartbeat counts only where it is required.
Success(d, evidence) == "read" \in evidence /\ (d \in required => "beat" \in evidence)

-----------------------------------------------------------------------------
(* The devices, the stack and the registry's handlers.                     *)

NoRecord == [state |-> "none", attempts |-> 0, wait |-> 0, waits |-> FALSE]
NoTick == [step |-> "idle", at |-> {}, health |-> [d \in SKI |-> "unknown"], stale |-> {}, todo |-> {}]

Init ==
    /\ row = [d \in SKI |-> NoRow]
    /\ required = {} /\ removed = {}
    /\ registered = SKI \ Paired
    /\ link = {}
    /\ pending = [d \in SKI |-> <<>>]
    /\ silent = {}
    /\ record = [d \in SKI |-> NoRecord]
    /\ tick = NoTick
    /\ restart = FALSE
    /\ heard = [d \in SKI |-> {}] /\ heardInTick = [d \in SKI |-> {}]
    /\ tries = [d \in SKI |-> 0]
    /\ pause = [d \in SKI |-> Never]

Post(d, callback) == pending' = [pending EXCEPT ![d] = Append(@, callback)]

\* UnregisterRemoteService closes the connection.
Drop(d) ==
    /\ registered' = registered \ {d}
    /\ link' = link \ {d}
    /\ IF d \in link THEN Post(d, "disconnected") ELSE UNCHANGED pending

\* TrustController.RegisterSKI and UnregisterSKI.
Pair(d) ==
    /\ d \in Paired
    /\ registered' = registered \cup {d}
    /\ row' = [row EXCEPT ![d] = MarkTrusted(@)]
    /\ removed' = removed \ {d}
    /\ UNCHANGED <<required, link, pending, silent, supervisorVars, heardVars, historyVars>>

Unpair(d) ==
    /\ d \in Paired \ silent
    /\ Drop(d)
    /\ row' = [row EXCEPT ![d] = NoRow]
    /\ removed' = removed \cup {d}
    /\ required' = required \ {d}
    /\ heard' = [heard EXCEPT ![d] = {}] /\ heardInTick' = [heardInTick EXCEPT ![d] = {}]
    /\ UNCHANGED <<silent, supervisorVars, historyVars>>

\* The peer revokes its trust.
Revoke(d) ==
    /\ d \in (Paired \cap registered) \ silent
    /\ Drop(d)
    /\ row' = [row EXCEPT ![d] = IF d \in removed THEN @ ELSE MarkUntrusted(@)]
    /\ UNCHANGED <<required, removed, silent, supervisorVars, heardVars, historyVars>>

LinkUp(d) ==
    /\ d \in registered \ link /\ Len(pending[d]) < MaxPending
    /\ link' = link \cup {d}
    /\ Post(d, "connected")
    /\ UNCHANGED <<registryVars, registered, silent, supervisorVars, heardVars, historyVars>>

LinkDown(d) ==
    /\ d \in link \ silent /\ Len(pending[d]) < MaxPending
    /\ link' = link \ {d}
    /\ Post(d, "disconnected")
    /\ UNCHANGED <<registryVars, registered, silent, supervisorVars, heardVars, historyVars>>

\* A new connection forgets the heartbeats of the one before.
Callback(d) ==
    /\ pending[d] # <<>>
    /\ pending' = [pending EXCEPT ![d] = Tail(@)]
    /\ row' = [row EXCEPT ![d] = IF d \in removed THEN @
                                 ELSE IF Head(pending[d]) = "connected" THEN MarkConnected(@)
                                 ELSE MarkDisconnected(@)]
    /\ LET kept == IF row'[d].beat = Never THEN {"read"} ELSE {"read", "beat"}
       IN  /\ heard' = [heard EXCEPT ![d] = @ \cap kept]
           /\ heardInTick' = [heardInTick EXCEPT ![d] = @ \cap kept]
    /\ UNCHANGED <<required, removed, registered, link, silent, supervisorVars, historyVars>>

\* RecordCapabilitySupport of the heartbeat capability.
Support(d) ==
    /\ d \in (Beating \cap link) \ (silent \cup removed)
    /\ required' = required \cup {d}
    /\ UNCHANGED <<row, removed, stackVars, silent, supervisorVars, heardVars, historyVars>>

\* What is heard matters from an attempt on, or from the tick that may make one.
Hear(d, what) ==
    /\ heard' = [heard EXCEPT ![d] = IF record[d].attempts > 0 THEN @ \cup {what} ELSE @]
    /\ heardInTick' = [heardInTick EXCEPT ![d] = IF tick.step = "idle" THEN @ ELSE @ \cup {what}]
    /\ tries' = [tries EXCEPT ![d] = IF Success(d, heard'[d]) THEN 0 ELSE @]

\* RecordMonitoringSuccess asks for a row, not for a connection.
Read(d) ==
    /\ row[d].health # "unknown" /\ d \notin silent
    /\ row' = [row EXCEPT ![d].read = IF row[d].health = "connected" THEN 0 ELSE Never]
    /\ Hear(d, "read")
    /\ UNCHANGED <<required, removed, stackVars, silent, supervisorVars, pause>>

\* RecordRemoteHeartbeat.
Beat(d) ==
    /\ row[d].health = "connected" /\ d \in Beating \ silent
    /\ row' = [row EXCEPT ![d].beat = 0]
    /\ Hear(d, "beat")
    /\ UNCHANGED <<required, removed, stackVars, silent, supervisorVars, pause>>

\* From now on the device keeps its connection and its trust and answers nothing.
FallSilent(d) ==
    /\ d \in registered \ (silent \cup removed)
    /\ silent' = silent \cup {d}
    /\ UNCHANGED <<registryVars, stackVars, supervisorVars, heardVars, historyVars>>

-----------------------------------------------------------------------------
(* Tick and what it calls.                                                 *)

\* DeviceHealthSnapshot, as far as the supervisor tells snapshots apart.
Snapshot(d) ==
    CASE row[d].health = "unknown" -> "unknown"
      [] row[d].health # "unknown" /\ ~row[d].trusted -> "untrusted"
      [] row[d].health = "disconnected" /\ row[d].trusted -> "disconnected"
      [] OTHER -> IF ReadOnConnect(d) THEN "read" ELSE "unread"

\* An interval has passed, and the ticker fires; ListDeviceHealth is read.
TickBegin ==
    /\ tick.step = "idle" /\ ~restart
    /\ \A d \in SKI : pending[d] = <<>>
    /\ row' = [d \in SKI |-> [row[d] EXCEPT !.since = Aged(@, GracePeriod),
                                            !.read = Aged(@, StaleThreshold),
                                            !.beat = Aged(@, HeartbeatTolerance)]]
    /\ record' = [d \in SKI |-> [record[d] EXCEPT !.wait = IF @ = 0 THEN 0 ELSE @ - 1]]
    /\ pause' = [d \in SKI |-> Aged(pause[d], MaxBackoff)]
    /\ tick' = [NoTick EXCEPT !.step = "scan", !.health = [d \in SKI |-> Snapshot(d)]]
    /\ UNCHANGED <<required, removed, stackVars, silent, restart, heardVars, tries>>

TickScan ==
    /\ tick.step = "scan"
    /\ LET stale == {d \in SKI : Stale(d)}
       IN  tick' = [tick EXCEPT !.step = "run", !.stale = stale,
                                !.todo = stale \cup {d \in SKI : tick.health[d] # "unknown"}]
    /\ UNCHANGED <<registryVars, stackVars, silent, record, restart, heardVars, historyVars>>

Done(d) == tick' = [tick EXCEPT !.step = "run", !.at = {}, !.todo = @ \ {d}]

\* backoff: doubled with every attempt but the first, up to MaxBackoff.
Backoff[attempt \in Nat] ==
    IF attempt <= 1 THEN BaseBackoff ELSE Smaller(2 * Backoff[attempt - 1], MaxBackoff)

Recorded(d, new) == record' = [record EXCEPT ![d] = new]

WaitingOnce(r) ==  \* mutant: only the first attempt waits
    r.state = "grace_period" /\ r.waits /\ r.wait > 0 /\ r.attempts = 0
\* A NextAttemptAt that is set and has not come.
Waiting(r) == r.state = "grace_period" /\ r.waits /\ r.wait > 0

\* recover, up to the release of its mutex.
Recover(d) ==
    LET r == record[d]
    IN  \/ /\ r.state \in {"recovering", "exhausted"} \/ Waiting(r)
           /\ Done(d)
           /\ UNCHANGED <<record, heard, historyVars>>
        \/ /\ r.state \notin {"recovering", "exhausted"} /\ ~Waiting(r) /\ r.attempts >= MaxAttempts
           /\ Recorded(d, [r EXCEPT !.state = "exhausted"])
           /\ Done(d)
           /\ UNCHANGED <<heard, historyVars>>
        \/ /\ r.state \notin {"recovering", "exhausted"} /\ ~Waiting(r) /\ r.attempts < MaxAttempts
           /\ Recorded(d, [r EXCEPT !.state = "recovering", !.attempts = @ + 1])
           /\ tick' = [tick EXCEPT !.step = "unregister", !.at = {d}]
           /\ heard' = [heard EXCEPT ![d] = heardInTick[d]]
           /\ tries' = [tries EXCEPT ![d] = IF Success(d, heardInTick[d]) THEN 0 ELSE @ + 1]
           /\ pause' = [pause EXCEPT ![d] = 0]

TickStale(d) ==
    /\ tick.step = "run" /\ d \in tick.todo \cap tick.stale
    /\ Recover(d)
    /\ UNCHANGED <<registryVars, stackVars, silent, restart, heardInTick>>

Unregister(d) ==
    /\ tick.step = "unregister" /\ d \in tick.at
    /\ Drop(d)
    /\ tick' = [tick EXCEPT !.step = "register"]
    /\ UNCHANGED <<registryVars, silent, record, restart, heardVars, historyVars>>

\* The record, which no other goroutine writes, is settled with the call.
Register(d) ==
    /\ tick.step = "register" /\ d \in tick.at
    /\ registered' = registered \cup {d}
    /\ Recorded(d, [record[d] EXCEPT !.state = "grace_period", !.waits = TRUE,
                                     !.wait = Backoff[record[d].attempts]])
    /\ Done(d)
    /\ UNCHANGED <<registryVars, link, pending, silent, restart, heardVars, historyVars>>

\* reconcileHealthy, of a device that is not or should not be connected.
ExcusedAnew(r, health) == [NoRecord EXCEPT !.state = health]  \* mutant: attempts are forgotten
Excused(r, health) == [r EXCEPT !.state = health]

\* An attempt asks for an answer since, not for one on the connection.
Recovered(d) ==
    IF record[d].attempts > 0 THEN Success(d, heard[d]) ELSE tick.health[d] = "read"

Grace(r) ==
    [r EXCEPT !.state = "grace_period", !.waits = TRUE, !.wait = IF r.waits THEN @ ELSE GracePeriod]

Reconcile(d) ==
    LET r == record[d]
        absent == tick.health[d] \in {"untrusted", "disconnected"}
    IN  /\ tick.step = "run" /\ d \in tick.todo /\ tick.todo \cap tick.stale = {}
        /\ \/ /\ absent
              /\ Recorded(d, Excused(r, tick.health[d]))
              /\ Done(d)
              /\ UNCHANGED <<heard, historyVars>>
           \/ /\ ~absent /\ Recovered(d)
              /\ Recorded(d, [NoRecord EXCEPT !.state = "healthy"])
              /\ heard' = [heard EXCEPT ![d] = {}]
              /\ Done(d)
              /\ UNCHANGED historyVars
           \/ /\ ~absent /\ ~Recovered(d) /\ r.state = "grace_period" /\ ~Waiting(r)
              /\ Recover(d)
           \/ /\ ~absent /\ ~Recovered(d) /\ (r.state # "grace_period" \/ Waiting(r))
              /\ Recorded(d, IF r.state = "exhausted" THEN r ELSE Grace(r))
              /\ Done(d)
              /\ UNCHANGED <<heard, historyVars>>
        /\ UNCHANGED <<registryVars, stackVars, silent, restart, heardInTick>>

\* restartDecision.  restartSignalled is left out: the first restart ends the watchdog.
Relevant == {d \in SKI : tick.health[d] \in {"read", "unread"}}
RestartRequiredByOne == \E d \in Relevant : record[d].state = "exhausted"  \* mutant
RestartRequiredByAll ==  \* mutant: devices that are not connected count
    Relevant # {} /\ \A d \in SKI : record[d].state = "exhausted"
RestartRequired == Relevant # {} /\ \A d \in Relevant : record[d].state = "exhausted"

TickEnd ==
    /\ tick.step = "run" /\ tick.todo = {}
    /\ restart' = RestartRequired
    /\ tick' = NoTick
    /\ heardInTick' = [d \in SKI |-> {}]
    /\ UNCHANGED <<registryVars, stackVars, silent, record, heard, historyVars>>

Watchdog ==
    \/ TickBegin \/ TickScan \/ TickEnd
    \/ \E d \in SKI : TickStale(d) \/ Unregister(d) \/ Register(d) \/ Reconcile(d)

Next ==
    \/ \E d \in SKI :
        \/ Pair(d) \/ Unpair(d) \/ Revoke(d) \/ FallSilent(d)
        \/ LinkUp(d) \/ LinkDown(d) \/ Callback(d)
        \/ Support(d) \/ Read(d) \/ Beat(d)
    \/ Watchdog

Spec == Init /\ [][Next]_vars

\* The watchdog ticks, and a registered device in reach connects.
Fairness ==
    /\ WF_vars(Watchdog)
    /\ \A d \in SKI : WF_vars(LinkUp(d)) /\ WF_vars(Callback(d))

FairSpec == Spec /\ Fairness

-----------------------------------------------------------------------------
(* Properties.                                                             *)

\* A device is never reconnected more than MaxAttempts times without an answer in
\* between, whatever becomes of its connection and its trust meanwhile (recover,
\* reconcileHealthy): flapping does not put off the restart.
AttemptsBounded == \A d \in SKI : tries[d] <= MaxAttempts

\* A reconnect follows the one before no sooner than the delay of the attempts
\* since the device last answered, over whatever disconnects (backoff, NextAttemptAt).
RetriesSpaced ==
    [][\A d \in SKI :
          d \in tick'.at \ tick.at /\ tries[d] > 0 => pause[d] >= Backoff[tries[d]]]_vars

\* What has confirmed the device on its connection is older than the running tick.
Confirmed(d) ==
    /\ row[d].health = "connected" /\ row[d].since > 0
    /\ row[d].read \in 1 .. Never - 1
    /\ d \in required => row[d].beat \in 1 .. Never - 1

\* The process restarts only when no relevant device works ("alle aktuell
\* relevanten Geraete", SPEC4-05 of docs/refactoring-optimization-spec-v4.md): one
\* that was confirmed on its connection before the tick, is not stale and has not
\* lost the connection since keeps the process up (reconcileHealthy, restartDecision).
RestartJustified ==
    [][restart' /\ ~restart => \A d \in Relevant : Confirmed(d) => d \in tick.stale]_vars

\* The registry has missed the connection of a device (LinkAgrees in Registry).
Missed(d) == d \in link /\ pending[d] = <<>> /\ row[d].health # "connected"

\* None of these devices answers any more, and the supervisor sees that.
Stuck(devices) == devices \subseteq silent /\ \A d \in devices : ~Missed(d)

=============================================================================
