------------------------------ MODULE Lifecycle ------------------------------
(***************************************************************************)
(* The lifecycle of the bridge process (cmd/eebus-bridge/app.go,           *)
(* lifecycle.go, internal/grpc/server.go): a startup that records each     *)
(* stage in a ledger, the gate that admits calls once all of them are up,  *)
(* failures reported by the server and the watchdog, and Stop, which any   *)
(* number of goroutines may call at any moment and which undoes the        *)
(* recorded stages in reverse order.                                       *)
(*                                                                         *)
(* A section under lifecycleMu is one step: nothing in it blocks.  What    *)
(* the health service publishes is left out (README).                      *)
(***************************************************************************)
EXTENDS Naturals, Sequences, SequencesExt

CONSTANTS
    Starter,   \* goroutines that call Start
    Stopper,   \* goroutines that call Stop
    Client,    \* clients of the gRPC server
    Enabled,   \* the optional use cases that the configuration turns on
    NoOne      \* no goroutine

VARIABLES
    signalled,   \* the context of the process is done
    cancelled,   \* Application.cancelRuntime has been called
    started,     \* Application.lifecycle is set
    stopped,     \* Application.stopped
    once,        \* Application.stopOnce: NoOne, the goroutine in Stop, "done"
    startupMu,   \* Application.startupMu: its holder
    ledger,      \* lifecycleTransaction: its stages, and whether it is closed
    serving,     \* Server.serving, the gate of the application's RPCs
    failures,    \* Application.backgroundFailures, a channel of capacity 1
    composed,    \* the optional use cases that exist
    wired,       \* modules that are set up
    useCases,    \* use cases added to the EEBUS service
    heartbeat,   \* the local heartbeat runs
    up,          \* components that run
    broken,      \* stages whose stop returned an error
    server,      \* the goroutine of the gRPC server
    ready,       \* Server.ready and startErr
    drain,       \* Server.Stop: none, graceful, or forced after its timeout
    streams,     \* clients with a call under way
    watchdog,    \* the goroutine of the watchdog
    pc,          \* [Starter and Stopper -> the next step]
    todo         \* [Starter and Stopper -> modules to start, or stages to stop]

context == <<signalled, cancelled>>
application == <<started, stopped, once, startupMu, ledger>>
grpc == <<server, ready, drain, streams>>
modules == <<composed, wired, useCases, heartbeat>>
vars == <<context, application, modules, serving, failures, up, broken, grpc, watchdog, pc, todo>>

Thread == Starter \cup Stopper

\* The modules in the order of the application's table, those of them that are started,
\* and the use cases of each.
Modules == <<"Device", "LPC", "Monitoring", "DHW", "HVAC", "OHPCF", "Providers">>
Starting == <<"LPC", "Providers">>
UseCasesOf == [
    Device |-> {},
    LPC |-> {"LPC"},
    Monitoring |-> {"Monitoring", "DHWMonitoring", "MRT", "MOT"},
    DHW |-> {"DHWTemperature", "MDSF", "DHWSystemFunctionConfiguration"},
    HVAC |-> {"CRHT", "MRHSF", "CRHSF"},
    OHPCF |-> {"OHPCF"},
    Providers |-> {"MGCP", "VAPD", "VABD"}]
Provider == UseCasesOf["Providers"]
Optional == {"OHPCF"} \cup Provider

Order == <<"EEBUS">> \o Starting \o <<"gRPC", "watchdog">>

ASSUME ThreadAssumption == NoOne \notin Thread /\ "done" \notin Thread /\ Starter \cap Stopper = {}
ASSUME OnceAssumption == NoOne # "done"
ASSUME EnabledAssumption == Enabled \subseteq Optional

\* The runtime context.
Done == signalled \/ cancelled

Init ==
    /\ signalled = FALSE /\ cancelled = FALSE
    /\ started = FALSE /\ stopped = FALSE
    /\ once = NoOne /\ startupMu = NoOne
    /\ ledger = [stages |-> <<>>, closed |-> FALSE]
    /\ serving = FALSE /\ failures = <<>>
    /\ composed = {} /\ wired = {} /\ useCases = {} /\ heartbeat = FALSE
    /\ up = {} /\ broken = {}
    /\ server = "off" /\ ready = "no" /\ drain = "no" /\ streams = {}
    /\ watchdog = "off"
    /\ pc = [t \in Thread |-> "idle"] /\ todo = [t \in Thread |-> <<>>]

Goto(t, step) == pc' = [pc EXCEPT ![t] = step]

\* Application.reportBackgroundFailure: a failure already waiting is enough.
ReportUnbuffered ==  \* mutant: the channel has no buffer
    failures' = IF \E s \in Starter : pc[s] = "serve" THEN <<"failure">> ELSE failures
Report == failures' = IF failures = <<>> THEN <<"failure">> ELSE failures

-----------------------------------------------------------------------------
(* Start.                                                                  *)

\* A stopped or started application refuses, and does not stop anything.
Start(s) ==
    /\ pc[s] = "idle"
    /\ IF stopped \/ started
       THEN Goto(s, "refused") /\ UNCHANGED <<started, serving>>
       ELSE Goto(s, "startup") /\ started' = TRUE /\ serving' = FALSE
    /\ UNCHANGED <<context, modules, stopped, once, startupMu, ledger, failures, up, broken, grpc, watchdog, todo>>

StartComponents(s) ==
    /\ pc[s] = "startup" /\ startupMu = NoOne
    /\ startupMu' = s
    /\ Goto(s, IF Done THEN "fail" ELSE "setup")
    /\ UNCHANGED <<context, modules, started, stopped, once, ledger, serving, failures, up, broken, grpc, watchdog, todo>>

\* lifecycleTransaction.add: a stage that comes too late is stopped at once.
Add(s, stage, next) ==
    IF ledger.closed
    THEN up' = up \ {stage} /\ Goto(s, "fail") /\ UNCHANGED ledger
    ELSE up' = up \cup {stage} /\ Goto(s, next) /\ ledger' = [ledger EXCEPT !.stages = Append(@, stage)]

SetUp(s) ==
    /\ pc[s] = "setup"
    /\ \/ Goto(s, "fail") /\ UNCHANGED up
       \/ Goto(s, "announce") /\ up' = up \cup {"EEBUS"}
    /\ UNCHANGED <<context, application, modules, serving, failures, broken, grpc, watchdog, todo>>

AnnounceLocalIdentity(s) ==
    /\ pc[s] = "announce"
    /\ \/ Goto(s, "fail") /\ up' = up \ {"EEBUS"} /\ UNCHANGED ledger
       \/ Add(s, "EEBUS", "prepare")
    /\ UNCHANGED <<context, modules, started, stopped, once, startupMu, serving, failures, broken, grpc, watchdog, todo>>

\* A provider without its local entity is left out; the compressor needs none.
SetUpProviders ==
    \E available \in SUBSET Provider : composed' = Enabled \cap ({"OHPCF"} \cup available)

\* Application.compose needs the local entity.  It wires the modules: none of them runs yet.
Compose(s) ==
    /\ pc[s] = "prepare"
    /\ \/ Goto(s, "fail") /\ UNCHANGED <<composed, todo>>
       \/ /\ SetUpProviders
          /\ todo' = [todo EXCEPT ![s] = Modules]
          /\ Goto(s, "wire")
    /\ UNCHANGED <<context, application, wired, useCases, heartbeat, serving, failures, up, broken, grpc,
                   watchdog>>

\* Only the set-up of the device module can fail.
SetUpModule(s) ==
    /\ pc[s] = "wire" /\ todo[s] # <<>>
    /\ \/ Head(todo[s]) = "Device" /\ Goto(s, "fail") /\ UNCHANGED wired
       \/ Goto(s, "register") /\ wired' = wired \cup {Head(todo[s])}
    /\ UNCHANGED <<context, application, composed, useCases, heartbeat, serving, failures, up, broken, grpc,
                   watchdog, todo>>

\* eebusUseCaseRegistration.resolve: a use case is asked for only now, and exists if its
\* module is set up.  An optional one that does not exist is not registered.
Registrations(m) == {u \in UseCasesOf[m] : u \in Optional => u \in composed}
Resolves(m) == m \in wired

\* useCaseRegistrar: the first use case that cannot be resolved or added ends the startup.
RegisterUseCases(s) ==
    /\ pc[s] = "register"
    /\ LET m == Head(todo[s])
       IN  \E added \in SUBSET Registrations(m) :
               /\ added # {} => Resolves(m)
               /\ useCases' = useCases \cup added
               /\ IF added = Registrations(m)
                  THEN Goto(s, "wire") /\ todo' = [todo EXCEPT ![s] = Tail(@)]
                  ELSE Goto(s, "fail") /\ UNCHANGED todo
    /\ UNCHANGED <<context, application, composed, wired, heartbeat, serving, failures, up, broken, grpc, watchdog>>

PrepareForStart(s) ==
    /\ pc[s] = "wire" /\ todo[s] = <<>>
    /\ Goto(s, IF Done THEN "fail" ELSE "bridge")
    /\ UNCHANGED <<context, application, modules, serving, failures, up, broken, grpc, watchdog, todo>>

StartBridge(s) ==
    /\ pc[s] = "bridge"
    /\ \/ Goto(s, "fail") /\ UNCHANGED todo
       \/ Goto(s, "module") /\ todo' = [todo EXCEPT ![s] = Starting]
    /\ UNCHANGED <<context, application, modules, serving, failures, up, broken, grpc, watchdog>>

\* startLPCHeartbeat: a heartbeat that does not start is only logged.
StartLPCHeartbeat == heartbeat' \in BOOLEAN

StartModule(s) ==
    /\ pc[s] = "module" /\ todo[s] # <<>>
    /\ \/ Done /\ Goto(s, "fail") /\ UNCHANGED <<up, ledger, heartbeat, todo>>
       \/ /\ ~Done
          /\ IF Head(todo[s]) = "LPC" /\ ~ledger.closed THEN StartLPCHeartbeat ELSE UNCHANGED heartbeat
          /\ Add(s, Head(todo[s]), "module")
          /\ todo' = [todo EXCEPT ![s] = Tail(@)]
    /\ UNCHANGED <<context, started, stopped, once, startupMu, composed, wired, useCases, serving, failures,
                   broken, grpc, watchdog>>

Launch(s) ==
    /\ pc[s] = "module" /\ todo[s] = <<>>
    /\ server' = "launched"
    /\ Goto(s, "ready")
    /\ UNCHANGED <<context, application, modules, serving, failures, up, broken, ready, drain, streams, watchdog, todo>>

\* Server.WaitReady.  If it fails the server is stopped, and nobody has called it yet.
WaitReady(s) ==
    /\ pc[s] = "ready"
    /\ \/ /\ Done \/ ready = "failed"
          /\ drain' = "graceful"
          /\ Goto(s, "abandon") /\ UNCHANGED <<up, ledger, server, ready, streams>>
       \/ /\ ready = "ok"
          /\ Add(s, "gRPC", "watch") /\ UNCHANGED grpc
    /\ UNCHANGED <<context, modules, started, stopped, once, startupMu, serving, failures, broken, watchdog, todo>>

\* Server.Stop ends once Serve, if it has begun, is about to.
Abandon(s) ==
    /\ pc[s] = "abandon" /\ server # "serving"
    /\ up' = up \ {"gRPC"}
    /\ Goto(s, "fail")
    /\ UNCHANGED <<context, application, modules, serving, failures, broken, grpc, watchdog, todo>>

StartWatchdog(s) ==
    /\ pc[s] = "watch"
    /\ watchdog' = "waiting"
    /\ Add(s, "watchdog", "commit")
    /\ UNCHANGED <<context, modules, started, stopped, once, startupMu, serving, failures, broken, grpc, todo>>

\* The startup commit: the gate opens unless a Stop has begun.
CommitAnyway(s) ==  \* mutant: the commit does not look for a Stop
    /\ pc[s] = "commit"
    /\ Goto(s, "committed") /\ serving' = TRUE
    /\ UNCHANGED <<context, application, modules, failures, up, broken, grpc, watchdog, todo>>
Commit(s) ==
    /\ pc[s] = "commit"
    /\ IF stopped \/ Done THEN Goto(s, "fail") /\ UNCHANGED serving
                          ELSE Goto(s, "committed") /\ serving' = TRUE
    /\ UNCHANGED <<context, application, modules, failures, up, broken, grpc, watchdog, todo>>

LeaveStartup(s) ==
    /\ pc[s] \in {"fail", "committed"}
    /\ startupMu' = NoOne
    /\ Goto(s, IF pc[s] = "fail" THEN "stop" ELSE "serve")
    /\ UNCHANGED <<context, modules, started, stopped, once, ledger, serving, failures, up, broken, grpc, watchdog, todo>>

\* Start waits for the end of its context or for a failure.
Await(s) ==
    /\ pc[s] = "serve"
    /\ Goto(s, "stop")
    /\ \/ Done /\ UNCHANGED failures
       \/ failures # <<>> /\ failures' = <<>>
    /\ UNCHANGED <<context, application, modules, serving, up, broken, grpc, watchdog, todo>>

-----------------------------------------------------------------------------
(* Stop, called by anyone and by every Start that has begun.               *)

Stop(t) ==
    /\ t \in Stopper /\ pc[t] = "idle"
    /\ Goto(t, "stop")
    /\ UNCHANGED <<context, application, modules, serving, failures, up, broken, grpc, watchdog, todo>>

\* stopOnce: the others wait for the one that is in.
Enter(t) ==
    /\ pc[t] = "stop"
    /\ \/ once = NoOne /\ once' = t /\ Goto(t, "close")
       \/ once = "done" /\ Goto(t, "returned") /\ UNCHANGED once
    /\ UNCHANGED <<context, modules, started, stopped, startupMu, ledger, serving, failures, up, broken, grpc, watchdog, todo>>

CloseGate(t) ==
    /\ pc[t] = "close"
    /\ stopped' = TRUE /\ serving' = FALSE
    /\ Goto(t, "cancel")
    /\ UNCHANGED <<context, modules, started, once, startupMu, ledger, failures, up, broken, grpc, watchdog, todo>>

Cancel(t) ==
    /\ pc[t] = "cancel"
    /\ cancelled' = started
    /\ Goto(t, "wait")
    /\ UNCHANGED <<signalled, application, modules, serving, failures, up, broken, grpc, watchdog, todo>>

\* lifecycleTransaction.rollback begins once the startup has ended.
RollbackAtOnce(t) ==  \* mutant: Stop does not wait for the startup
    /\ pc[t] = "wait"
    /\ startupMu' = t
    /\ ledger' = [stages |-> <<>>, closed |-> TRUE]
    /\ todo' = [todo EXCEPT ![t] = Reverse(ledger.stages)]
    /\ Goto(t, "undo")
    /\ UNCHANGED <<context, modules, started, stopped, once, serving, failures, up, broken, grpc, watchdog>>
RollbackForward(t) ==  \* mutant: the stages are stopped in the order they were started
    /\ pc[t] = "wait" /\ startupMu = NoOne
    /\ startupMu' = t
    /\ ledger' = [stages |-> <<>>, closed |-> TRUE]
    /\ todo' = [todo EXCEPT ![t] = ledger.stages]
    /\ Goto(t, "undo")
    /\ UNCHANGED <<context, modules, started, stopped, once, serving, failures, up, broken, grpc, watchdog>>
Rollback(t) ==
    /\ pc[t] = "wait" /\ startupMu = NoOne
    /\ startupMu' = t
    /\ ledger' = [stages |-> <<>>, closed |-> TRUE]
    /\ todo' = [todo EXCEPT ![t] = Reverse(ledger.stages)]
    /\ Goto(t, "undo")
    /\ UNCHANGED <<context, modules, started, stopped, once, serving, failures, up, broken, grpc, watchdog>>

Undoing(t, stage) == pc[t] = "undo" /\ todo[t] # <<>> /\ Head(todo[t]) = stage

\* A stop that fails is remembered, and the next stage is stopped all the same.
Undo(t, failed) ==
    /\ todo' = [todo EXCEPT ![t] = Tail(@)]
    /\ broken' = IF failed THEN broken \cup {Head(todo[t])} ELSE broken
    /\ up' = IF failed THEN up ELSE up \ {Head(todo[t])}
    /\ Goto(t, "undo")

StopEEBUS(t) ==
    /\ Undoing(t, "EEBUS") /\ Undo(t, FALSE)
    /\ UNCHANGED <<context, application, modules, serving, failures, grpc, watchdog>>

StopHeartbeat(t) ==
    /\ Undoing(t, "LPC") /\ Undo(t, FALSE)
    /\ heartbeat' = FALSE
    /\ UNCHANGED <<context, application, composed, wired, useCases, serving, failures, grpc, watchdog>>

\* All of the providers are closed; the errors are joined.
CloseProviders(t) ==
    /\ Undoing(t, "Providers")
    /\ \E failed \in SUBSET (composed \cap Provider) : Undo(t, failed # {})
    /\ UNCHANGED <<context, application, modules, serving, failures, grpc, watchdog>>

\* Server.Stop: no new call; the others are drained, by force after a while.
GracefulStop(t) ==
    /\ Undoing(t, "gRPC")
    /\ drain' = "graceful"
    /\ Goto(t, "drain")
    /\ UNCHANGED <<context, application, modules, serving, failures, up, broken, server, ready, streams, watchdog, todo>>

ForceStop(t) ==
    /\ pc[t] = "drain" /\ drain = "graceful"
    /\ drain' = "forced"
    /\ UNCHANGED <<context, application, modules, serving, failures, up, broken, server, ready, streams, watchdog, pc, todo>>

Drained(t) ==
    /\ pc[t] = "drain" /\ streams = {} /\ server # "serving"
    /\ Undo(t, FALSE)
    /\ UNCHANGED <<context, application, modules, serving, failures, grpc, watchdog>>

\* Application.waitForWatchdog, at most applicationShutdownTimeout.
WaitForWatchdog(t) ==
    /\ Undoing(t, "watchdog")
    /\ \/ watchdog = "ended" /\ Undo(t, FALSE)
       \/ watchdog # "ended" /\ Undo(t, TRUE)
    /\ UNCHANGED <<context, application, modules, serving, failures, grpc, watchdog>>

Return(t) ==
    /\ pc[t] = "undo" /\ todo[t] = <<>>
    /\ startupMu' = NoOne /\ once' = "done"
    /\ Goto(t, "returned")
    /\ UNCHANGED <<context, modules, started, stopped, ledger, serving, failures, up, broken, grpc, watchdog, todo>>

-----------------------------------------------------------------------------
(* The server, its clients, the watchdog, the process.                     *)

\* Server.Start: a server that was stopped before it serves returns an error.
Listen ==
    /\ server = "launched"
    /\ \/ /\ drain = "no"
          /\ server' = "serving" /\ ready' = "ok" /\ up' = up \cup {"gRPC"}
       \/ /\ drain # "no"
          /\ server' = "failed" /\ ready' = "ok" /\ UNCHANGED up
       \/ server' = "failed" /\ ready' = "failed" /\ UNCHANGED up
    /\ UNCHANGED <<context, application, modules, serving, failures, broken, drain, streams, watchdog, pc, todo>>

\* grpc.Server.Serve (external): it fails, or ends because the server is stopped.
Serve ==
    /\ server = "serving"
    /\ server' = IF drain = "no" THEN "failed" ELSE "ended"
    /\ UNCHANGED <<context, application, modules, serving, failures, up, broken, ready, drain, streams, watchdog, pc, todo>>

\* An error after the end of the context belongs to the shutdown.
ServerFailure ==
    /\ server = "failed"
    /\ server' = "ended"
    /\ IF Done THEN UNCHANGED failures ELSE Report
    /\ UNCHANGED <<context, application, modules, serving, up, broken, ready, drain, streams, watchdog, pc, todo>>

\* readinessUnary, readinessStream.
Call(c) ==
    /\ server = "serving" /\ drain = "no" /\ serving
    /\ streams' = streams \cup {c}
    /\ UNCHANGED <<context, application, modules, serving, failures, up, broken, server, ready, drain, watchdog, pc, todo>>

\* LPCService.StartHeartbeat, StopHeartbeat.
CallHeartbeat(c) ==
    /\ c \in streams
    /\ heartbeat' \in BOOLEAN
    /\ UNCHANGED <<context, application, composed, wired, useCases, serving, failures, up, broken, grpc, watchdog,
                   pc, todo>>

Hangup(c) ==
    /\ c \in streams
    /\ streams' = streams \ {c}
    /\ UNCHANGED <<context, application, modules, serving, failures, up, broken, server, ready, drain, watchdog, pc, todo>>

WatchdogTick ==
    /\ watchdog = "waiting"
    /\ watchdog' = "ticking"
    /\ UNCHANGED <<context, application, modules, serving, failures, up, broken, grpc, pc, todo>>

\* Application.handleMonitoringWatchdogTick: recovery goes on, or is exhausted.
HandleTick ==
    /\ watchdog = "ticking"
    /\ watchdog' \in {"waiting", "exhausted"}
    /\ UNCHANGED <<context, application, modules, serving, failures, up, broken, grpc, pc, todo>>

RequestRestart ==
    /\ watchdog = "exhausted"
    /\ watchdog' = "ended" /\ Report
    /\ UNCHANGED <<context, application, modules, serving, up, broken, grpc, pc, todo>>

WatchdogDone ==
    /\ watchdog = "waiting" /\ Done
    /\ watchdog' = "ended"
    /\ UNCHANGED <<context, application, modules, serving, failures, up, broken, grpc, pc, todo>>

\* notifySignalContext.
Signal ==
    /\ ~signalled /\ signalled' = TRUE
    /\ UNCHANGED <<cancelled, application, modules, serving, failures, up, broken, grpc, watchdog, pc, todo>>

StartStep(s) ==
    \/ StartComponents(s) \/ SetUp(s) \/ AnnounceLocalIdentity(s)
    \/ Compose(s) \/ SetUpModule(s) \/ RegisterUseCases(s) \/ PrepareForStart(s) \/ StartBridge(s) \/ StartModule(s)
    \/ Launch(s) \/ WaitReady(s) \/ Abandon(s)
    \/ StartWatchdog(s) \/ Commit(s) \/ LeaveStartup(s) \/ Await(s)

StopStep(t) ==
    \/ Enter(t) \/ CloseGate(t) \/ Cancel(t) \/ Rollback(t) \/ StopEEBUS(t) \/ StopHeartbeat(t)
    \/ CloseProviders(t) \/ GracefulStop(t) \/ ForceStop(t) \/ Drained(t) \/ WaitForWatchdog(t) \/ Return(t)

Background == Listen \/ Serve \/ ServerFailure \/ RequestRestart \/ WatchdogDone

Next ==
    \/ \E s \in Starter : Start(s) \/ StartStep(s)
    \/ \E t \in Thread : StopStep(t)
    \/ \E t \in Stopper : Stop(t)
    \/ Background \/ WatchdogTick \/ HandleTick \/ Signal
    \/ \E c \in Client : Call(c) \/ CallHeartbeat(c) \/ Hangup(c)

Spec == Init /\ [][Next]_vars

\* Goroutines run, and timeouts expire.  The tick of the watchdog may take for ever, a
\* client need not end its call, unless its connection is closed by force.
FairSpec ==
    /\ Spec
    /\ \A s \in Starter : WF_vars(StartStep(s))
    /\ \A t \in Thread : WF_vars(StopStep(t))
    /\ WF_vars(Listen) /\ WF_vars(drain # "no" /\ Serve)
    /\ WF_vars(ServerFailure) /\ WF_vars(RequestRestart)
    /\ \A c \in Client : WF_vars(drain = "forced" /\ Hangup(c))

-----------------------------------------------------------------------------
(* Properties.                                                             *)

\* The gate (Server.serving) admits calls only while every stage is up, every use case is
\* registered and no Stop has begun (startComponents), although a Stop may begin at any moment
\* of the startup.  What the health service publishes is not modelled.
ServesWhole ==
    serving =>
        /\ ~stopped /\ ledger.stages = Order /\ ~ledger.closed
        /\ useCases = (UNION {UseCasesOf[m] : m \in ToSet(Modules)}) \ (Optional \ composed)

\* A component runs only while those it was started on do, unless their stop failed: no
\* call is handled, no module and no listener is up without the EEBUS stack, in the
\* startup, after any of its failures, and in the shutdown; and no call of a client starts
\* the heartbeat again once its module was stopped.
StackOutlives ==
    /\ \A i, j \in 1..Len(Order) : i < j /\ Order[j] \in up \ broken => Order[i] \in up \cup broken
    /\ streams # {} => {"EEBUS"} \cup ToSet(Starting) \subseteq up \cup broken
    /\ heartbeat => "LPC" \in up
    /\ watchdog \notin {"off", "ended"} => "EEBUS" \in up \/ "watchdog" \in broken

\* A Start that has begun and a Stop return only when all is stopped that was started,
\* whoever of them does it, but for the stages whose stop failed.
ReturnedClean ==
    \A t \in Thread : pc[t] = "returned" =>
        up \subseteq broken /\ streams = {} /\ server # "serving" /\ ~heartbeat

\* A signal, a Stop, a failed server or an exhausted recovery ends every Start and Stop,
\* even if the tick of the watchdog hangs and clients keep their streams open.
EveryoneReturns ==
    \A t \in Thread :
        pc[t] # "idle" /\ (signalled \/ stopped \/ server = "failed" \/ watchdog = "exhausted")
            ~> pc[t] \in {"returned", "refused"}

===============================================================================
