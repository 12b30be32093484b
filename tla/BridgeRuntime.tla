---------------------------- MODULE BridgeRuntime ----------------------------
(***************************************************************************)
(* The Home Assistant side of the connection: the runtimes that the config *)
(* entries of one bridge share (runtime.py), their channel and the         *)
(* contract negotiated on it (grpc_client.py), the streams that follow the *)
(* contract (streams.py, device_streams.py), and the set-up, handover and  *)
(* unloading of an entry (__init__.py, coordinator.py).                    *)
(*                                                                         *)
(* Everything runs in one event loop: a step is what happens between two   *)
(* awaits.  An entry may be cancelled wherever one of its calls may fail.  *)
(***************************************************************************)
EXTENDS FiniteSets, Naturals

CONSTANTS
    Entry,         \* config entries, each for a device of its own
    Key,           \* bridges: an address with its credentials
    Runtime,       \* BridgeRuntime objects: a bound of the model on how many are made
    None,          \* no runtime, no channel, no contract
    MaxUpgrades,   \* bound of the model on changes of the bridges' contracts
    MaxAbandoned,  \* bound of the model on unloadings that are cancelled
    Mobile         \* bound of the model: the entries that are moved, poll, and have an unloading cancelled

VARIABLES
    bridge,        \* the contract each bridge would answer with
    upgrades,      \* how often one of them changed
    registry,      \* BridgeRuntimeRegistry._runtimes: key -> runtime
    count,         \* _RuntimeReference.count
    key,           \* BridgeRuntime.key, None before the object is made
    life,          \* BridgeRuntime: open, its close task at sessions or channel, closed
    channel,       \* GrpcChannelManager: no channel, negotiating, or ready
    contract,      \* BridgeRuntime._contract
    sessions,      \* BridgeRuntime._sessions: the entries with a session
    streams,       \* DeviceStreams of each session
    pc,            \* where the set-up, handover or unloading of an entry is
    runtime,       \* EebusCoordinator.runtime
    replacement,   \* the runtime that an entry is being handed to
    previous,      \* the runtime that it is handed from
    poll,          \* the poll of an entry
    abandoned,     \* history: sessions that a cancelled unloading has left
    reopened       \* history: closed runtimes whose channel a poll has opened again

external == <<bridge, upgrades>>
owners == <<registry, count, key>>
entries == <<pc, runtime, replacement, previous, poll>>
history == <<abandoned, reopened>>
vars == <<external, owners, life, channel, contract, sessions, streams, entries, history>>

Profile == {"consolidated", "legacy"}
Off == [started |-> FALSE, running |-> None, pending |-> FALSE, restart |-> "no", closing |-> FALSE]

NoPoll == [step |-> "idle", on |-> None, of |-> None]

ASSUME NoneAssumption == None \notin Runtime \cup Key \cup Profile
ASSUME EntryAssumption == IsFiniteSet(Entry) /\ Mobile \subseteq Entry

Init ==
    /\ bridge \in [Key -> Profile] /\ upgrades = 0
    /\ registry = [k \in Key |-> None] /\ count = [k \in Key |-> 0]
    /\ key = [r \in Runtime |-> None] /\ life = [r \in Runtime |-> "open"]
    /\ channel = [r \in Runtime |-> "none"] /\ contract = [r \in Runtime |-> None]
    /\ sessions = [r \in Runtime |-> {}] /\ streams = [r \in Runtime |-> [e \in Entry |-> Off]]
    /\ pc = [e \in Entry |-> "unloaded"]
    /\ runtime = [e \in Entry |-> None]
    /\ replacement = [e \in Entry |-> None] /\ previous = [e \in Entry |-> None]
    /\ poll = [e \in Entry |-> NoPoll]
    /\ abandoned = {} /\ reopened = {}

Goto(e, step) == pc' = [pc EXCEPT ![e] = step]

\* The runtime that an entry is set up on, or handed to.
Target(e) == IF replacement[e] # None THEN replacement[e] ELSE runtime[e]

\* EebusCoordinator exists, and its streams and polls run.
Initialized(e) == pc[e] = "loaded" \/ replacement[e] # None

-----------------------------------------------------------------------------
(* The channel of a runtime.                                               *)

\* GrpcChannelManager.ensure_channel without a channel: one is made, and the contract is
\* negotiated before anybody gets it.
Open(r) ==
    /\ channel[r] = "none"
    /\ channel' = [channel EXCEPT ![r] = "negotiating"]
    /\ reopened' = IF life[r] = "closed" THEN reopened \cup {r} ELSE reopened

\* Those who wait for a negotiation learn how it ended.
WakeSetups(r, step) ==
    [e \in Entry |-> IF pc[e] = "waiting" /\ Target(e) = r THEN step ELSE pc[e]]

WakePolls(r, step) ==
    [e \in Entry |-> IF poll[e].step = "waiting" /\ poll[e].on = r
                     THEN [poll[e] EXCEPT !.step = step] ELSE poll[e]]

Wake(r, step) == pc' = WakeSetups(r, step) /\ poll' = WakePolls(r, step)

\* DeviceStreams.contract_changed.
ContractChanged(s) ==
    IF s.started THEN [s EXCEPT !.pending = TRUE, !.restart = IF @ = "no" THEN "begun" ELSE @] ELSE s

\* BridgeRuntime._negotiate_contract; a changed contract is told to every session.
Negotiated(r) ==
    /\ channel[r] = "negotiating"
    /\ channel' = [channel EXCEPT ![r] = "ready"]
    /\ contract' = [contract EXCEPT ![r] = bridge[key[r]]]
    /\ streams' = IF contract[r] \in {None, bridge[key[r]]}
                  THEN streams
                  ELSE [streams EXCEPT ![r] = [e \in Entry |-> IF e \in sessions[r] THEN ContractChanged(@[e]) ELSE @[e]]]
    /\ Wake(r, "negotiated")
    /\ UNCHANGED <<external, owners, life, sessions, runtime, replacement, previous, history>>

\* A bridge that does not answer, or is of another major version: whoever waits sees the
\* error, and the first of them closes the channel.
NegotiationFails(r) ==
    /\ channel[r] = "negotiating"
    /\ channel' = [channel EXCEPT ![r] = "none"]
    /\ Wake(r, "rejected")
    /\ UNCHANGED <<external, owners, life, contract, sessions, streams, runtime, replacement, previous, history>>

\* GrpcChannelManager.invalidate, which cancels a negotiation: those who wait for it ask
\* again, and wait for the next.
Invalidate(r) ==
    /\ channel' = [channel EXCEPT ![r] = "none"]
    /\ Wake(r, "negotiate")

-----------------------------------------------------------------------------
(* The streams of a session.                                               *)

\* DeviceStreams.start.
Started(s, profile) == [s EXCEPT !.started = TRUE, !.running = profile]

\* DeviceStreams.stop cancels the streams, and ends when they have.
Stopping(s) == [s EXCEPT !.started = FALSE, !.pending = FALSE, !.restart = "no", !.closing = TRUE]

StreamsStopped(r, e) ==
    /\ streams[r][e].closing
    /\ streams' = [streams EXCEPT ![r][e] = Off]
    /\ UNCHANGED <<external, owners, life, channel, contract, sessions, entries, history>>

\* StreamManager._run_stream: a stream that has ended asks for a channel again, and so does
\* each call of a set-up under way.
Reconnects(r, e) ==
    /\ \/ streams[r][e].running # None
       \/ Target(e) = r /\ pc[e] \in {"registering", "polling"}
    /\ Open(r)
    /\ UNCHANGED <<external, owners, life, contract, sessions, streams, entries, abandoned>>

\* A bridge that was replaced behind the channel does not know the consolidated stream.
FallsBack(r, e) ==
    /\ streams[r][e].running = "consolidated"
    /\ channel[r] = "ready" /\ bridge[key[r]] = "legacy"
    /\ streams' = [streams EXCEPT ![r][e].running = "fallback"]
    /\ UNCHANGED <<external, owners, life, channel, contract, sessions, entries, history>>

\* DeviceStreams._restart_after_contract_change: the streams are stopped, then those of the
\* contract in force are started, until no change was told meanwhile.
StopForRestart(r, e) ==
    /\ streams[r][e].restart = "begun"
    /\ streams' = [streams EXCEPT ![r][e] = [@ EXCEPT !.pending = FALSE, !.running = None, !.restart = "stopped"]]
    /\ UNCHANGED <<external, owners, life, channel, contract, sessions, entries, history>>

Restart(r, e) ==
    /\ streams[r][e].restart = "stopped"
    /\ streams' = [streams EXCEPT ![r][e].running = contract[r],
                                  ![r][e].restart = IF streams[r][e].pending THEN "begun" ELSE "no"]
    /\ UNCHANGED <<external, owners, life, channel, contract, sessions, entries, history>>

-----------------------------------------------------------------------------
(* Set-up, handover and unloading of an entry.                             *)

\* BridgeRuntimeRegistry.acquire.
Acquire(k, r) ==
    /\ r = IF registry[k] = None THEN CHOOSE s \in Runtime : key[s] = None ELSE registry[k]
    /\ key[r] \in {None, k}
    /\ registry' = [registry EXCEPT ![k] = r]
    /\ key' = [key EXCEPT ![r] = k]
    /\ count' = [count EXCEPT ![k] = @ + 1]

Available(k) == registry[k] # None \/ \E r \in Runtime : key[r] = None

\* async_setup_entry
Setup(e) ==
    /\ pc[e] = "unloaded" /\ poll[e] = NoPoll  \* bound: an old poll ends before
    /\ \E k \in Key, r \in Runtime :
           /\ Available(k) /\ Acquire(k, r)
           /\ runtime' = [runtime EXCEPT ![e] = r]
    /\ Goto(e, "negotiate")
    /\ UNCHANGED <<external, life, channel, contract, sessions, streams, replacement, previous, poll, history>>

\* _async_reload_entry.  If the address has not changed only the providers are replaced.
Reload(e) ==
    /\ pc[e] = "loaded"
    /\ \E k \in Key, r \in Runtime :
           /\ registry[k] # runtime[e] /\ Available(k) /\ Acquire(k, r)
           /\ replacement' = [replacement EXCEPT ![e] = r]
           /\ previous' = [previous EXCEPT ![e] = runtime[e]]
    /\ Goto(e, "negotiate")
    /\ UNCHANGED <<external, life, channel, contract, sessions, streams, runtime, poll, history>>

\* BridgeRuntime.ensure_contract
EnsureContract(e) ==
    /\ pc[e] = "negotiate"
    /\ LET r == Target(e)
       IN  \/ Open(r) /\ Goto(e, "waiting")
           \/ channel[r] # "none" /\ UNCHANGED <<channel, reopened>>
              /\ Goto(e, IF channel[r] = "ready" THEN "negotiated" ELSE "waiting")
    /\ UNCHANGED <<external, owners, life, contract, sessions, streams, runtime, replacement, previous, poll,
                   abandoned>>

\* The contract was refused, or the caller is cancelled while it waits.
GiveUp(e) ==
    /\ pc[e] \in {"waiting", "rejected"}
    /\ Goto(e, "release")
    /\ UNCHANGED <<external, owners, life, channel, contract, sessions, streams, runtime, replacement, previous,
                   poll, history>>

\* BridgeRuntime.create_device_session: there is one session per device.
CreateDeviceSession(e) ==
    /\ pc[e] = "negotiated"
    /\ LET r == Target(e)
       IN  IF e \in sessions[r]
           THEN Goto(e, "release") /\ UNCHANGED sessions
           ELSE /\ sessions' = [sessions EXCEPT ![r] = @ \cup {e}]
                /\ Goto(e, IF contract[r] = "consolidated" THEN "registering" ELSE "polling")
    /\ UNCHANGED <<external, owners, life, channel, contract, streams, runtime, replacement, previous, poll, history>>

\* The streams are those of the contract in force when they are started, which may be
\* another one than the set-up was begun under.
StartStreamsAsBegun(e) ==  \* mutant: the profile was chosen before the first call was awaited
    streams' = [streams EXCEPT ![Target(e)][e] =
        Started(@, IF pc[e] = "registering" THEN "consolidated" ELSE "legacy")]
StartStreams(e) ==
    streams' = [streams EXCEPT ![Target(e)][e] = Started(@, contract[Target(e)])]

\* async_initialize, and its like in async_reconfigure_runtime: registration, or a first poll.
Synchronize(e) ==
    /\ pc[e] \in {"registering", "polling"}
    /\ StartStreams(e)
    /\ Goto(e, IF pc[e] = "registering" THEN "snapshot" ELSE "providers")
    /\ UNCHANGED <<external, owners, life, channel, contract, sessions, runtime, replacement, previous, poll, history>>

\* DeviceStreams.wait_initial_snapshot: only the consolidated stream brings one.
InitialSnapshot(e) ==
    /\ pc[e] = "snapshot" /\ streams[Target(e)][e].running = "consolidated"
    /\ Goto(e, "providers")
    /\ UNCHANGED <<external, owners, life, channel, contract, sessions, streams, runtime, replacement, previous,
                   poll, history>>

\* The providers are started, and the entry set up or handed over.
Commit(e) ==
    /\ pc[e] = "providers"
    /\ IF replacement[e] = None
       THEN Goto(e, "loaded") /\ UNCHANGED <<runtime, poll>>
       ELSE /\ Goto(e, "handover")
            /\ runtime' = [runtime EXCEPT ![e] = replacement[e]]
            /\ poll' = [poll EXCEPT ![e].of = IF @ = None THEN None ELSE replacement[e]]
    /\ UNCHANGED <<external, owners, life, channel, contract, sessions, streams, replacement, previous, history>>

\* BridgeRuntime.release_device_session
ReleaseDeviceSession(r, e) ==
    /\ sessions' = [sessions EXCEPT ![r] = @ \ {e}]
    /\ streams' = [streams EXCEPT ![r][e] = Stopping(@)]

\* What was begun is undone when a step of it fails.
FailForgetfully(e) ==  \* mutant: the staged session is kept
    /\ pc[e] \in {"registering", "polling", "snapshot", "providers"}
    /\ Goto(e, "release")
    /\ UNCHANGED <<external, owners, life, channel, contract, sessions, streams, runtime, replacement, previous,
                   poll, history>>
Fail(e) ==
    /\ pc[e] \in {"registering", "polling", "snapshot", "providers"}
    /\ ReleaseDeviceSession(Target(e), e)
    /\ Goto(e, "leaving")
    /\ UNCHANGED <<external, owners, life, channel, contract, runtime, replacement, previous, poll, history>>

\* The first poll of a new coordinator, which discards the channel like any other.
FirstPollFails(e) ==
    /\ pc[e] = "polling" /\ replacement[e] = None
    /\ ReleaseDeviceSession(runtime[e], e)
    /\ channel' = [channel EXCEPT ![runtime[e]] = "none"]
    /\ pc' = [WakeSetups(runtime[e], "negotiate") EXCEPT ![e] = "leaving"]
    /\ poll' = WakePolls(runtime[e], "negotiate")
    /\ UNCHANGED <<external, owners, life, contract, runtime, replacement, previous, history>>

Leave(e) ==
    /\ pc[e] = "handover"
    /\ ReleaseDeviceSession(previous[e], e)
    /\ Goto(e, "leaving")
    /\ UNCHANGED <<external, owners, life, channel, contract, runtime, replacement, previous, poll, history>>

\* async_unload_entry and async_shutdown.  The providers are stopped first; an unloading
\* that is cancelled meanwhile does not come to the session.
Unload(e) ==
    /\ pc[e] = "loaded"
    /\ \/ ReleaseDeviceSession(runtime[e], e) /\ Goto(e, "leaving") /\ UNCHANGED abandoned
       \/ /\ e \in Mobile /\ Cardinality(abandoned) < MaxAbandoned
          /\ abandoned' = abandoned \cup {<<e, runtime[e]>>}
          /\ Goto(e, "release") /\ UNCHANGED <<sessions, streams>>
    /\ UNCHANGED <<external, owners, life, channel, contract, runtime, replacement, previous, poll, reopened>>

Left(e) ==
    /\ pc[e] = "leaving" /\ \A r \in Runtime : ~streams[r][e].closing
    /\ Goto(e, "release")
    /\ UNCHANGED <<external, owners, life, channel, contract, sessions, streams, runtime, replacement, previous,
                   poll, history>>

\* "The coordinator's active runtime is the authoritative ownership bit."
ReleasedAlways(e) ==  \* mutant: a handover that was cancelled gives its replacement back
    Target(e)
Released(e) ==
    CASE replacement[e] = None -> runtime[e]
      [] runtime[e] = replacement[e] -> previous[e]
      [] OTHER -> replacement[e]

\* BridgeRuntimeRegistry.release: the last one closes the runtime.
Release(e) ==
    /\ pc[e] = "release"
    /\ LET r == Released(e)
           k == key[r]
       IN  /\ count' = [count EXCEPT ![k] = @ - 1]
           /\ IF count[k] = 1
              THEN registry' = [registry EXCEPT ![k] = None] /\ life' = [life EXCEPT ![r] = "sessions"]
              ELSE UNCHANGED <<registry, life>>
    /\ Goto(e, "closing")
    /\ UNCHANGED <<external, key, channel, contract, sessions, streams, runtime, replacement, previous, poll, history>>

Finish(e) ==
    /\ pc[e] = "closing" /\ life[Released(e)] \in {"open", "closed"}
    /\ IF replacement[e] = None
       THEN Goto(e, "unloaded") /\ runtime' = [runtime EXCEPT ![e] = None]
       ELSE Goto(e, "loaded") /\ UNCHANGED runtime
    /\ replacement' = [replacement EXCEPT ![e] = None] /\ previous' = [previous EXCEPT ![e] = None]
    /\ UNCHANGED <<external, owners, life, channel, contract, sessions, streams, poll, history>>

\* BridgeRuntime._async_close: every session, then the channel.
CloseSessions(r) ==
    /\ life[r] = "sessions"
    /\ life' = [life EXCEPT ![r] = "channel"]
    /\ sessions' = [sessions EXCEPT ![r] = {}]
    /\ streams' = [streams EXCEPT ![r] = [e \in Entry |-> IF e \in sessions[r] THEN Stopping(@[e]) ELSE @[e]]]
    /\ UNCHANGED <<external, owners, channel, contract, entries, history>>

CloseChannel(r) ==
    /\ life[r] = "channel" /\ \A e \in Entry : ~streams[r][e].closing
    /\ life' = [life EXCEPT ![r] = "closed"]
    /\ Invalidate(r)
    /\ UNCHANGED <<external, owners, contract, sessions, streams, runtime, replacement, previous, history>>

-----------------------------------------------------------------------------
(* The polls, and the bridges.                                             *)

\* _async_update_data: the poller of the present session.
Poll(e) ==
    /\ poll[e].step = "idle" /\ Initialized(e)
    /\ poll' = [poll EXCEPT ![e] = [step |-> "negotiate", on |-> runtime[e], of |-> runtime[e]]]
    /\ UNCHANGED <<external, owners, life, channel, contract, sessions, streams, pc, runtime, replacement, previous,
                   history>>

PollEnsures(e) ==
    /\ poll[e].step = "negotiate"
    /\ LET r == poll[e].on
       IN  \/ Open(r) /\ poll' = [poll EXCEPT ![e].step = "waiting"]
           \/ channel[r] # "none" /\ UNCHANGED <<channel, reopened>>
              /\ poll' = [poll EXCEPT ![e].step = IF channel[r] = "ready" THEN "negotiated" ELSE "waiting"]
    /\ UNCHANGED <<external, owners, life, contract, sessions, streams, pc, runtime, replacement, previous, abandoned>>

PollAnswered(e) ==
    /\ poll[e].step = "negotiated"
    /\ poll' = [poll EXCEPT ![e] = NoPoll]
    /\ UNCHANGED <<external, owners, life, channel, contract, sessions, streams, pc, runtime, replacement, previous,
                   history>>

\* A poll that fails discards the channel of the runtime that the coordinator has now.
PollFails(e) ==
    /\ poll[e].step \in {"negotiated", "rejected"}
    /\ LET r == poll[e].of
       IN  /\ channel' = [channel EXCEPT ![r] = "none"]
           /\ pc' = WakeSetups(r, "negotiate")
           /\ poll' = [WakePolls(r, "negotiate") EXCEPT ![e] = NoPoll]
    /\ UNCHANGED <<external, owners, life, contract, sessions, streams, runtime, replacement, previous, history>>

Upgrade(k) ==
    /\ upgrades < MaxUpgrades
    /\ upgrades' = upgrades + 1
    /\ \E p \in Profile \ {bridge[k]} : bridge' = [bridge EXCEPT ![k] = p]
    /\ UNCHANGED <<owners, life, channel, contract, sessions, streams, entries, history>>

EntryStep(e) ==
    \/ EnsureContract(e) \/ CreateDeviceSession(e) \/ Synchronize(e) \/ InitialSnapshot(e) \/ Commit(e)
    \/ Leave(e) \/ Left(e) \/ Release(e) \/ Finish(e)

Next ==
    \/ \E e \in Entry : Setup(e) \/ Unload(e) \/ EntryStep(e) \/ GiveUp(e) \/ Fail(e) \/ FirstPollFails(e)
    \/ \E e \in Mobile : Reload(e) \/ Poll(e) \/ PollEnsures(e) \/ PollAnswered(e) \/ PollFails(e)
    \/ \E r \in Runtime : Negotiated(r) \/ NegotiationFails(r) \/ CloseSessions(r) \/ CloseChannel(r)
    \/ \E r \in Runtime, e \in Entry :
           StreamsStopped(r, e) \/ Reconnects(r, e) \/ FallsBack(r, e) \/ StopForRestart(r, e) \/ Restart(r, e)
    \/ \E k \in Key : Upgrade(k)

Spec == Init /\ [][Next]_vars

-----------------------------------------------------------------------------
(* Properties.                                                             *)

\* The runtimes that an entry has acquired and not released.
Held(e) ==
    IF pc[e] = "unloaded" THEN {}
    ELSE ({runtime[e], replacement[e], previous[e]} \ {None})
         \ (IF pc[e] = "closing" THEN {Released(e)} ELSE {})

\* Whatever fails or is cancelled, a runtime is counted once for every entry that holds it:
\* it stays open for as long as one does, and is closed with the last
\* ("preserving exact runtime ownership", _async_reload_entry).
CountsExact ==
    /\ \A k \in Key : count[k] = Cardinality({e \in Entry : registry[k] \in Held(e)})
    /\ \A e \in Entry : \A r \in Held(e) : life[r] = "open" /\ registry[key[r]] = r
    /\ \A r \in Runtime : key[r] # None /\ registry[key[r]] # r => life[r] # "open"

\* Every session that runs belongs to an entry that is loaded on its runtime, or on the way
\* there or away; a loaded entry has that one and no other; and a closed runtime runs
\* nothing.  Excepted are what a cancelled unloading has left, and a channel that a poll
\* opened after the close.
SessionsOwned ==
    /\ \A r \in Runtime : \A e \in sessions[r] : r \in Held(e) \/ <<e, r>> \in abandoned
    /\ \A e \in Entry : pc[e] = "loaded" =>
           /\ e \in sessions[runtime[e]] /\ streams[runtime[e]][e].started
           /\ \A r \in Runtime \ {runtime[e]} : streams[r][e] = Off \/ <<e, r>> \in abandoned
    /\ \A r \in Runtime : life[r] = "closed" =>
           /\ sessions[r] = {} /\ \A e \in Entry : streams[r][e] = Off
           /\ channel[r] = "none" \/ r \in reopened

\* Once no restart is under way, the streams of a session are those of the contract in force
\* on its runtime, whenever the contract changed: before, while or after they were started.
ProfileFollows ==
    \A r \in Runtime, e \in Entry :
        streams[r][e].started /\ streams[r][e].restart = "no" =>
            \/ streams[r][e].running = contract[r]
            \/ streams[r][e].running = "fallback" /\ contract[r] = "consolidated"

=============================================================================
