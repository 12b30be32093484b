------------------------------- MODULE Registry -------------------------------
(***************************************************************************)
(* The bridge's device registry (internal/eebus/registry.go and            *)
(* capabilities.go) under the handlers that share it: the service          *)
(* callbacks (callbacks.go), the use-case callbacks (usecases/entity.go),  *)
(* the reads of the gRPC services, the trust commands (trust.go) and the   *)
(* reconnect of the recovery supervisor (recovery.go).                     *)
(*                                                                         *)
(* A registry method is one step, an operator from a device's record to    *)
(* its next one: it holds the lifecycle lock, exclusively or shared, and   *)
(* what two sharing methods do commutes, save for the one that reads the   *)
(* catalog before it writes the capabilities.  A handler is several such   *)
(* steps, and handlers interleave.  The EEBUS stack is an external         *)
(* library: it trusts identities, connects and disconnects the trusted,    *)
(* and delivers the service callbacks of one device one at a time.         *)
(***************************************************************************)
EXTENDS RegistryRows, Naturals, Sequences

CONSTANTS
    SKI,         \* devices
    Client,      \* goroutines that run trust commands and reconnects
    Operation,   \* commands they run: "register", "unregister", "reconnect"
    Configured,  \* devices the configuration has the stack trust from the start
    PeerTrust,   \* the stack changes trust on its own (SHIP pairing, revocation)
    MaxEpoch,    \* bound of the model on connections per device
    MaxPending   \* bound of the model on callbacks waiting per device

ASSUME OperationAssumption == Operation \subseteq {"register", "unregister", "reconnect"}
ASSUME ConfiguredAssumption == Configured \subseteq SKI
ASSUME PeerTrustAssumption == PeerTrust \in BOOLEAN
ASSUME RegistryBoundAssumption == MaxEpoch \in Nat /\ MaxPending \in Nat

VARIABLES
    reg,         \* [SKI -> the registry's projections of the device]
    stackTrust,  \* stack: trusted identities
    link,        \* stack: connected devices
    epoch,       \* stack: [SKI -> number of connections so far]
    pending,     \* stack: [SKI -> service callbacks to run, the head running]
    callback,    \* [SKI -> next step of the running callback]
    useCase,     \* [SKI -> the running use-case callback]
    reading,     \* [SKI -> how far a read RPC is]
    command      \* [Client -> the running command]

stackVars == <<stackTrust, link, epoch, pending>>
vars == <<reg, stackVars, callback, useCase, reading, command>>

Idle == [kind |-> "idle", step |-> 0]

Update(d, r) == reg' = [reg EXCEPT ![d] = r]

\* The lifecycle lock: no method that shares it is halfway.
Exclusive == \A d \in SKI : reading[d] \notin {"bound", "unbound"}

-----------------------------------------------------------------------------
(* The EEBUS stack (external).                                             *)

Init ==
    /\ reg = [d \in SKI |-> Blank]
    /\ stackTrust = Configured
    /\ link = {}
    /\ epoch = [d \in SKI |-> 0]
    /\ pending = [d \in SKI |-> <<>>]
    /\ callback = [d \in SKI |-> 1]
    /\ useCase = [d \in SKI |-> Idle]
    /\ reading = [d \in SKI |-> "none"]
    /\ command = [p \in Client |-> Idle]

Deliver(d, callbacks) ==
    /\ Len(pending[d]) + Len(callbacks) <= MaxPending
    /\ pending' = [pending EXCEPT ![d] = @ \o callbacks]

LinkUp(d) ==
    /\ d \in stackTrust \ link
    /\ epoch[d] < MaxEpoch
    /\ link' = link \cup {d}
    /\ epoch' = [epoch EXCEPT ![d] = @ + 1]
    /\ Deliver(d, <<"connected">>)
    /\ UNCHANGED <<reg, stackTrust, callback, useCase, reading, command>>

LinkDown(d) ==
    /\ d \in link
    /\ link' = link \ {d}
    /\ Deliver(d, <<"disconnected">>)
    /\ UNCHANGED <<reg, stackTrust, epoch, callback, useCase, reading, command>>

\* The remote device revokes trust; a SHIP pairing succeeds, or fails.
Revoke(d) ==
    /\ PeerTrust
    /\ d \in stackTrust
    /\ stackTrust' = stackTrust \ {d}
    /\ link' = link \ {d}
    /\ Deliver(d, IF d \in link THEN <<"disconnected", "trust_removed">> ELSE <<"trust_removed">>)
    /\ UNCHANGED <<reg, epoch, callback, useCase, reading, command>>

AutoTrust(d) ==
    /\ PeerTrust
    /\ d \notin stackTrust
    /\ \/ stackTrust' = stackTrust \cup {d} /\ Deliver(d, <<"auto_trusted">>)
       \/ UNCHANGED stackTrust /\ Deliver(d, <<"auto_trust_failed">>)
    /\ UNCHANGED <<reg, link, epoch, callback, useCase, reading, command>>

-----------------------------------------------------------------------------
(* Service callbacks: RemoteServiceConnected, RemoteServiceDisconnected,   *)
(* ServiceAutoTrusted, ServiceAutoTrustFailed, ServiceAutoTrustRemoved.    *)

Sharing == {<<"connected", 1>>, <<"disconnected", 2>>, <<"trust_removed", 2>>}

CallbackStep(d) ==
    /\ pending[d] # <<>>
    /\ LET kind == Head(pending[d])
           steps == IF kind \in {"auto_trusted", "auto_trust_failed"} THEN 1 ELSE 2
           n == callback[d]
       IN  /\ <<kind, n>> \in Sharing \/ Exclusive
           /\ Update(d, CASE kind = "connected" /\ n = 1 -> AddDevice(reg[d])
                          [] kind = "connected" /\ n = 2 -> MarkConnected(reg[d])
                          [] kind = "disconnected" /\ n = 1 -> MarkDisconnected(reg[d])
                          [] kind = "auto_trusted" -> MarkTrusted(reg[d])
                          [] kind = "auto_trust_failed" -> MarkUntrusted(reg[d])
                          [] kind = "trust_removed" /\ n = 1 -> MarkUntrusted(reg[d])
                          [] OTHER -> ClearEntities(reg[d]))
           /\ callback' = [callback EXCEPT ![d] = IF n = steps THEN 1 ELSE 2]
           /\ pending' = [pending EXCEPT ![d] = IF n = steps THEN Tail(@) ELSE @]
    /\ UNCHANGED <<stackTrust, link, epoch, useCase, reading, command>>

-----------------------------------------------------------------------------
(* Use-case callbacks.  SPINE speaks to a device only once its service     *)
(* callback has returned; an entity is named by its connection's number.   *)

Discovered(d) == d \in link /\ pending[d] = <<>>

UseCaseBegin(d, callee) ==
    /\ useCase[d] = Idle
    /\ useCase' = [useCase EXCEPT ![d] = callee]
    /\ UNCHANGED <<reg, stackVars, callback, reading, command>>

\* recordCapabilitySupport reads the connection first and acts on it later.
SupportBegin(d) ==
    \E source \in Source, supported \in BOOLEAN :
        /\ supported => Discovered(d)
        /\ epoch[d] > 0
        /\ UseCaseBegin(d, [kind |-> "support", step |-> 1, source |-> source,
                            supported |-> supported, entity |-> epoch[d],
                            offline |-> reg[d].health = "disconnected"])

SupportCatalog(d) ==
    LET u == useCase[d]
    IN  /\ u.kind = "support" /\ u.step = 1
        /\ Update(d, IF u.supported /\ ~u.offline THEN UpsertObservation(reg[d], u.entity)
                     ELSE RemoveEntityObservation(reg[d], u.entity))
        /\ useCase' = [useCase EXCEPT ![d].step = 2]
        /\ UNCHANGED <<stackVars, callback, reading, command>>

SupportEnd(d) ==
    LET u == useCase[d]
    IN  /\ u.kind = "support" /\ u.step = 2
        /\ \E c \in Capability :
              Update(d, RecordCapabilitySourceSupport(reg[d], c, u.source, u.supported))
        /\ useCase' = [useCase EXCEPT ![d] = Idle]
        /\ UNCHANGED <<stackVars, callback, reading, command>>

\* A data update (MonitoringWrapper.HandleEvent) adds its entity unasked.
DataBegin(d) ==
    /\ Discovered(d)
    /\ UseCaseBegin(d, [kind |-> "data", step |-> 1, entity |-> epoch[d]])

DataEnd(d) ==
    /\ useCase[d].kind = "data"
    /\ Update(d, UpsertObservation(reg[d], useCase[d].entity))
    /\ useCase' = [useCase EXCEPT ![d] = Idle]
    /\ UNCHANGED <<stackVars, callback, reading, command>>

-----------------------------------------------------------------------------
(* Reads: the entity is resolved, the device is read, the result recorded. *)
(* Where none is resolved, the method that records that looks for entities *)
(* in the catalog and writes the capability later, under the shared lock.  *)

ReadBegin(d) ==
    /\ reading[d] = "none"
    /\ \/ Discovered(d) /\ reading' = [reading EXCEPT ![d] = "resolved"]
       \/ reading' = [reading EXCEPT ![d] = IF reg[d].entities # {} THEN "bound" ELSE "unbound"]
    /\ UNCHANGED <<reg, stackVars, callback, useCase, command>>

ReadEnd(d) ==
    /\ reading[d] # "none"
    /\ reading' = [reading EXCEPT ![d] = "none"]
    /\ \E c \in Capability :
        \/ /\ reading[d] = "resolved"
           /\ \E ok \in BOOLEAN : Update(d, RecordCapabilityRead(reg[d], c, ok))
        \/ /\ reading[d] # "resolved"
           /\ Update(d, RecordCapabilityMissingEntity(reg[d], c, reading[d]))
    /\ UNCHANGED <<stackVars, callback, useCase, command>>

-----------------------------------------------------------------------------
(* Commands: TrustController.RegisterSKI and UnregisterSKI, and the        *)
(* reconnect of RecoverySupervisor.recover, which goes to the stack alone. *)

CommandBegin(p) ==
    /\ command[p] = Idle
    /\ \E kind \in Operation, d \in SKI :
        /\ kind = "reconnect" => reg[d].health = "connected"
        /\ command' = [command EXCEPT ![p] = [kind |-> kind, step |-> 1, ski |-> d]]
    /\ UNCHANGED <<reg, stackVars, callback, useCase, reading>>

StackRegister(d) == stackTrust' = stackTrust \cup {d} /\ UNCHANGED <<link, epoch, pending>>

\* UnregisterRemoteService closes the connection.
StackUnregister(d) ==
    /\ stackTrust' = stackTrust \ {d}
    /\ link' = link \ {d}
    /\ Deliver(d, IF d \in link THEN <<"disconnected">> ELSE <<>>)
    /\ UNCHANGED epoch

At(p, kind, step) == command[p].kind = kind /\ command[p].step = step

Steps(kind) == IF kind = "register" THEN 2 ELSE 3
Advanced(c) == IF c.step = Steps(c.kind) THEN Idle ELSE [c EXCEPT !.step = @ + 1]

CommandStep(p) ==
    LET d == command[p].ski
    IN  /\ \/ At(p, "register", 1) /\ StackRegister(d) /\ UNCHANGED reg
           \/ At(p, "register", 2) /\ Exclusive /\ Update(d, MarkTrusted(reg[d]))
              /\ UNCHANGED stackVars
           \/ At(p, "unregister", 1) /\ StackUnregister(d) /\ UNCHANGED reg
           \/ At(p, "unregister", 2) /\ Exclusive /\ Update(d, MarkUntrusted(reg[d]))
              /\ UNCHANGED stackVars
           \/ At(p, "unregister", 3) /\ Exclusive /\ Update(d, RemoveDevice(reg[d]))
              /\ UNCHANGED stackVars
           \/ At(p, "reconnect", 1) /\ Update(d, ClearEntities(reg[d])) /\ UNCHANGED stackVars
           \/ At(p, "reconnect", 2) /\ StackUnregister(d) /\ UNCHANGED reg
           \/ At(p, "reconnect", 3) /\ StackRegister(d) /\ UNCHANGED reg
        /\ command' = [command EXCEPT ![p] = Advanced(@)]
        /\ UNCHANGED <<callback, useCase, reading>>

Next ==
    \/ \E d \in SKI :
        \/ LinkUp(d) \/ LinkDown(d) \/ Revoke(d) \/ AutoTrust(d)
        \/ CallbackStep(d)
        \/ SupportBegin(d) \/ SupportCatalog(d) \/ SupportEnd(d)
        \/ DataBegin(d) \/ DataEnd(d)
        \/ ReadBegin(d) \/ ReadEnd(d)
    \/ \E p \in Client : CommandBegin(p) \/ CommandStep(p)

Spec == Init /\ [][Next]_vars

-----------------------------------------------------------------------------
(* Properties.                                                             *)

Row == [removed : BOOLEAN, listed : BOOLEAN, entities : SUBSET Nat,
        health : {"unknown", "connected", "disconnected"}, trusted : BOOLEAN,
        caps : [Capability -> Entry] \cup {NoEntries},
        advertised : [Capability -> SUBSET Source]]

\* Every variable has its type, and the registry trusts no device it has no
\* health record of (deviceMonitoringState in registry.go).
RegistryTypeOK ==
    /\ reg \in [SKI -> Row]
    /\ \A d \in SKI : reg[d].health = "unknown" => ~reg[d].trusted
    /\ stackTrust \subseteq SKI /\ link \subseteq stackTrust
    /\ epoch \in [SKI -> 0 .. MaxEpoch]
    /\ callback \in [SKI -> 1 .. 2]
    /\ reading \in [SKI -> {"none", "resolved", "bound", "unbound"}]

\* A removed device stays forgotten: whatever callback, event or read was
\* under way when RemoveDevice ran, none of them recreates the device in the
\* catalog, the health records or the capabilities until trust is granted
\* anew (the tombstone of registry.go).
RemovedIsForgotten == \A d \in SKI : reg[d].removed => reg[d] = RemoveDevice(reg[d])

\* The capabilities agree with the connection: nothing reads as available on
\* a disconnected device, even the result of a read that began before the
\* disconnect, and nothing as disconnected on a connected one
\* (RecordCapabilityRead, markCapabilitiesConnected in capabilities.go).
CapabilityMatchesConnection ==
    \A d \in SKI : reg[d].caps # NoEntries => \A c \in Capability :
        /\ reg[d].health = "disconnected" => reg[d].caps[c] # "available"
        /\ reg[d].health = "connected" => reg[d].caps[c] # "disconnected"

\* A capability the device does not advertise or the configuration switches
\* off stays unsupported, over reads, disconnects and reconnects, until a
\* source advertises one that is not switched off or the device is removed
\* (recordCapabilitySupportLocked, RecordCapabilityRead, setCapabilityLocked).
UnsupportedIsSticky ==
    [][\A d \in SKI, c \in Capability :
          /\ reg[d].caps # NoEntries
          /\ reg[d].caps[c] \in Unsupported
          => \/ reg'[d].removed
             \/ reg'[d].caps[c] \in Unsupported
             \/ c \notin Disabled /\ reg'[d].advertised[c] # {}]_vars

Quiet(d) == pending[d] = <<>> /\ \A p \in Client : command[p] = Idle

\* Once callbacks and commands have run, the registry trusts the devices the
\* stack trusts, but for one that only the configuration makes the stack trust,
\* until it first connects (TrustController in trust.go; app.go:764).
TrustAgrees ==
    \A d \in SKI : Quiet(d) /\ (d \in Configured => epoch[d] > 0)
                    => (reg[d].trusted <=> d \in stackTrust)

\* Once callbacks and commands have run, a device the user has unpaired is
\* not trusted by the stack: no reconnect that was under way brings it back
\* (UnregisterRemoteSKI in service.go, RecoverySupervisor.recover).
UnpairedStaysOut == \A d \in SKI : Quiet(d) /\ reg[d].removed => d \notin stackTrust

\* Once callbacks and commands have run, a device the stack is connected to is
\* connected in the registry, as "an explicit or remote trust grant starts a
\* new device lifetime" (MarkTrusted in registry.go).
LinkAgrees == \A d \in SKI : Quiet(d) /\ d \in link => reg[d].health = "connected"

===============================================================================
