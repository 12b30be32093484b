------------------------------- MODULE Readings -------------------------------
(***************************************************************************)
(* The reads of the bridge's gRPC services (internal/grpc): the RPCs that  *)
(* read one value or aggregate of a device, the payloads attached to the   *)
(* events of a stream, and the device snapshot that reads everything; and  *)
(* the use-case callbacks (internal/usecases) whose events they follow.    *)
(*                                                                         *)
(* A read resolves the entity of a use case, reads its data, records in    *)
(* the registry how that went and, for a snapshot, turns the record into   *)
(* the state of a field.  Each of these is a step, and between any two the *)
(* device may connect, disconnect, negotiate, change, or be unpaired and   *)
(* paired again, and another call may read.  One device; a call names it explicitly, so the  *)
(* choice of a device by an empty SKI is left out.                         *)
(***************************************************************************)
EXTENDS RegistryRows, UseCaseReads, Naturals, Sequences, FiniteSets

CONSTANTS
    Reader,     \* calls and stream handlers
    Profile,    \* devices: what use cases each has, what data of it may change, which domains
                \* of it the bridge is composed to read, and how many calls may run at once
    MaxEvents   \* bound of the model on events waiting for a stream

ASSUME CapabilityAssumption ==
    Capability = {"monitoring", "lpc", "failsafe", "heartbeat", "dhw",
                  "dhw_system_function", "room_heating", "ohpcf"}
ASSUME ProfileAssumption ==
    \A p \in Profile : p.useCases \subseteq UseCase /\ p.data \subseteq Datum /\ p.calls \in Nat
ASSUME ReadingsBoundAssumption == MaxEvents \in Nat

VARIABLES
    row,       \* the device's row of the registry
    profile,   \* what the device is
    linked,    \* stack: the device is connected
    services,  \* stack: service callbacks to run
    offer,     \* stack: use cases negotiated
    due,       \* stack: use-case callbacks to run
    copy,      \* stack: [Datum -> what the copy of the device's data holds]
    events,    \* events on their way to a stream
    job        \* [Reader -> the call or event it works on]

stack == <<profile, linked, services, offer, due, copy>>
readsVars == <<row, stack, events, job>>

-----------------------------------------------------------------------------
(* What a call reads: domains, each from one or two use cases.             *)

Domain == {"metric", "measurements", "scoped", "diagnostics", "limit", "failsafe",
           "heartbeat", "dhw", "dhw_system_function", "heating", "compressor"}

SourcesOf(d) ==
    CASE d \in {"metric", "measurements"} -> <<"monitoring">>
      [] d \in {"scoped", "diagnostics"} -> <<>>
      [] d = "heating" -> <<"room_setpoint", "room_system_function">>
      [] OTHER -> <<d>>

CapabilityOf(d) ==
    CASE d \in {"metric", "measurements", "scoped", "diagnostics"} -> "monitoring"
      [] d = "limit" -> "lpc"
      [] d = "heating" -> "room_heating"
      [] d = "compressor" -> "ohpcf"
      [] OTHER -> d

UseCaseCapability == [u \in UseCase |->
    CASE u \in {"monitoring", "room_temperature"} -> "monitoring"
      [] u \in {"room_setpoint", "room_system_function", "room_configuration"} -> "room_heating"
      [] u = "dhw_configuration" -> "dhw_system_function"
      [] OTHER -> CapabilityOf(u)]

\* DeviceSnapshotAssembler.Build reads the domains in this order.
BuildOrder == <<"measurements", "diagnostics", "limit", "failsafe", "heartbeat", "dhw",
                "dhw_system_function", "heating", "compressor">>
Built == {BuildOrder[i] : i \in 1 .. Len(BuildOrder)}

ASSUME ReadsAssumption == \A p \in Profile : p.reads # {} /\ p.reads \subseteq Built

ValueState == {"available", "unsupported", "temporarily_unavailable", "unknown"}

\* Fields of a snapshot: the measurements, the parts of room heating, and one for
\* each other domain.  The temperature of the room is a part of both aggregates.
Leaf == {"power", "phases", "room_temperature", "flow", "compressor_power"}
HeatingPart == {"room_setpoint", "room_system_function", "zone_label"}
Field == Leaf \cup HeatingPart \cup (Built \ {"measurements", "heating"})
Part == Field \cup {"heating_temperature"}

Single == {"limit", "failsafe", "heartbeat", "dhw", "dhw_system_function"}

NoAgg == [d \in Built |-> "unknown"]
NoStates == [x \in {} |-> "unknown"]

Idle == [call |-> "none", step |-> "idle", domain |-> "none", todo |-> {}, sources |-> <<>>,
         target |-> {}, found |-> {}, got |-> {}, absent |-> {}, code |-> "none", agg |-> NoAgg,
         payload |-> {}, leaves |-> NoStates, fields |-> NoStates, caps |-> NoEntries,
         alone |-> FALSE, removal |-> "none"]

\* Measurements and room heating hold data that belongs to none of their sources:
\* room heating begins with it.
FirstStep(d) == IF d = "heating" \/ SourcesOf(d) = <<>> THEN "own" ELSE "resolve"

Entered(j, d, todo) ==
    [j EXCEPT !.domain = d, !.todo = todo, !.sources = SourcesOf(d), !.step = FirstStep(d),
              !.found = {}, !.got = {}, !.absent = {}]

\* The first of a set of domains, which is read next, and the others after it.
First(S) ==
    BuildOrder[CHOOSE i \in 1 .. Len(BuildOrder) :
                   BuildOrder[i] \in S /\ \A k \in 1 .. i - 1 : BuildOrder[k] \notin S]
EnteredFirst(j, S) == Entered(j, First(S), S \ {First(S)})

\* The step after the reads of a source: the domain's other source, if it has one.
AfterSource(j) ==
    LET rest == Tail(j.sources)
    IN  [j EXCEPT !.sources = rest,
                  !.step = IF rest # <<>> THEN "resolve"
                           ELSE IF j.domain = "measurements" THEN "own" ELSE "record"]

\* A step of one call; a snapshot that another call or the device crosses is not alone.  A
\* call between two reads of one device's membership keeps what became of the device since
\* the first: nothing, a removal, or a removal that a new pairing has ended.
Crossed(j) == IF j.alone THEN [j EXCEPT !.alone = FALSE] ELSE j
Disturb == job' = [r \in Reader |-> Crossed(job[r])]
Become(r, j) == job' = [q \in Reader |-> IF q = r THEN j ELSE Crossed(job[q])]
BetweenReads(j) == j.step = "membership"
DisturbMember(fate) ==
    job' = [r \in Reader |-> IF BetweenReads(job[r]) THEN [Crossed(job[r]) EXCEPT !.removal = fate]
                             ELSE Crossed(job[r])]
Publish(e) == IF Len(events) < MaxEvents THEN Append(events, e) ELSE events

-----------------------------------------------------------------------------
(* The device and the EEBUS stack (external), service callbacks, unpairing.*)
(* The stack handles one message at a time: its callbacks run before the   *)
(* next one, in an order of their own after a disconnect.                  *)

ReadsInit ==
    /\ row = MarkTrusted(Blank)
    /\ profile \in Profile
    /\ linked = FALSE /\ services = <<>>
    /\ offer = {} /\ due = {}
    /\ copy = [x \in Datum |-> "absent"]
    /\ events = <<>>
    /\ job = [r \in Reader |-> Idle]

Settling == services # <<>> \/ due # {}

\* The configuration use cases of the system functions have no callback.
Silent == {"dhw_configuration", "room_configuration"}

\* The entities of a new connection hold no data yet; the label is the catalog's, and kept
\* until AddDevice puts a row without one in the place of the device's.
LinkUp ==
    /\ ~linked /\ ~Settling /\ ~row.removed
    /\ linked' = TRUE
    /\ services' = <<"AddDevice", "MarkConnected">>
    /\ copy' = [x \in Datum |-> IF x = "zone_label" THEN copy[x] ELSE "absent"]
    /\ Disturb /\ UNCHANGED <<row, profile, offer, due, events>>

\* The use cases are withdrawn; an entity that is still referred to keeps its data.
LinkDown ==
    /\ linked /\ ~Settling
    /\ linked' = FALSE
    /\ services' = <<"MarkDisconnected", "ClearEntities">>
    /\ offer' = {}
    /\ due' = {<<"support", u>> : u \in offer \ Silent}
    /\ Disturb /\ UNCHANGED <<row, profile, copy, events>>

ServiceCallback ==
    /\ services # <<>>
    /\ row' = CASE Head(services) = "AddDevice" -> AddDevice(row)
                [] Head(services) = "MarkConnected" -> MarkConnected(row)
                [] Head(services) = "MarkDisconnected" -> MarkDisconnected(row)
                [] OTHER -> ClearEntities(row)
    /\ copy' = IF Head(services) = "AddDevice" THEN [copy EXCEPT !["zone_label"] = "absent"] ELSE copy
    /\ services' = Tail(services)
    /\ Disturb /\ UNCHANGED <<profile, linked, offer, due, events>>

\* A use case is negotiated, or withdrawn.
Negotiate(u) ==
    /\ linked /\ ~Settling /\ u \in profile.useCases
    /\ offer' = IF u \in offer THEN offer \ {u} ELSE offer \cup {u}
    /\ due' = {<<"support", v>> : v \in {u} \ Silent}
    /\ Disturb /\ UNCHANGED <<row, profile, linked, services, copy, events>>

\* No wrapper is called back for these.
Unannounced == {"zone_label", "compressor_power", "dhw_writable", "room_writable"}

\* A value arrives, or the device marks it as absent or not normal; an empty label is
\* ignored (UpsertZoneLabel).
Store(x) ==
    /\ linked /\ ~Settling /\ x \in profile.data
    /\ x = "zone_label" => copy[x] = "absent"
    /\ \E v \in Held(x) \ {copy[x]} : copy' = [copy EXCEPT ![x] = v]
    /\ due' = IF x \in Unannounced THEN {} ELSE {<<"data", x>>}
    /\ Disturb /\ UNCHANGED <<row, profile, linked, services, offer, events>>

\* A heartbeat of the device arrives.
Beat ==
    /\ linked /\ ~Settling /\ "heartbeat" \in profile.useCases
    /\ due' = {<<"data", "heartbeat">>}
    /\ Disturb /\ UNCHANGED <<row, profile, linked, services, offer, copy, events>>

\* TrustController.UnregisterSKI, once the stack has let the device go.
Unpair ==
    /\ ~linked /\ ~Settling /\ ~row.removed
    /\ row' = RemoveDevice(MarkUntrusted(row))
    /\ copy' = [copy EXCEPT !["zone_label"] = "absent"]
    /\ DisturbMember("standing") /\ UNCHANGED <<profile, linked, services, offer, due, events>>

\* TrustController.RegisterSKI of a device that was removed: a new lifetime begins.
Pair ==
    /\ ~linked /\ ~Settling /\ row.removed
    /\ row' = MarkTrusted(row)
    /\ DisturbMember("ended") /\ UNCHANGED <<profile, linked, services, offer, due, copy, events>>

-----------------------------------------------------------------------------
(* Use-case callbacks: what a wrapper observes of the device, and whether  *)
(* it publishes an event.  An event of data is taken by the stream of the  *)
(* device's state; one of support reads data only in the streams of single *)
(* domains, which hot water, room heating and compressor have.             *)

\* recordCapabilitySupport.
RecordedSupport(r, u) ==
    LET supported == CompatibleEntity(offer, u)
        observed == IF supported /\ r.health # "disconnected"
                    THEN UpsertObservation(r, EntityOf[u]) ELSE RemoveEntityObservation(r, EntityOf[u])
    IN  RecordCapabilitySourceSupport(observed, UseCaseCapability[u], u, supported)

\* The three scenarios of one use case: the entity stays while it has any of them.
LPCScenario == {"limit", "failsafe", "heartbeat"}
LPCSupport(r) ==
    LET present == \E s \in LPCScenario : CompatibleEntityForScenario(offer, s)
        observed == IF present /\ r.health # "disconnected"
                    THEN UpsertObservation(r, "appliance") ELSE RemoveEntityObservation(r, "appliance")
        Supported(q, s) == RecordCapabilitySourceSupport(q, UseCaseCapability[s], s, s \in offer)
    IN  Supported(Supported(Supported(observed, "limit"), "failsafe"), "heartbeat")

CalledBack(called, r, published) ==
    /\ called \cap due # {}
    /\ row' = r
    /\ due' = due \ called
    /\ events' = IF published THEN Publish(CHOOSE e \in called \cap due : TRUE) ELSE events
    /\ Disturb /\ UNCHANGED <<profile, linked, services, offer, copy>>

SupportOf(U) == {<<"support", u>> : u \in U}
Data(X) == {<<"data", x>> : x \in X}

MonitoringEvent ==
    \/ CalledBack(SupportOf({"monitoring"}), RecordedSupport(row, "monitoring"), FALSE)
    \/ CalledBack(Data({"power", "phases"}), UpsertObservation(row, "appliance"), TRUE)

\* The temperature use cases take any call for an observation of the entity.
TemperatureEvent ==
    \/ CalledBack(SupportOf({"room_temperature"}), UpsertObservation(row, "circuit"), FALSE)
    \/ CalledBack(Data({"room_temperature"}), UpsertObservation(row, "circuit"), TRUE)

HydraulicEvent ==
    CalledBack(Data({"flow_appliance", "flow_circuit"}), row,
               FlowTemperature(row.entities, copy) = "value")

DiagnosisEvent == CalledBack(Data({"operating_state"}), row, copy["operating_state"] = "value")

LPCEvent ==
    \/ CalledBack(SupportOf(LPCScenario), LPCSupport(row), FALSE)
    \/ CalledBack(Data({"limit", "failsafe_limit", "failsafe_duration", "heartbeat"}),
                  UpsertObservation(row, "appliance"), TRUE)

OHPCFEvent ==
    \/ CalledBack(SupportOf({"compressor"}), RecordedSupport(row, "compressor"), TRUE)
    \/ CalledBack(Data(DataOf["compressor"]), UpsertObservation(row, "appliance"), TRUE)

DHWTemperatureUseCaseEvent ==
    CalledBack(SupportOf({"dhw"}), RecordedSupport(row, "dhw"), TRUE)
DHWTemperatureEvent == CalledBack(Data(DataOf["dhw"]), row, StateOf(copy, "dhw") # {})

DHWSystemFunctionEvent ==
    \/ CalledBack(SupportOf({"dhw_system_function"}), RecordedSupport(row, "dhw_system_function"), TRUE)
    \/ CalledBack(Data(DataOf["dhw_system_function"]), UpsertObservation(row, "circuit"), TRUE)

RoomSystemFunctionEvent ==
    \/ CalledBack(SupportOf({"room_system_function"}), RecordedSupport(row, "room_system_function"), TRUE)
    \/ CalledBack(Data(DataOf["room_system_function"]), UpsertObservation(row, "circuit"), TRUE)

\* A setpoint that lacks a part is neither observed nor published.
CRHTEvent ==
    LET complete == StateOf(copy, "room_setpoint") # {}
    IN  \/ CalledBack(SupportOf({"room_setpoint"}), RecordedSupport(row, "room_setpoint"), TRUE)
        \/ CalledBack(Data(DataOf["room_setpoint"]),
                      IF complete THEN UpsertObservation(row, "circuit") ELSE row, complete)

UseCaseCallback ==
    \/ MonitoringEvent \/ TemperatureEvent \/ HydraulicEvent \/ DiagnosisEvent
    \/ LPCEvent \/ OHPCFEvent
    \/ DHWTemperatureUseCaseEvent \/ DHWTemperatureEvent \/ DHWSystemFunctionEvent
    \/ RoomSystemFunctionEvent \/ CRHTEvent

-----------------------------------------------------------------------------
(* How the read of a domain ends: its code, what it records, what it serves.*)

Concluded(code, record, parts) == [code |-> code, record |-> record, parts |-> parts]
NotFound == Concluded("not_found", "none", {})
Failed == Concluded("unavailable", "failed", {})
Served(parts) == Concluded("ok", "ok", parts)

\* One use case, and all that its answer holds.
ReadWhole(j, data, part) ==
    IF j.found = {} THEN NotFound ELSE IF data \subseteq j.got THEN Served({part}) ELSE Failed

\* readMetric: an entity that could not be resolved fails the read with its own code.
ReadMetric(j, data) ==
    IF j.found = {} THEN "not_found" ELSE IF data \subseteq j.got THEN "ok" ELSE "unavailable"

\* An entity that is missing is recorded once by its resolution and once by the read.
GetPowerConsumption(j) ==
    CASE ReadMetric(j, {"power"}) = "ok" -> Served({"power"})
      [] ReadMetric(j, {"power"}) = "unavailable" -> Failed
      [] OTHER -> Concluded("not_found", "missing", {})

\* What is attached to an event of a measurement is not recorded.
AttachMeasurementPayload(j) ==
    LET read == j.domain # "metric" \/ ReadMetric(j, j.target) = "ok"
    IN  IF read /\ j.target \subseteq j.got THEN Concluded("ok", "none", j.target)
        ELSE Concluded("unavailable", "none", {})

SnapshotMeasurements(j) ==
    IF j.got # {} THEN Served(j.got)
    ELSE IF j.found = {} THEN Concluded("not_found", "missing", {}) ELSE Failed

\* The state the read found for each measurement.
MeasurementStates(j) ==
    [x \in Leaf |-> IF x \in j.got THEN "available"
                    ELSE IF x \in {"phases", "compressor_power"} \cap j.absent THEN "unsupported"
                    ELSE "temporarily_unavailable"]

SnapshotDeviceDiagnostics(j) ==
    IF "diagnostics" \in j.got THEN Concluded("ok", "none", {"diagnostics"})
    ELSE Concluded("unavailable", "none", {})

GetConsumptionLimit(j) == ReadWhole(j, DataOf["limit"], "limit")
GetFailsafeLimit(j) == ReadWhole(j, DataOf["failsafe"], "failsafe")

\* The status of the heartbeat is the bridge's own: it needs only the entity.
SnapshotHeartbeat(j) == IF j.found = {} THEN NotFound ELSE Served({"heartbeat"})

GetDHWSetpointUnrecorded(j) ==  \* mutant: a failed read is not recorded
    IF j.found # {} /\ j.got = {} THEN Concluded("unavailable", "none", {})
    ELSE ReadWhole(j, DataOf["dhw"], "dhw")
GetDHWSetpoint(j) == ReadWhole(j, DataOf["dhw"], "dhw")

GetDHWSystemFunction(j) == ReadWhole(j, DataOf["dhw_system_function"], "dhw_system_function")

\* The label of the zone is known without the device: alone it is no answer.
SnapshotRoomHeating(j) ==
    LET modes == DataOf["room_system_function"]
        live == (j.got \cap {"heating_temperature", "room_setpoint"})
                \cup (IF modes \subseteq j.got THEN {"room_system_function"} ELSE {})
    IN  IF live # {} THEN Served(live \cup (j.got \cap {"zone_label"}))
        ELSE IF j.found = {} THEN NotFound ELSE Failed

AttachRoomHeatingPayload(j) ==
    LET state == SnapshotRoomHeating(j)
    IN  IF j.target = {} \/ ~(j.target \subseteq state.parts)
        THEN [state EXCEPT !.code = IF @ = "ok" THEN "unavailable" ELSE @] ELSE state

GetCompressorFlexibility(j) == ReadWhole(j, CompressorCore, "compressor")

\* A payload serves what could be read; it is good if the core and the event's own
\* value were, or if the device withdrew that value.
AttachOHPCFPayload(j) ==
    LET available == /\ j.target # {} /\ CompressorCore \subseteq j.got
                     /\ j.target \subseteq j.got \cup (j.absent \ CompressorCore)
    IN  IF j.found = {} THEN NotFound
        ELSE IF j.got = {} THEN Failed
        ELSE IF available THEN Served({"compressor"})
        ELSE Concluded("unavailable", "failed", {"compressor"})

Conclusion(j) ==
    LET d == j.domain
    IN  CASE d = "metric" /\ j.call = "rpc" -> GetPowerConsumption(j)
          [] d \in {"metric", "scoped"} /\ j.call = "event" -> AttachMeasurementPayload(j)
          [] d = "measurements" -> SnapshotMeasurements(j)
          [] d = "diagnostics" -> SnapshotDeviceDiagnostics(j)
          [] d = "limit" -> GetConsumptionLimit(j)
          [] d = "failsafe" -> GetFailsafeLimit(j)
          [] d = "heartbeat" -> SnapshotHeartbeat(j)
          [] d = "dhw" -> GetDHWSetpoint(j)
          [] d = "dhw_system_function" -> GetDHWSystemFunction(j)
          [] d = "heating" /\ j.call = "event" -> AttachRoomHeatingPayload(j)
          [] d = "heating" -> SnapshotRoomHeating(j)
          [] j.call = "rpc" -> GetCompressorFlexibility(j)
          [] OTHER -> AttachOHPCFPayload(j)

-----------------------------------------------------------------------------
(* The steps of a read.                                                    *)

\* deviceHasEntities.
Bound == IF row.entities # {} THEN "bound" ELSE "none"
MissingEntity(d) == RecordCapabilityMissingEntity(row, CapabilityOf(d), Bound)

\* resolveCapabilityEntity: a domain of LPC asks for its scenario.
Resolved(u) == IF u \in LPCScenario THEN CompatibleEntityForScenario(offer, u) ELSE CompatibleEntity(offer, u)

\* resolveCompatibleEntity, and what it records if there is no entity.
Resolve(r) ==
    /\ job[r].step = "resolve"
    /\ LET j == job[r]
           u == Head(j.sources)
       IN  Become(r, IF Resolved(u)
                     THEN [j EXCEPT !.found = @ \cup {u}, !.step = "read"]
                     ELSE [j EXCEPT !.step = "missing"])
    /\ UNCHANGED <<row, stack, events>>

Missing(r) ==
    /\ job[r].step = "missing"
    /\ row' = MissingEntity(job[r].domain)
    /\ Become(r, AfterSource(job[r]))
    /\ UNCHANGED <<stack, events>>

ReadOf(u) ==
    CASE u = "dhw_system_function" -> DHWSystemFunctionState(offer, copy)
      [] u = "room_system_function" -> RoomSystemFunctionState(offer, copy)
      [] u \in {"dhw", "room_setpoint"} -> StateOf(copy, u)
      [] u \in LPCScenario -> LPCValues(copy, u)
      [] u = "compressor" -> CompressorValues(copy)
      [] OTHER -> Values(copy, DataOf[u])

Read(r) ==
    /\ job[r].step = "read" /\ job[r].call # "write"
    /\ LET j == job[r]
           u == Head(j.sources)
       IN  Become(r, AfterSource([j EXCEPT !.got = @ \cup ReadOf(u),
                                           !.absent = {x \in DataOf[u] : copy[x] = "absent"}]))
    /\ UNCHANGED <<row, stack, events>>

\* WriteConsumptionLimit, WriteFailsafeLimit: nobody waits for the device's answer, so a
\* write is good once each of its parts is sent; what was sent stays sent if a later part is
\* refused.  Neither is recorded.
Write(r) ==
    /\ job[r].step = "read" /\ job[r].call = "write"
    /\ \E sent \in SUBSET job[r].target :
           /\ "failsafe_duration" \in sent => "failsafe_limit" \in sent
           /\ Become(r, [job[r] EXCEPT !.got = sent, !.step = "done",
                                        !.code = IF sent = job[r].target THEN "ok" ELSE "unavailable"])
    /\ UNCHANGED <<row, stack, events>>

\* What a domain reads of no use case of its own: the temperature of the room from
\* the use case that measures it, the others from the entities of the catalog.  The
\* state of the device is asked for first; its answer, if it comes, is in the copy.
OwnRead(d) ==
    LET catalog == row.entities
        room == Temperature(offer, copy) = "value"
        flow == IF FlowTemperature(catalog, copy) = "value" THEN {"flow"} ELSE {}
    IN  CASE d = "heating" -> Values(copy, {"zone_label"})
                              \cup (IF room THEN {"heating_temperature"} ELSE {})
          [] d = "measurements" -> flow \cup GenericMeasurements(catalog, copy)
                                   \cup (IF room THEN {"room_temperature"} ELSE {})
          [] d = "scoped" -> flow
          [] OTHER -> IF CachedOperatingState(catalog, copy) = "value" THEN {"diagnostics"} ELSE {}

ReadOwn(r) ==
    /\ job[r].step = "own"
    /\ LET j == job[r]
           d == j.domain
           generic == GenericMeasurements(row.entities, copy)
       IN  Become(r, [j EXCEPT !.got = @ \cup OwnRead(d),
                               !.absent = IF d = "measurements" /\ generic # {}
                                          THEN @ \cup ({"compressor_power"} \ generic) ELSE @,
                               !.step = IF d = "heating" THEN "resolve" ELSE "record"])
    /\ UNCHANGED <<row, stack, events>>

Record(r) ==
    /\ job[r].step = "record"
    /\ LET j == job[r]
           d == j.domain
           c == Conclusion(j)
       IN  /\ row' = CASE c.record = "none" -> row
                       [] c.record = "missing" -> MissingEntity(d)
                       [] OTHER -> RecordCapabilityRead(row, CapabilityOf(d), c.record = "ok")
           /\ Become(r, IF j.call = "snapshot"
                        THEN [j EXCEPT !.payload = @ \cup c.parts, !.step = "state",
                                       !.leaves = IF d = "measurements" THEN MeasurementStates(j) ELSE @]
                        ELSE [j EXCEPT !.payload = c.parts, !.code = c.code, !.step = "done"])
    /\ UNCHANGED <<stack, events>>

-----------------------------------------------------------------------------
(* The snapshot: the state of each domain after its read, then what a call *)
(* captures at its end.                                                    *)

PartsOf(d) == CASE d = "measurements" -> Leaf
                [] d = "heating" -> HeatingPart \cup {"heating_temperature"}
                [] OTHER -> {d}

ValueStateOf(capability, available, attempted) ==
    LET entry == IF row.caps = NoEntries THEN "unknown" ELSE row.caps[capability]
    IN  IF available THEN "available"
        ELSE IF entry \in Unsupported THEN "unsupported"
        ELSE IF entry \in Unavailable \/ attempted THEN "temporarily_unavailable"
        ELSE "unknown"

Advance(j) ==
    IF j.todo = {} THEN [j EXCEPT !.domain = "none", !.step = "capture", !.found = {},
                                  !.got = {}, !.absent = {}]
    ELSE EnteredFirst(j, j.todo)

State(r) ==
    /\ job[r].step = "state"
    /\ LET j == job[r]
           d == j.domain
           read == [j EXCEPT !.agg[d] = ValueStateOf(CapabilityOf(d), j.payload \cap PartsOf(d) # {}, TRUE)]
       IN  Become(r, IF d = "compressor" THEN [read EXCEPT !.step = "refresh"] ELSE Advance(read))
    /\ UNCHANGED <<row, stack, events>>

\* RefreshCompressorFlexibility: the answer of the device comes after the snapshot.
Refresh(r) ==
    /\ job[r].step = "refresh"
    /\ row' = IF CompatibleEntity(offer, "compressor") THEN row ELSE MissingEntity("compressor")
    /\ Become(r, Advance(job[r]))
    /\ UNCHANGED <<stack, events>>

MissingField(aggregate) == IF aggregate = "available" THEN "unknown" ELSE aggregate

\* The states of the fields: what room heating holds goes over the overrides, these over
\* the existing states, and the aggregates come last.
AggregateState(j, x) ==
    CASE x \in j.payload \cap Leaf -> "available"
      [] x \in Leaf \ j.payload -> MissingField(j.agg["measurements"])
      [] x \in HeatingPart -> j.agg["heating"]
      [] OTHER -> j.agg[x]
Layered(j, x, existing, overrides) ==
    IF x \in DOMAIN overrides THEN overrides[x]
    ELSE IF x \in DOMAIN existing THEN existing[x] ELSE AggregateState(j, x)

Heated(j) == IF j.payload \cap PartsOf("heating") = {} THEN {}
             ELSE HeatingPart \cup (IF "heating_temperature" \in j.payload THEN {"room_temperature"} ELSE {})
HeatedState(j, x) ==
    IF x \in {"room_temperature"} \cup j.payload THEN "available"
    ELSE IF x = "zone_label" THEN "unsupported" ELSE MissingField(j.agg["heating"])

FieldStatesUnheated(j, existing, overrides) ==  \* mutant: room heating is left out
    [x \in Field |-> Layered(j, x, existing, overrides)]
FieldStates(j, existing, overrides) ==
    [x \in Field |-> IF x \in Heated(j) THEN HeatedState(j, x) ELSE Layered(j, x, existing, overrides)]

\* The capabilities come last; then the states of the fields, once with what the
\* measurements told and once, for the answer, without.
Capture(r) ==
    /\ job[r].step = "capture"
    /\ LET left(d) == ValueStateOf(CapabilityOf(d), FALSE, FALSE)
           read == [job[r] EXCEPT !.agg = [d \in Built |-> IF d \in profile.reads THEN @[d] ELSE left(d)]]
           built == FieldStates(read, NoStates, read.leaves)
       IN  Become(r, [read EXCEPT !.caps = row.caps, !.fields = FieldStates(read, built, NoStates),
                                  !.leaves = NoStates, !.code = "ok", !.step = "done"])
    /\ UNCHANGED <<row, stack, events>>

-----------------------------------------------------------------------------
(* Calls.                                                                  *)

KnownDevice(r) == ~r.removed /\ (r.listed \/ r.health # "unknown")

Begin(r, j) ==
    /\ job[r].step = "idle"
    /\ Cardinality({q \in Reader : job[q].step # "idle"}) < profile.calls
    /\ Become(r, j) /\ UNCHANGED <<row, stack>>

Rpc(r) ==
    \E d \in profile.reads \cup (IF "measurements" \in profile.reads THEN {"metric"} ELSE {}) :
        Begin(r, Entered([Idle EXCEPT !.call = "rpc"], d, {})) /\ UNCHANGED events

\* The power limit may be written without the duration.
WriteRpc(r) ==
    \E d \in profile.reads \cap {"limit", "failsafe"} :
        \E parts \in {DataOf[d], DataOf[d] \ {"failsafe_duration"}} :
            Begin(r, Entered([Idle EXCEPT !.call = "write", !.target = parts], d, {})) /\ UNCHANGED events

\* Build asks for the membership of the device once, before it reads.
GetDeviceSnapshot(r) ==
    LET call == [Idle EXCEPT !.call = "snapshot", !.target = CompressorCore]
    IN  /\ Begin(r, IF KnownDevice(row) THEN EnteredFirst([call EXCEPT !.alone = TRUE], profile.reads)
                    ELSE [call EXCEPT !.code = "not_found", !.step = "done"])
        /\ UNCHANGED events

\* The domain that an event's payload is read from, and the part it is about: each
\* service attaches its own to the events it knows.
AttachedTo(x, useCases) == \E u \in useCases : x \in DataOf[u]

MeasurementPayload(x) ==
    CASE x = "operating_state" -> <<"diagnostics", {"diagnostics"}>>
      [] AttachedTo(x, {"monitoring"}) -> <<"metric", {x}>>
      [] OTHER -> <<"scoped", {"flow"}>>

LPCPayload(x) == <<CHOOSE s \in LPCScenario : x \in DataOf[s] \cup {s}, {}>>

DHWPayload(x) == <<IF AttachedTo(x, {"dhw"}) THEN "dhw" ELSE "dhw_system_function", {}>>

RoomHeatingPayload(x) ==
    CASE AttachedTo(x, {"room_temperature"}) -> <<"heating", {"heating_temperature"}>>
      [] AttachedTo(x, {"room_setpoint"}) -> <<"heating", {x}>>
      [] OTHER -> <<"heating", {"room_system_function"}>>

OHPCFPayload(x) == <<"compressor", IF x \in CompressorCore THEN CompressorCore ELSE {x}>>

PayloadOf(x) ==
    CASE AttachedTo(x, LPCScenario) \/ x = "heartbeat" -> LPCPayload(x)
      [] AttachedTo(x, {"dhw", "dhw_system_function"}) -> DHWPayload(x)
      [] AttachedTo(x, {"room_temperature", "room_setpoint", "room_system_function"}) -> RoomHeatingPayload(x)
      [] AttachedTo(x, {"compressor"}) -> OHPCFPayload(x)
      [] OTHER -> MeasurementPayload(x)

\* An event of support has no part of its own.
SupportPayloadOf(u) == <<IF u \in {"room_setpoint", "room_system_function"} THEN "heating" ELSE u, {}>>

SubscribeEvents(r) ==
    /\ events # <<>>
    /\ LET e == Head(events)
           p == IF e[1] = "data" THEN PayloadOf(e[2]) ELSE SupportPayloadOf(e[2])
       IN  Begin(r, Entered([Idle EXCEPT !.call = "event", !.target = p[2]], p[1], {}))
    /\ events' = Tail(events)

\* GetDeviceStatus reads the health of the device, then whether it is a member.
GetDeviceStatus(r) ==
    Begin(r, [Idle EXCEPT !.call = "status", !.got = {row.health}, !.step = "membership",
                          !.removal = IF row.removed THEN "standing" ELSE "none"])
    /\ UNCHANGED events

MembershipFirst(r) ==  \* mutant: the membership is not asked for again after the health is read
    /\ job[r].step = "membership"
    /\ Become(r, [job[r] EXCEPT !.code = "ok", !.step = "done"])
    /\ UNCHANGED <<row, stack, events>>
Membership(r) ==
    /\ job[r].step = "membership"
    /\ Become(r, [job[r] EXCEPT !.code = IF KnownDevice(row) THEN "ok" ELSE "not_found", !.step = "done"])
    /\ UNCHANGED <<row, stack, events>>

\* GetDeviceCapabilities asks for the membership, then reads the entries: none are left of
\* a device that is removed between.
GetDeviceCapabilities(r) ==
    LET call == [Idle EXCEPT !.call = "capabilities"]
    IN  Begin(r, IF KnownDevice(row) THEN [call EXCEPT !.step = "entries"]
                 ELSE [call EXCEPT !.code = "not_found", !.step = "done"])
        /\ UNCHANGED events

DeviceCapabilities(r) ==
    /\ job[r].step = "entries"
    /\ Become(r, [job[r] EXCEPT !.caps = row.caps, !.code = "ok", !.step = "done"])
    /\ UNCHANGED <<row, stack, events>>

Answer(r) ==
    /\ job[r].step = "done"
    /\ job' = [job EXCEPT ![r] = Idle]
    /\ UNCHANGED <<row, stack, events>>

CallStep(r) ==
    \/ Rpc(r) \/ WriteRpc(r) \/ GetDeviceSnapshot(r) \/ GetDeviceCapabilities(r) \/ SubscribeEvents(r)
    \/ GetDeviceStatus(r) \/ Resolve(r) \/ Missing(r) \/ Read(r) \/ Write(r) \/ ReadOwn(r) \/ Record(r)
    \/ State(r) \/ Refresh(r) \/ Capture(r) \/ Membership(r) \/ DeviceCapabilities(r) \/ Answer(r)

ReadsNext ==
    \/ LinkUp \/ LinkDown \/ ServiceCallback \/ Unpair \/ Pair \/ Beat \/ UseCaseCallback
    \/ \E u \in UseCase : Negotiate(u)
    \/ \E x \in Datum : Store(x)
    \/ \E r \in Reader : CallStep(r)

ReadsSpec == ReadsInit /\ [][ReadsNext]_readsVars

-----------------------------------------------------------------------------
(* Properties.                                                             *)

Snapshots == {job[r] : r \in {q \in Reader : job[q].call = "snapshot" /\ job[q].code = "ok"}}

\* A field of a snapshot is said to be available if and only if its value is in the
\* snapshot, whatever the domains it is read from told of it and in whatever order: the
\* temperature of the room is read twice, and the states are put together twice
\* (populateSnapshotFieldStates).
LeafTruthful ==
    \A j \in Snapshots : \A x \in Field :
        (j.fields[x] = "available")
            <=> (x \in j.payload \/ (x = "room_temperature" /\ "heating_temperature" \in j.payload))

\* The payload and the capabilities of a snapshot describe the same result: if nothing
\* crossed the snapshot and the device is connected, a domain read from one use case is
\* available with an available capability, and in the state of its capability if not.
\* (An unsupported capability is kept through a good read.)
SnapshotAgrees ==
    \A j \in Snapshots : j.alone /\ row.health = "connected" /\ j.caps # NoEntries =>
        \A d \in Single \cap profile.reads :
            LET entry == j.caps[CapabilityOf(d)]
            IN  \/ j.fields[d] = "available" /\ entry \in {"available"} \cup Unsupported
                \/ j.fields[d] = "unsupported" /\ entry \in Unsupported
                \/ j.fields[d] = "temporarily_unavailable" /\ entry \in Unavailable

\* GetDeviceStatus: "If unregister ran between the two reads, the tombstone wins".  A status
\* is never told of a device that was removed before or between the reads of its health and
\* of its membership, whatever health was found, unless it was paired again by the second
\* (then the health may be that of the lifetime before, or none).  Without a removal the
\* health told is that of a device the bridge has a connection record of.
StatusOfKnown ==
    \A r \in Reader : job[r].call = "status" /\ job[r].code = "ok" =>
        \/ job[r].removal = "none" /\ job[r].got # {"unknown"}
        \/ job[r].removal = "ended"

===============================================================================
