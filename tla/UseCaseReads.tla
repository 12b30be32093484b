----------------------------- MODULE UseCaseReads -----------------------------
(***************************************************************************)
(* What the use-case wrappers of the bridge (internal/usecases) read.  No  *)
(* read but one goes to the device: a wrapper reads the copy of its data   *)
(* that the SPINE stack keeps, at the entity that negotiated the use case  *)
(* or, for data no use case covers, at the entities the catalog lists.     *)
(*                                                                         *)
(* A datum of the copy has a value, is absent, or cannot be read: it is    *)
(* marked as not normal, or has no unit or limits the bridge understands.  *)
(* One scalar metric stands for all (power, energy, frequency), one list   *)
(* per phase for all three, one temperature use case for all three, one    *)
(* scope of the hydraulic circuit for both.                                *)
(***************************************************************************)
EXTENDS Naturals

UseCase == {"monitoring", "room_temperature", "limit", "failsafe", "heartbeat", "dhw",
            "dhw_system_function", "dhw_configuration", "room_setpoint",
            "room_system_function", "room_configuration", "compressor"}

\* Data a use case carries (external).  Limit, failsafe and heartbeat are scenarios 1,
\* 2 and 3 of one use case; a scenario is negotiated on its own.
DataOf == [u \in UseCase |->
    CASE u = "monitoring" -> {"power", "phases"}
      [] u = "room_temperature" -> {"room_temperature"}
      [] u = "limit" -> {"limit"}
      [] u = "failsafe" -> {"failsafe_limit", "failsafe_duration"}
      [] u = "heartbeat" -> {}
      [] u = "dhw" -> {"dhw_setpoint"}
      [] u = "dhw_system_function" -> {"dhw_modes", "dhw_mode"}
      [] u = "dhw_configuration" -> {"dhw_writable"}
      [] u = "room_setpoint" -> {"room_setpoint"}
      [] u = "room_system_function" -> {"room_modes", "room_mode"}
      [] u = "room_configuration" -> {"room_writable"}
      [] u = "compressor" -> {"available", "state", "estimate"}]

\* Entities of the device; the hydraulic circuit is measured at either (external).
Entity == {"appliance", "circuit"}
EntityOf == [u \in UseCase |->
    IF u \in {"monitoring", "limit", "failsafe", "heartbeat", "compressor"} THEN "appliance" ELSE "circuit"]
FlowAt == [appliance |-> "flow_appliance", circuit |-> "flow_circuit"]

Datum == UNION {DataOf[u] : u \in UseCase}
         \cup {FlowAt[e] : e \in Entity} \cup {"compressor_power", "operating_state", "zone_label"}

\* What the copy may hold of a datum: a list per phase, a measurement of a catalog
\* entity and an optional value of the compressor tell an absent value from a bad one.
Held(x) == IF x \in {"phases", "flow_appliance", "flow_circuit", "compressor_power", "estimate"}
           THEN {"value", "absent", "failed"} ELSE {"value", "absent"}

-----------------------------------------------------------------------------
(* Reads, given the use cases on offer, the entities of the catalog, the   *)
(* copy of the data.                                                       *)

CompatibleEntity(offer, u) == u \in offer

CompatibleEntityForScenario(offer, u) == u \in offer

Values(cache, data) == {x \in data : cache[x] = "value"}

\* TemperatureMonitoringWrapper.Temperature.
Temperature(offer, cache) ==
    IF CompatibleEntity(offer, "room_temperature") THEN cache["room_temperature"] ELSE "absent"

\* measurementIDForScope: an entity that describes the scope, whatever its value.
Describing(catalog, cache) == {e \in catalog : cache[FlowAt[e]] # "absent"}

\* scopedTemperature: the appliance is asked before any other entity.
FlowTemperature(catalog, cache) ==
    LET describing == Describing(catalog, cache)
        asked == IF "appliance" \in describing THEN "appliance" ELSE "circuit"
    IN  IF describing = {} THEN "absent" ELSE cache[FlowAt[asked]]

\* classifyGenericMeasurement: the type under which a datum found at an entity is served.
GenericData == [appliance |-> {"flow_appliance", "compressor_power"},
                circuit |-> {"flow_circuit", "room_temperature"}]
ClassifyGeneric(x) == IF x \in {"flow_appliance", "flow_circuit"} THEN "flow" ELSE x

\* measurementsForEntity: the entity's measurements with a normal value.
MeasurementsForEntity(e, cache) == {ClassifyGeneric(x) : x \in Values(cache, GenericData[e])}

GenericMeasurements(catalog, cache) == UNION {MeasurementsForEntity(e, cache) : e \in catalog}

\* RemoteDeviceDiagnosisFeature, CachedOperatingState.
DiagnosisFeature(catalog) == catalog # {}
CachedOperatingState(catalog, cache) ==
    IF DiagnosisFeature(catalog) THEN cache["operating_state"] ELSE "absent"

\* The states of setpoints and system functions: one that lacks a part reads as none.
\* Whether it can be written is told by the configuration use case, if that is read.
StateOf(cache, u) == IF DataOf[u] \subseteq Values(cache, DataOf[u]) THEN DataOf[u] ELSE {}

\* CDSFConfigurationFacade: what may be written is known with the modes to choose from.
DHWCapabilities(offer, cache) ==
    {x \in Values(cache, DataOf["dhw_configuration"]) :
        CompatibleEntity(offer, "dhw_configuration") /\ cache["dhw_modes"] = "value"}

DHWSystemFunctionState(offer, cache) ==
    LET state == StateOf(cache, "dhw_system_function")
    IN  IF state = {} THEN {} ELSE state \cup DHWCapabilities(offer, cache)

\* CRHSFConfigurationFacade: the bridge's own inspector reads only what may be written.
RoomCapabilities(offer, cache) ==
    {x \in Values(cache, DataOf["room_configuration"]) : CompatibleEntity(offer, "room_configuration")}

RoomSystemFunctionState(offer, cache) ==
    LET state == StateOf(cache, "room_system_function")
    IN  IF state = {} THEN {} ELSE state \cup RoomCapabilities(offer, cache)

\* LPCWrapper, OHPCFWrapper: one read for each value, with an error of its own.
LPCValues(cache, scenario) == Values(cache, DataOf[scenario])

CompressorValues(cache) == Values(cache, DataOf["compressor"])

\* The parts of the compressor's offer that a read of it cannot do without.
CompressorCore == {"available", "state"}

===============================================================================
