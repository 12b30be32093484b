----------------------------- MODULE MCReadings -----------------------------
(***************************************************************************)
(* Instances of Readings: one device after the other, each with a few use  *)
(* cases and the data of theirs that changes, and the domains read of it.  *)
(***************************************************************************)
EXTENDS Readings, TLC

Device(useCases, data, reads) == [useCases |-> useCases, data |-> data, reads |-> reads, calls |-> 1]
Shared(device) == [device EXCEPT !.calls = 2]

Meter == Device({"monitoring"}, {"power", "phases"}, {"measurements"})
Pump == Device({}, {"flow_appliance", "flow_circuit"}, {"measurements"})
Diagnosed == Device({"monitoring"}, {"operating_state"}, {"diagnostics"})
Metered == Device({"monitoring"}, {"compressor_power"}, {"measurements"})
Limited == Device({"limit", "heartbeat"}, {"limit"}, {"limit", "heartbeat"})
Failsafe == Device({"failsafe"}, {"failsafe_limit", "failsafe_duration"}, {"failsafe"})
Cylinder == Device({"dhw"}, {"dhw_setpoint"}, {"dhw"})
Boosted == Device({"dhw_system_function", "dhw_configuration"}, {"dhw_mode", "dhw_modes"},
                  {"dhw_system_function"})
Room == Device({"room_setpoint", "room_temperature"}, {"room_setpoint", "room_temperature"}, {"heating"})
Labelled == Device({"room_setpoint"}, {"room_setpoint", "zone_label"}, {"heating"})
Sensed == Device({"room_temperature"}, {"room_temperature"}, {"measurements", "heating"})
Modes == Device({"room_setpoint", "room_system_function"}, {"room_modes", "room_mode"}, {"heating"})
Flexible == Device({"compressor"}, {"available", "state"}, {"compressor"})
Estimating == Device({"compressor"}, {"state", "estimate"}, {"compressor"})

Devices == {Meter, Shared(Pump), Shared(Diagnosed), Metered, Limited, Failsafe,
            Cylinder, Boosted, Room, Labelled, Sensed, Modes, Flexible, Estimating}
Symmetry == Permutations(Reader)

Capabilities == {"monitoring", "lpc", "failsafe", "heartbeat", "dhw", "dhw_system_function",
                 "room_heating", "ohpcf"}

===============================================================================
