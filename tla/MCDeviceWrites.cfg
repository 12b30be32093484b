SPECIFICATION MCSpec
CONSTANTS
    Calls = 2
    Kind = {"dhw_setpoint", "dhw_mode", "dhw_boost", "room_temperature", "room_mode", "compressor"}
    MaxChange = 1
    MaxEpoch = 2
PROPERTY ContractKept
PROPERTY AppliedIsShown
PROPERTY EveryCallEnds
CHECK_DEADLOCK FALSE
