------------------------- MODULE MCDeviceStateStream -------------------------
(***************************************************************************)
(* Small instances of DeviceStateStream: one device, two incarnations of   *)
(* the stream, channels and transport of one or two slots.                 *)
(***************************************************************************)
EXTENDS DeviceStateStream, TLC

MCNormalizeSKI(raw) == raw

Symmetric == Permutations(Sub)

=============================================================================
