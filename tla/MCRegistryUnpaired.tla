-------------------------- MODULE MCRegistryUnpaired --------------------------
(***************************************************************************)
(* Small instance of Registry for TLC: one device, a command of the user   *)
(* and a reconnect of the recovery supervisor at once.                     *)
(***************************************************************************)
EXTENDS Registry

CONSTANTS d1, c1, monitoring, p1, p2

===============================================================================
