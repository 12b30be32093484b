------------------------------ MODULE MCRegistry ------------------------------
(***************************************************************************)
(* Small instance of RegistryTrust for TLC: one device, whose row is       *)
(* independent of any other's, under all of its handlers.                  *)
(***************************************************************************)
EXTENDS RegistryTrust

CONSTANTS d1, c1, c2, monitoring, mgcp, p1

===============================================================================
