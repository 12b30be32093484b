---------------------------- MODULE MCDeviceWrites ----------------------------
(***************************************************************************)
(* Two concurrent calls of each acknowledged write RPC.  In a behaviour    *)
(* either the device changes its data once or the connection is lost once. *)
(***************************************************************************)
EXTENDS DeviceWrites

MCNext == Next /\ changes' + link'.epoch <= MaxEpoch

MCSpec == Init /\ [][MCNext]_vars /\ Fairness

=============================================================================
