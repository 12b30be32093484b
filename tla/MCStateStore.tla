----------------------------- MODULE MCStateStore -----------------------------
(***************************************************************************)
(* Small instance of StateStore: one measurement that no capability gates, *)
(* and one leaf gated by one capability.                                   *)
(***************************************************************************)
EXTENDS StateStore

MCCapabilityOf == [l \in {"temperature", "limit"} |-> IF l = "limit" THEN "lpc" ELSE "ungated"]

MCLegacyStreams ==
    [l \in {"temperature", "limit"} |->
        IF l = "limit" THEN {"lpc_events"} ELSE {"measurements"}]

=============================================================================
