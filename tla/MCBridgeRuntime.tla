--------------------------- MODULE MCBridgeRuntime ---------------------------
(***************************************************************************)
(* An instance of BridgeRuntime: two entries, two bridges, two runtimes.   *)
(* In a behaviour either a bridge changes its contract, or an entry is     *)
(* moved and has its unloading cancelled.                                  *)
(***************************************************************************)
EXTENDS BridgeRuntime, TLC

VARIABLE moving

MCInit == Init /\ moving \in BOOLEAN

MCNext ==
    /\ Next
    /\ IF moving THEN upgrades' = 0
       ELSE abandoned' = {} /\ \A e \in Entry : replacement'[e] = None
    /\ UNCHANGED moving

MCSpec == MCInit /\ [][MCNext]_<<vars, moving>>

Symmetric == Permutations(Key)

===============================================================================
