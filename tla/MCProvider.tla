------------------------------ MODULE MCProvider ------------------------------
(***************************************************************************)
(* Small instance of ProviderPush for TLC: two calls in flight, and either *)
(* two managers in succession or a clock of two ticks.                     *)
(***************************************************************************)
EXTENDS ProviderPush, TLC

CONSTANTS v1, v2

MCNext == PushNext /\ (now' = MaxTime => \A m \in Manager \ {First} : manager'[m] = "new")

MCSpec == PushInit /\ [][MCNext]_pushVars

MCSymmetry == Permutations({v1, v2})

===============================================================================
