----------------------------- MODULE MCEventBus -----------------------------
(***************************************************************************)
(* Small instance of EventBus: two devices, two interchangeable subscribers *)
(* and a channel of one event, which the second publication overflows.     *)
(***************************************************************************)
EXTENDS EventBus, TLC

CONSTANTS none, s1, s2

\* Each device is spelt canonically and in one other way ("ab:cd" for "ABCD").
MCRawSKI == {none} \cup (SKI \X {"plain", "colons"})
MCNormalizeSKI(raw) == IF raw = none THEN none ELSE raw[1]
MCEventType == {"delta", "discovery"}
MCSymmetry == Permutations({s1, s2})

=============================================================================
