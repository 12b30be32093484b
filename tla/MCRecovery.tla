------------------------------ MODULE MCRecovery ------------------------------
(***************************************************************************)
(* Small instance of Recovery for TLC: either one device, to which         *)
(* everything may happen, or two that only connect, answer reads and fall  *)
(* silent: what two share is the tick and its decision to restart.  Of two *)
(* the first never answers and is the first to fall silent.                *)
(***************************************************************************)
EXTENDS Recovery

CONSTANTS d1, d2

VARIABLE present

Alone(d) ==
    \/ Unpair(d) \/ Revoke(d) \/ LinkDown(d)
    \/ Support(d) \/ Beat(d)
    \/ row[d].health = "disconnected" /\ Read(d)

Together(d) ==
    \/ Pair(d) \/ LinkUp(d) \/ Callback(d)
    \/ (d = d2 => d1 \in silent) /\ FallSilent(d)
    \/ (present = {d1, d2} => d = d2) /\ row[d].health = "connected" /\ Read(d)

MCInit == Init /\ present \in {{d1}, {d1, d2}}

MCNext ==
    /\ \/ Watchdog
       \/ \E d \in present : Together(d)
       \/ present = {d1} /\ Alone(d1)
    /\ UNCHANGED present

MCSpec == MCInit /\ [][MCNext]_<<vars, present>> /\ Fairness

\* When none of the devices present answers any more, the supervisor gives up on the
\* process (Tick, restartDecision): a stuck bridge is not left as it is.
StuckIsRestarted == Stuck(present) ~> restart

===============================================================================
