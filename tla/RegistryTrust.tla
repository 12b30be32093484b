---------------------------- MODULE RegistryTrust ----------------------------
(***************************************************************************)
(* The device registry when one side decides about trust: either the user, *)
(* by commands of which a device has one at a time, or the peer.  With     *)
(* both, the registry may end up with the one's answer and the stack with  *)
(* the other's, because a trust callback waits while a command runs, and   *)
(* TrustController (trust.go) has no lock.                                 *)
(***************************************************************************)
EXTENDS Registry

\* Who decides about trust in a behaviour: the user's commands or the peer.
VARIABLE master

masterVars == <<vars, master>>

MasterInit == Init /\ master \in {"user", "peer"}

PeerDecides == \E d \in SKI : Revoke(d) \/ AutoTrust(d)
UserDecides == \E p \in Client : CommandBegin(p)

Busy(p, d) == command[p] # Idle /\ command[p].ski = d
OneCommand == \A d \in SKI : \A p, q \in Client : Busy(p, d) /\ Busy(q, d) => p = q

MasterNext ==
    /\ Next
    /\ master = "user" => ~PeerDecides
    /\ master = "peer" => ~UserDecides
    /\ OneCommand'
    /\ UNCHANGED master

MasterSpec == MasterInit /\ [][MasterNext]_masterVars

\* While only the peer decides about trust, a device the stack is connected to is
\* connected in the registry once its callbacks have run (callbacks.go).
PeerLinkAgrees == master = "peer" => LinkAgrees

=============================================================================
