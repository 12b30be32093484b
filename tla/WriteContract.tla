----------------------------- MODULE WriteContract -----------------------------
(***************************************************************************)
(* What a write RPC promises Home Assistant, whatever the domain: the      *)
(* device takes a write over at most once, a write reported as applied has *)
(* been taken over, one reported as refused never is, and of any other     *)
(* answer nothing follows (docs/dhw-cdsf-upstream-migration-spec.md 5.3,   *)
(* 5.4; the codes are those of WRITE_VALIDATION_CODES in grpc_client.py).  *)
(***************************************************************************)
EXTENDS Naturals

CONSTANT Call       \* the calls of write RPCs

VARIABLES
    answer,         \* [Call -> what the caller has been told so far]
    takeovers       \* [Call -> how often the device has taken the write over]

vars == <<answer, takeovers>>

Init ==
    /\ answer = [c \in Call |-> "none"]
    /\ takeovers = [c \in Call |-> 0]

Submit(c) ==
    /\ answer[c] = "none"
    /\ answer' = [answer EXCEPT ![c] = "pending"]
    /\ UNCHANGED takeovers

\* The device may take a write over until its caller is told that it is refused.
TakeOver(c) ==
    /\ answer[c] \in {"pending", "unknown"}
    /\ takeovers[c] = 0
    /\ takeovers' = [takeovers EXCEPT ![c] = 1]
    /\ UNCHANGED answer

\* A call that is not well-formed, or finds no device, is answered at once.
Answer(c, what) ==
    /\ answer[c] \in {"none", "pending"}
    /\ what = "applied" => takeovers[c] = 1
    /\ what = "refused" => takeovers[c] = 0
    /\ answer' = [answer EXCEPT ![c] = what]
    /\ UNCHANGED takeovers

Next ==
    \E c \in Call :
        \/ Submit(c)
        \/ TakeOver(c)
        \/ \E what \in {"applied", "refused", "unknown"} : Answer(c, what)

Spec == Init /\ [][Next]_vars

=============================================================================
