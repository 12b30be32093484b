------------------------------- MODULE CallProofs -------------------------------
(***************************************************************************)
(* The calls of the bridge's gRPC services: what a write RPC answers, and  *)
(* what a read RPC serves and says of it.                                  *)
(*                                                                         *)
(* Writes (DeviceWrites).  Every write RPC keeps the contract of           *)
(* WriteContract, for any number of concurrent calls, any of the six kinds *)
(* and any number of reconnections: DeviceWrites implements it under the   *)
(* mapping answer <- told.  The contract is about two variables; what      *)
(* makes it true is where the message of a call is.  The invariant says    *)
(* so: nothing is on the wire before the call has sent, a value on the     *)
(* wire has not been taken over and its caller has been told nothing       *)
(* definite, and a result, on the wire or in the inbox, says what the      *)
(* device did.                                                             *)
(*                                                                         *)
(* Reads (Readings).  A snapshot is read in many steps, between any two of *)
(* which the device and other calls go on.  The invariant of a call says,  *)
(* of every domain it has told so far, that the domain is told available   *)
(* if and only if some of it is served; of the domain it is at, what it    *)
(* has found; and, as long as nothing crossed the call, what the registry  *)
(* records of the domains told.  What the call captures at its end then    *)
(* follows from the layers the states of its fields are put together from. *)
(***************************************************************************)
EXTENDS DeviceWrites, Readings, NaturalsInduction, TLAPS

-------------------------------------------------------------------------------
(* Writes.                                                                 *)

Wish == Process \cup {"v1", "v2", "v3"}
Early == {"idle", "resolved", "checked"}

Types ==
    /\ pc \in [Call -> Early \cup {"written", "waiting", "done"}]
    /\ told \in [Call -> {"none", "pending", "unknown", "applied", "refused"}]
    /\ wire \in [Call -> Wish \cup {"none", "lost", "ok", "rejected"}]
    /\ wanted \in [Call -> Wish \cup {Unknown}]
    /\ inbox \in [Call -> {"none", "ok", "rejected"}]
    /\ takeovers \in [Call -> {0, 1}]

Unanswered(c) ==
    /\ told[c] = "none" <=> pc[c] = "idle"
    /\ pc[c] \in {"resolved", "checked"} => told[c] = "pending"
    /\ pc[c] \in {"written", "waiting"} => told[c] \in {"pending", "unknown"}

Unsent(c) ==
    /\ pc[c] \in Early => wire[c] = "none" /\ takeovers[c] = 0 /\ inbox[c] = "none"
    /\ pc[c] \in {"resolved", "checked"} => wanted[c] \in Wish

Travels(c) ==
    wire[c] \in Wish => takeovers[c] = 0 /\ inbox[c] = "none" /\ told[c] \in {"pending", "unknown"}

Truthful(c) ==
    /\ wire[c] = "ok" => takeovers[c] = 1 /\ inbox[c] = "none"
    /\ wire[c] = "rejected" => takeovers[c] = 0 /\ inbox[c] = "none"
    /\ inbox[c] = "ok" => takeovers[c] = 1
    /\ inbox[c] = "rejected" => takeovers[c] = 0

Fate(c) == Unanswered(c) /\ Unsent(c) /\ Travels(c) /\ Truthful(c)

IInv == Types /\ \A c \in Call : Fate(c)

\* What is asked for is a value, never one of the words for a message's fate.
LEMMA RequestedIsWish == Requested \subseteq Wish
  BY DEF Requested, Wish, Process

\* The answer to a call, by the error its handler returns.
LEMMA AnsweredBy ==
  ASSUME NEW error
  PROVE  /\ Answered(mapUsecaseError(error)) \in {"applied", "refused", "unknown"}
         /\ Answered(mapUsecaseError(error)) = "applied" => error = "none"
         /\ Answered(mapUsecaseError(error)) = "refused" =>
              error \in {"bad_request", "out_of_range", "invalid_mode", "not_writable",
                         "rejected", "entity_not_found"}
  BY DEF Answered, mapUsecaseError, WriteValidationCodes

\* A handler that returns an error: `none' after a takeover, a refusal without one.
LEMMA Returns ==
  ASSUME IInv, NEW c \in Call, NEW error,
         pc[c] \notin {"idle", "done"}, Return(c, error),
         UNCHANGED <<kind, wire, takeovers>>,
         error = "none" => takeovers[c] = 1,
         Answered(mapUsecaseError(error)) = "refused" => takeovers[c] = 0 /\ wire[c] \notin Wish
  PROVE  /\ IInv'
         /\ [Contract!Next]_<<told, takeovers>>
  <1>1. Types'
    BY AnsweredBy DEF IInv, Types, Return, Early, Unknown
  <1>2. \A o \in Call : Fate(o)'
    <2> SUFFICES ASSUME NEW o \in Call PROVE Fate(o)'
      OBVIOUS
    <2>1. Fate(o)
      BY DEF IInv
    <2>2. CASE o # c
      BY <2>1, <2>2 DEF IInv, Types, Return, Fate, Unanswered, Unsent, Travels, Truthful, Early
    <2>3. CASE o = c
      <3>1. pc'[c] = "done" /\ inbox'[c] = "none" /\ wire'[c] = wire[c] /\ takeovers'[c] = takeovers[c]
        BY DEF IInv, Types, Return
      <3>2. told'[c] = IF told[c] = "pending" THEN Answered(mapUsecaseError(error)) ELSE told[c]
        BY DEF IInv, Types, Return
      <3>3. told[c] # "none"
        BY <2>1, <2>3 DEF Fate, Unanswered
      <3>4. told'[c] # "none" /\ (wire[c] \in Wish => told'[c] \in {"pending", "unknown"})
        <4>1. CASE told[c] = "pending"
          <5>1. wire[c] \in Wish => takeovers[c] = 0
            BY <2>1, <2>3 DEF Fate, Travels
          <5> QED BY <4>1, <3>2, <5>1, AnsweredBy
        <4>2. CASE told[c] # "pending"
          BY <4>2, <3>2, <3>3, <2>1, <2>3 DEF Fate, Travels
        <4> QED BY <4>1, <4>2
      <3> QED BY <2>1, <2>3, <3>1, <3>3, <3>4 DEF Fate, Unanswered, Unsent, Travels, Truthful, Early
    <2> QED BY <2>2, <2>3
  <1>3. [Contract!Next]_<<told, takeovers>>
    <2>1. CASE told[c] # "pending"
      BY <2>1 DEF Return
    <2>2. CASE told[c] = "pending"
      <3> DEFINE what == Answered(mapUsecaseError(error))
      <3>1. told' = [told EXCEPT ![c] = what]
        BY <2>2 DEF Return
      <3>2. what \in {"applied", "refused", "unknown"} /\ (what = "applied" => takeovers[c] = 1)
        BY AnsweredBy
      <3>3. what = "refused" => takeovers[c] = 0
        OBVIOUS
      <3>4. Contract!Answer(c, what)
        BY <2>2, <3>1, <3>2, <3>3 DEF Contract!Answer
      <3> QED BY <3>2, <3>4 DEF Contract!Next
    <2> QED BY <2>1, <2>2
  <1> QED BY <1>1, <1>2, <1>3 DEF IInv

\* Moving on to the next step of the handler tells nobody anything.
LEMMA Moves ==
  ASSUME IInv, NEW c \in Call, NEW step \in {"checked", "waiting"}, Goto(c, step),
         step = "checked" => pc[c] = "resolved",
         step = "waiting" => pc[c] = "written",
         UNCHANGED <<kind, wire, takeovers>>
  PROVE  IInv' /\ UNCHANGED <<told, takeovers>>
  <1>1. Types'
    BY DEF IInv, Types, Goto, Early
  <1>2. \A o \in Call : Fate(o)'
    BY DEF IInv, Types, Goto, Early, Fate, Unanswered, Unsent, Travels, Truthful
  <1> QED BY <1>1, <1>2 DEF IInv, Goto

\* Entry: a call that is refused at once has sent nothing.
LEMMA Enters ==
  ASSUME IInv, NEW c \in Call, NEW ok \in BOOLEAN, Enter(c, ok)
  PROVE  IInv' /\ [Contract!Next]_<<told, takeovers>>
  <1>0. pc[c] = "idle" /\ told[c] = "none" /\ takeovers[c] = 0 /\ wire[c] = "none"
    BY DEF Enter, IInv, Fate, Unanswered, Unsent, Early
  <1>1. PICK error : error = IF ~ok THEN "bad_request"
                             ELSE IF Resolves \notin link.offered THEN "entity_not_found" ELSE "none"
    OBVIOUS
  <1>2. CASE error # "none"
    <2> DEFINE what == Answered(mapUsecaseError(error))
    <2>1. /\ pc' = [pc EXCEPT ![c] = "done"]
          /\ told' = [told EXCEPT ![c] = what]
          /\ UNCHANGED <<wanted, wire, inbox, takeovers>>
      BY <1>1, <1>2 DEF Enter, peer
    <2>2. what \in {"applied", "refused", "unknown"} /\ what # "applied"
      BY <1>2, AnsweredBy
    <2> HIDE DEF what
    <2>3. Types'
      BY <2>1, <2>2 DEF IInv, Types, Early
    <2>4. \A o \in Call : Fate(o)'
      BY <1>0, <2>1, <2>2 DEF IInv, Types, Early, Fate, Unanswered, Unsent, Travels, Truthful, Wish, Process
    <2>5. Contract!Answer(c, what)
      BY <1>0, <2>1, <2>2 DEF Contract!Answer
    <2> QED BY <2>2, <2>3, <2>4, <2>5 DEF IInv, Contract!Next
  <1>3. CASE error = "none"
    <2>1. /\ pc' = [pc EXCEPT ![c] = "resolved"]
          /\ told' = [told EXCEPT ![c] = "pending"]
          /\ UNCHANGED <<wire, inbox, takeovers>>
      BY <1>1, <1>3 DEF Enter, peer
    <2>2. PICK v \in Wish : wanted' = [wanted EXCEPT ![c] = v]
      BY <1>1, <1>3, RequestedIsWish DEF Enter
    <2>3. Types'
      BY <2>1, <2>2 DEF IInv, Types, Early
    <2>4. \A o \in Call : Fate(o)'
      BY <1>0, <2>1, <2>2 DEF IInv, Types, Early, Fate, Unanswered, Unsent, Travels, Truthful
    <2>5. Contract!Submit(c)
      BY <1>0, <2>1 DEF Contract!Submit
    <2> QED BY <2>3, <2>4, <2>5 DEF IInv, Contract!Next
  <1> QED BY <1>2, <1>3

\* Sending: from here on the value, or nothing, is on the wire.
LEMMA Sends ==
  ASSUME IInv, NEW c \in Call, NEW next \in {"written", "waiting"}, Send(c, next)
  PROVE  IInv' /\ UNCHANGED <<told, takeovers>>
  <1>0. /\ pc[c] = "checked" /\ wire[c] = "none" /\ takeovers[c] = 0 /\ inbox[c] = "none"
        /\ told[c] = "pending" /\ wanted[c] \in Wish
    BY DEF Send, IInv, Fate, Unanswered, Unsent, Early
  <1>1. PICK m \in Wish \cup {"lost"} : wire' = [wire EXCEPT ![c] = m]
    BY <1>0 DEF Send
  <1>2. /\ pc' = [pc EXCEPT ![c] = next]
        /\ wanted' = [wanted EXCEPT ![c] = Unknown]
        /\ UNCHANGED <<told, inbox, takeovers>>
    BY DEF Send, peer
  <1>3. Types'
    BY <1>1, <1>2 DEF IInv, Types, Early
  <1>4. \A o \in Call : Fate(o)'
    BY <1>0, <1>1, <1>2 DEF IInv, Types, Early, Fate, Unanswered, Unsent, Travels, Truthful, Wish, Process
  <1> QED BY <1>2, <1>3, <1>4 DEF IInv

\* The device and the wire: what a takeover, a refusal and a delivery leave behind.
LEMMA DeviceSteps ==
  ASSUME IInv, NEW c \in Call, TakeOver(c) \/ Reject(c) \/ DeliverResult(c)
  PROVE  IInv' /\ [Contract!Next]_<<told, takeovers>>
  <1>1. CASE TakeOver(c)
    <2>1. /\ wire[c] \in Wish
          /\ takeovers[c] = 0 /\ inbox[c] = "none" /\ told[c] \in {"pending", "unknown"}
          /\ pc[c] \notin Early
      BY <1>1, RequestedIsWish DEF TakeOver, IInv, Fate, Travels, Unsent, Wish, Process
    <2>2. /\ takeovers' = [takeovers EXCEPT ![c] = 1]
          /\ wire' = [wire EXCEPT ![c] = "ok"]
          /\ UNCHANGED <<pc, told, inbox, wanted>>
      BY <1>1, <2>1 DEF TakeOver, call, IInv, Types
    <2>3. Types'
      BY <2>2 DEF IInv, Types
    <2>4. \A o \in Call : Fate(o)'
      BY <2>1, <2>2 DEF IInv, Types, Early, Fate, Unanswered, Unsent, Travels, Truthful, Wish, Process
    <2>5. Contract!TakeOver(c)
      BY <2>1, <2>2 DEF Contract!TakeOver
    <2> QED BY <2>3, <2>4, <2>5 DEF IInv, Contract!Next
  <1>2. CASE Reject(c)
    <2>1. wire[c] \in Wish /\ takeovers[c] = 0 /\ inbox[c] = "none" /\ pc[c] \notin Early
      BY <1>2, RequestedIsWish DEF Reject, IInv, Fate, Travels, Unsent, Wish, Process
    <2>2. wire' = [wire EXCEPT ![c] = "rejected"] /\ UNCHANGED <<pc, told, inbox, wanted, takeovers>>
      BY <1>2 DEF Reject, call, peer
    <2>3. Types'
      BY <2>2 DEF IInv, Types
    <2>4. \A o \in Call : Fate(o)'
      BY <2>1, <2>2 DEF IInv, Types, Early, Fate, Unanswered, Unsent, Travels, Truthful, Wish, Process
    <2> QED BY <2>2, <2>3, <2>4 DEF IInv
  <1>3. CASE DeliverResult(c)
    <2>1. /\ wire' = [wire EXCEPT ![c] = "lost"]
          /\ inbox' = IF pc[c] = "waiting" THEN [inbox EXCEPT ![c] = wire[c]] ELSE inbox
          /\ wire[c] \in {"ok", "rejected"}
          /\ UNCHANGED <<pc, told, wanted, takeovers>>
      BY <1>3 DEF DeliverResult, peer
    <2>2. Types'
      BY <2>1 DEF IInv, Types
    <2>3. \A o \in Call : Fate(o)'
      BY <2>1 DEF IInv, Types, Early, Fate, Unanswered, Unsent, Travels, Truthful, Wish, Process
    <2> QED BY <2>1, <2>2, <2>3 DEF IInv
  <1> QED BY <1>1, <1>2, <1>3

\* Connections, reads, notifications and the device's own changes touch no call; a
\* disconnection loses what is on the wire and nothing else.
LEMMA Quiet ==
  ASSUME IInv,
         \/ Connect \/ Disconnect \/ HandleEvent \/ RefreshCompressor
         \/ AnswerRead \/ AnswerPartly \/ ChangeAtDevice
  PROVE  IInv' /\ UNCHANGED <<told, takeovers>>
  <1>1. CASE UNCHANGED <<wire, call, takeovers>>
    BY <1>1 DEF call, IInv, Types, Fate, Unanswered, Unsent, Travels, Truthful
  <1>2. CASE Disconnect
    <2>1. /\ wire' = [c \in Call |-> IF wire[c] = "none" THEN "none" ELSE "lost"]
          /\ UNCHANGED <<call, takeovers>>
      BY <1>2 DEF Disconnect, peer
    <2> QED
      BY <2>1 DEF call, IInv, Types, Fate, Unanswered, Unsent, Travels, Truthful, Wish, Process
  <1>3. ~Disconnect => UNCHANGED <<wire, call, takeovers>>
    BY DEF Connect, HandleEvent, RefreshCompressor, AnswerRead, AnswerPartly, ChangeAtDevice, peer
  <1> QED BY <1>1, <1>2, <1>3

\* The handler: validation, sending and the end of the wait.
LEMMA HandlerSteps ==
  ASSUME IInv, NEW c \in Call, Handler(c)
  PROVE  IInv' /\ [Contract!Next]_<<told, takeovers>>
  <1> USE DEF peer
  <1>0. \A m \in {"none", "lost", "ok", "rejected"} : m \notin Wish
    BY DEF Wish, Process
  <1>1. ASSUME NEW error, pc[c] \in {"resolved", "checked"}, error # "none", Return(c, error),
               UNCHANGED <<kind, wire, takeovers>>
        PROVE  IInv' /\ [Contract!Next]_<<told, takeovers>>
    <2>1. takeovers[c] = 0 /\ wire[c] = "none"
      BY <1>1 DEF IInv, Fate, Unsent, Early
    <2> QED BY <1>0, <1>1, <2>1, Returns
  <1>2. ASSUME NEW error, pc[c] = "resolved", Check(c, error)
        PROVE  IInv' /\ [Contract!Next]_<<told, takeovers>>
    <2>1. CASE error = "none"
      BY <1>2, <2>1, Moves DEF Check
    <2>2. CASE error # "none"
      BY <1>1, <1>2, <2>2 DEF Check
    <2> QED BY <2>1, <2>2
  <1>3. CASE CheckDirect(c)
    <2>1. PICK error : pc[c] = "resolved" /\ Check(c, error)
      BY <1>3 DEF CheckDirect
    <2> QED BY <1>2, <2>1
  <1>4. CASE CheckAdapter(c)
    <2>1. CASE \E error : pc[c] = "resolved" /\ Check(c, error)
      BY <2>1, <1>2
    <2>2. CASE /\ pc[c] = "resolved"
               /\ pc' = [pc EXCEPT ![c] = "checked"]
               /\ UNCHANGED <<kind, wire, wanted, inbox, told, takeovers>>
      BY <2>2 DEF IInv, Types, Early, Fate, Unanswered, Unsent, Travels, Truthful
    <2> QED BY <1>4, <2>1, <2>2 DEF CheckAdapter
  <1>5. CASE WriteDHWSetpointValue(c) \/ WriteUpstream(c)
    BY <1>5, Sends DEF WriteDHWSetpointValue, WriteUpstream
  <1>6. CASE AddResponseCallback(c)
    BY <1>6, Moves DEF AddResponseCallback
  <1>7. CASE SendFails(c)
    <2>1. PICK error : error = "send_failed"
      OBVIOUS
    <2> QED BY <1>1, <1>7, <2>1 DEF SendFails
  <1>8. CASE mapUpstreamWriteError(c)
    <2>1. PICK error \in {"data_unavailable", "not_writable"} :
            pc[c] = "checked" /\ Return(c, error) /\ UNCHANGED <<kind, wire, takeovers>>
      BY <1>8 DEF mapUpstreamWriteError
    <2> QED BY <1>1, <2>1
  <1>9. CASE AwaitResult(c)
    <2>1. PICK error : error = ResultError(c)
      OBVIOUS
    <2>2. /\ pc[c] = "waiting" /\ inbox[c] \in {"ok", "rejected"}
          /\ Return(c, error) /\ UNCHANGED <<kind, wire, takeovers>>
      BY <1>9, <2>1 DEF AwaitResult, IInv, Types
    <2>3. error = "none" => takeovers[c] = 1
      BY <2>1, <2>2 DEF ResultError, IInv, Fate, Truthful
    <2>4. Answered(mapUsecaseError(error)) = "refused" => takeovers[c] = 0 /\ wire[c] \notin Wish
      <3>1. CASE inbox[c] = "ok"
        BY <2>1, <3>1, AnsweredBy DEF ResultError
      <3>2. CASE inbox[c] = "rejected"
        BY <3>2 DEF IInv, Fate, Truthful, Travels
      <3> QED BY <2>2, <3>1, <3>2
    <2> QED BY <2>2, <2>3, <2>4, Returns
  <1>10. CASE AwaitCanceled(c) \/ AwaitTimeout(c)
    <2>1. PICK error \in {"canceled", "timed_out"} :
            pc[c] = "waiting" /\ Return(c, error) /\ UNCHANGED <<kind, wire, takeovers>>
      BY <1>10 DEF AwaitCanceled, AwaitTimeout
    <2> QED BY <2>1, Returns, AnsweredBy
  <1> QED
    BY <1>3, <1>4, <1>5, <1>6, <1>7, <1>8, <1>9, <1>10 DEF Handler, AwaitDHWSetpoint, AwaitUpstream

LEMMA GivesUp ==
  ASSUME IInv, NEW c \in Call, GiveUp(c)
  PROVE  IInv' /\ [Contract!Next]_<<told, takeovers>>
  <1>1. /\ pc[c] = "waiting" /\ told[c] = "pending" /\ told' = [told EXCEPT ![c] = "unknown"]
        /\ UNCHANGED <<pc, wire, wanted, inbox, takeovers>>
    BY DEF GiveUp, peer
  <1>2. Types' /\ \A o \in Call : Fate(o)'
    BY <1>1 DEF IInv, Types, Early, Fate, Unanswered, Unsent, Travels, Truthful
  <1>3. Contract!Answer(c, "unknown")
    BY <1>1 DEF Contract!Answer
  <1> QED BY <1>2, <1>3 DEF IInv, Contract!Next

LEMMA Start == Init => IInv /\ Contract!Init
  BY DEF Init, IInv, Types, Early, Fate, Unanswered, Unsent, Travels, Truthful, Unknown, Wish, Process, Contract!Init

LEMMA Step == IInv /\ [Next]_vars => IInv' /\ [Contract!Next]_<<told, takeovers>>
  <1> SUFFICES ASSUME IInv, [Next]_vars PROVE IInv' /\ [Contract!Next]_<<told, takeovers>>
    OBVIOUS
  <1>1. CASE UNCHANGED vars
    BY <1>1 DEF vars, IInv, Types, Fate, Unanswered, Unsent, Travels, Truthful
  <1>2. CASE \/ Connect \/ Disconnect \/ HandleEvent \/ RefreshCompressor
             \/ AnswerRead \/ AnswerPartly \/ ChangeAtDevice
    BY <1>2, Quiet
  <1>3. ASSUME NEW c \in Call, Submit(c) PROVE IInv' /\ [Contract!Next]_<<told, takeovers>>
    BY <1>3, Enters DEF Submit, SetDHWSetpoint, SetDHWOperationMode, SetDHWBoost,
       SetRoomHeatingTemperature, SetRoomHeatingMode, ControlCompressorFlexibility
  <1>4. ASSUME NEW c \in Call, TakeOver(c) \/ Reject(c) \/ DeliverResult(c)
        PROVE  IInv' /\ [Contract!Next]_<<told, takeovers>>
    BY <1>4, DeviceSteps
  <1> QED BY <1>1, <1>2, <1>3, <1>4, HandlerSteps, GivesUp DEF Next

\* Every RPC keeps its contract (dhw.go, roomheatingtemp_upstream_write.go, ohpcf.go
\* and the adapters): applied means taken over, refused means never taken over, and
\* at most once, for any number of calls and any loss, delay or cancellation.
THEOREM DeviceWritesContract == Spec => ContractKept
  <1>1. Init => IInv /\ Contract!Init
    BY Start
  <1>2. IInv /\ [Next]_vars => IInv' /\ [Contract!Next]_Contract!vars
    BY Step DEF Contract!vars
  <1> QED BY <1>1, <1>2, PTL DEF Spec, ContractKept, Contract!Spec

-------------------------------------------------------------------------------
(* Reads.                                                                  *)

\* A device's row; it has no health only while it is removed.
DeviceRow ==
    [removed : BOOLEAN, listed : BOOLEAN, entities : SUBSET Entity,
     health : {"unknown", "connected", "disconnected"}, trusted : BOOLEAN,
     caps : [Capability -> Entry] \cup {NoEntries}, advertised : [Capability -> SUBSET UseCase]]

RowSound(w) == w \in DeviceRow /\ (w.health = "unknown" <=> w.removed)

JobField == {"call", "step", "domain", "todo", "sources", "target", "found", "got", "absent", "code",
             "agg", "payload", "leaves", "fields", "caps", "alone", "removal"}

\* Where a snapshot is: before it has recorded what the read of a domain told, before it
\* has told the domain's state, and before it is complete.
Reading == {"resolve", "missing", "read", "own", "record"}
Telling == Reading \cup {"state"}
Building == Telling \cup {"refresh", "capture"}

Unread(j) == j.todo \cup (IF j.step \in Reading THEN {j.domain} ELSE {})
Untold(j) == j.todo \cup (IF j.step \in Telling THEN {j.domain} ELSE {})

\* The domains still to read are other domains of those the snapshot reads.
OnTrack(j, reads) ==
    /\ j.code = "none"
    /\ j.step \in Telling \cup {"refresh"} => j.domain \in reads /\ j.todo \in SUBSET (reads \ {j.domain})
    /\ j.step = "refresh" => j.domain = "compressor"
    /\ j.step = "capture" => j.todo = {}
    /\ j.step \in {"resolve", "missing", "read"} /\ j.domain # "heating" => j.sources = SourcesOf(j.domain)
    /\ j.step = "own" => j.domain \notin Single
    /\ j.domain = "diagnostics" => j.step \notin {"resolve", "missing", "read"}
    /\ j.step \in Reading /\ j.domain = "measurements" => j.got \in SUBSET Leaf
    /\ j.step \in {"resolve", "missing"} /\ j.domain \in Single => j.found = {}
    /\ j.step = "read" /\ j.domain \in Single => j.found # {}

\* Nothing is served of a domain before it is read; once it is told, it is told available
\* if and only if some of it is served, and so is each measurement.
AccountedFor(agg, payload, leaves, unread, untold, reads) ==
    /\ DOMAIN agg = Built
    /\ \A d \in Built : d \in unread \/ d \notin reads => payload \cap PartsOf(d) = {}
    /\ \A d \in reads \ untold : agg[d] = "available" <=> payload \cap PartsOf(d) # {}
    /\ IF "measurements" \in reads \ unread
       THEN DOMAIN leaves = Leaf /\ \A x \in Leaf : leaves[x] = "available" <=> x \in payload
       ELSE leaves = NoStates
Accounted(j, reads) == AccountedFor(j.agg, j.payload, j.leaves, Unread(j), Untold(j), reads)

\* How the state of a domain and the entry of its capability agree.
Agree(state, entry) ==
    \/ state = "available" /\ entry \in {"available"} \cup Unsupported
    \/ state = "unsupported" /\ entry \in Unsupported
    \/ state = "temporarily_unavailable" /\ entry \in Unavailable

\* What is recorded of the domains read so far, as long as nothing crosses the snapshot.
Recording(j, w, reads) ==
    /\ j.step = "record" /\ j.domain \in Single /\ j.found = {}
           => w.caps # NoEntries /\ w.caps[CapabilityOf(j.domain)] \in Unsupported \cup Unavailable
    /\ j.step = "state" /\ j.domain \in Single
           => /\ w.caps # NoEntries
              /\ w.caps[CapabilityOf(j.domain)] \in
                     Unsupported \cup (IF j.domain \in j.payload THEN {"available"} ELSE Unavailable)
    /\ \A d \in (Single \cap reads) \ Untold(j) :
           w.caps # NoEntries /\ Agree(j.agg[d], w.caps[CapabilityOf(d)])

TruthfulFields(j) ==
    \A x \in Field :
        (j.fields[x] = "available")
            <=> (x \in j.payload \/ (x = "room_temperature" /\ "heating_temperature" \in j.payload))

AgreeingFields(j, reads) ==
    j.caps # NoEntries => \A d \in Single \cap reads : Agree(j.fields[d], j.caps[CapabilityOf(d)])

SnapshotSound(j, w, reads) ==
    /\ j.step \in Building \cup {"done"}
    /\ j.step \in Building => OnTrack(j, reads) /\ Accounted(j, reads)
    /\ j.step \in Building /\ j.alone /\ w.health = "connected" => Recording(j, w, reads)
    /\ j.code = "ok" => TruthfulFields(j)
    /\ j.code = "ok" /\ j.alone /\ w.health = "connected" => AgreeingFields(j, reads)

\* Between the two reads of a status, what the call knows of a removal is what the row says;
\* at its end a removal that stands has kept it from an answer.
StatusSound(j, w) ==
    /\ j.step \in {"membership", "done"}
    /\ j.removal \in {"none", "standing", "ended"}
    /\ j.removal = "none" => j.got # {"unknown"}
    /\ j.step = "membership" => j.code # "ok" /\ (j.removal = "standing" <=> w.removed)
    /\ j.step = "done" /\ j.code = "ok" => j.removal # "standing"

JobSound(j, w, reads) ==
    /\ DOMAIN j = JobField
    /\ j.call = "snapshot" => SnapshotSound(j, w, reads)
    /\ j.call = "status" => StatusSound(j, w)

ReadsInv ==
    /\ RowSound(row) /\ profile \in Profile
    /\ DOMAIN job = Reader /\ \A r \in Reader : JobSound(job[r], row, profile.reads)

LEMMA BuiltDomains ==
    /\ Built = {"measurements", "diagnostics", "limit", "failsafe", "heartbeat", "dhw",
                "dhw_system_function", "heating", "compressor"}
    /\ Len(BuildOrder) = 9 /\ \A i \in 1 .. 9 : BuildOrder[i] \in Built
<1>1. Len(BuildOrder) = 9
    BY DEF BuildOrder
<1>2. /\ BuildOrder[1] = "measurements" /\ BuildOrder[2] = "diagnostics" /\ BuildOrder[3] = "limit"
      /\ BuildOrder[4] = "failsafe" /\ BuildOrder[5] = "heartbeat" /\ BuildOrder[6] = "dhw"
      /\ BuildOrder[7] = "dhw_system_function" /\ BuildOrder[8] = "heating" /\ BuildOrder[9] = "compressor"
    BY DEF BuildOrder
<1>3. \A i \in 1 .. 9 : i \in {1, 2, 3, 4, 5, 6, 7, 8, 9}
    OBVIOUS
<1>4. Built = {BuildOrder[i] : i \in 1 .. 9}
    BY <1>1 DEF Built
<1>5. \A x : x \in Built <=> x \in {"measurements", "diagnostics", "limit", "failsafe", "heartbeat", "dhw",
                                     "dhw_system_function", "heating", "compressor"}
    <2>1. ASSUME NEW x \in Built
          PROVE  x \in {"measurements", "diagnostics", "limit", "failsafe", "heartbeat", "dhw",
                        "dhw_system_function", "heating", "compressor"}
        BY <1>2, <1>3, <1>4
    <2>2. \A i \in {1, 2, 3, 4, 5, 6, 7, 8, 9} : BuildOrder[i] \in Built
        BY <1>4
    <2>3. ASSUME NEW x \in {"measurements", "diagnostics", "limit", "failsafe", "heartbeat", "dhw",
                            "dhw_system_function", "heating", "compressor"}
          PROVE  x \in Built
        BY <1>2, <2>2
    <2> QED BY <2>1, <2>3
<1> QED BY <1>1, <1>4, <1>5

\* The first of some domains is one of them.
LEMMA FirstIn == ASSUME NEW S \in SUBSET Built, S # {} PROVE First(S) \in S
<1> DEFINE T == {i \in 1 .. 9 : BuildOrder[i] \in S}
<1>1. T \in SUBSET Nat /\ T # {}
    BY BuiltDomains DEF Built
<1>2. PICK n \in T : \A m \in T : n <= m
    BY <1>1, SmallestNatural
<1>3. \E i \in 1 .. Len(BuildOrder) : BuildOrder[i] \in S /\ \A k \in 1 .. i - 1 : BuildOrder[k] \notin S
    <2>1. \A k \in 1 .. n - 1 : k \in 1 .. 9 /\ ~(n <= k)
        BY <1>2
    <2> QED BY <1>2, <2>1, BuiltDomains
<1> HIDE DEF T
<1> QED BY <1>3 DEF First

\* The domains do not share the parts of a snapshot.
LEMMA PartsApart ==
    ASSUME NEW d \in Built, NEW e \in Built, d # e
    PROVE  PartsOf(d) \cap PartsOf(e) = {}
BY BuiltDomains DEF PartsOf, Leaf, HeatingPart

\* A domain read from one use case has a capability and a field of its own.
LEMMA SingleDomain ==
    ASSUME NEW d \in Single
    PROVE  /\ d \in Built \ {"measurements", "heating", "diagnostics", "compressor"}
           /\ SourcesOf(d) = <<d>> /\ FirstStep(d) = "resolve" /\ PartsOf(d) = {d}
           /\ d \in Field \ (Leaf \cup HeatingPart)
           /\ \A e \in Built \ {d} : CapabilityOf(e) # CapabilityOf(d)
<1>1. d \in Built \ {"measurements", "heating", "diagnostics", "compressor"}
    BY BuiltDomains DEF Single
<1>2. SourcesOf(d) = <<d>>
    BY DEF SourcesOf, Single
<1>3. <<d>> # <<>>
    OBVIOUS
<1>4. d \in Field \ (Leaf \cup HeatingPart)
    BY <1>1 DEF Field, Leaf, HeatingPart, Single
<1>5. \A e \in Built \ {d} : CapabilityOf(e) # CapabilityOf(d)
    BY BuiltDomains DEF CapabilityOf, Single
<1> QED BY <1>1, <1>2, <1>3, <1>4, <1>5 DEF FirstStep, PartsOf

LEMMA CapabilityOfDomain == \A d \in Domain : CapabilityOf(d) \in Capability
BY CapabilityAssumption DEF Domain, CapabilityOf

LEMMA ProfileReads == \A p \in Profile : p.reads # {} /\ p.reads \in SUBSET Built
BY ReadsAssumption

-----------------------------------------------------------------------------
(* Rows.                                                                   *)

USE DEF Unsupported, Unavailable

LEMMA EnsuredCaps ==
    ASSUME NEW w, RowSound(w)
    PROVE  /\ Ensured(w) \in [Capability -> Entry]
           /\ w.caps # NoEntries => Ensured(w) = w.caps
BY DEF Ensured, Fresh, Settled, RowSound, DeviceRow, Entry

\* A method keeps a row sound, and neither removes a device nor brings a removed one back.
RowKept(w, s) == RowSound(s) /\ (w.removed <=> s.removed)

LEMMA RowUnchanged == ASSUME NEW w, RowSound(w) PROVE RowKept(w, w)
BY DEF RowKept

LEMMA BlankRow == RowSound(MarkTrusted(Blank)) /\ RowSound(RemoveDevice(Blank))
BY DEF MarkTrusted, RemoveDevice, Blank, RowSound, DeviceRow

LEMMA RemovedRow == \A w : RowSound(RemoveDevice(w)) /\ RemoveDevice(w).removed
BY DEF RemoveDevice, Blank, RowSound, DeviceRow

LEMMA PairedRow == ASSUME NEW w, RowSound(w) PROVE RowSound(MarkTrusted(w)) /\ ~MarkTrusted(w).removed
BY DEF MarkTrusted, RowSound, DeviceRow

\* A row with other entries is sound.
LEMMA RowWithCaps ==
    ASSUME NEW w, RowSound(w), ~w.removed, NEW caps \in [Capability -> Entry],
           NEW health \in {"connected", "disconnected"}, NEW trusted \in BOOLEAN, NEW s,
           s = [w EXCEPT !.health = health, !.trusted = trusted, !.caps = caps]
    PROVE  RowKept(w, s)
BY DEF RowSound, DeviceRow, RowKept

LEMMA ServiceRow ==
    ASSUME NEW w, RowSound(w)
    PROVE  /\ RowKept(w, AddDevice(w)) /\ RowKept(w, MarkConnected(w))
           /\ RowKept(w, MarkDisconnected(w)) /\ RowKept(w, ClearEntities(w))
<1>1. RowKept(w, AddDevice(w))
    BY EnsuredCaps DEF AddDevice, RowSound, DeviceRow, RowKept
<1>2. RowKept(w, ClearEntities(w))
    BY DEF ClearEntities, RowSound, DeviceRow, RowKept
<1>3. RowKept(w, MarkConnected(w))
    <2> DEFINE caps == [c \in Capability |-> IF Ensured(w)[c] = "disconnected"
                                             THEN Settled(c, "unknown") ELSE Ensured(w)[c]]
    <2>1. caps \in [Capability -> Entry]
        BY EnsuredCaps DEF Settled, Entry
    <2>2. Connected(w) = [w EXCEPT !.health = "connected", !.trusted = TRUE, !.caps = caps]
        BY DEF Connected
    <2> HIDE DEF caps
    <2>3. ~w.removed => RowKept(w, Connected(w))
        BY <2>1, <2>2 DEF RowSound, DeviceRow, RowKept
    <2> QED BY <2>3, RowUnchanged DEF MarkConnected
<1>4. RowKept(w, MarkDisconnected(w))
    <2>1. Withdrawn(w) \in [Capability -> Entry]
        BY EnsuredCaps DEF Withdrawn, Settled, Entry
    <2>2. ~w.removed => RowKept(w, [w EXCEPT !.health = "disconnected", !.caps = Withdrawn(w)])
        BY <2>1 DEF RowSound, DeviceRow, RowKept
    <2> QED BY <2>2, RowUnchanged DEF MarkDisconnected
<1> QED BY <1>1, <1>2, <1>3, <1>4

LEMMA ObservationRow ==
    ASSUME NEW w, RowSound(w), NEW e \in Entity
    PROVE  RowKept(w, UpsertObservation(w, e)) /\ RowKept(w, RemoveEntityObservation(w, e))
BY EnsuredCaps DEF UpsertObservation, RemoveEntityObservation, RowSound, DeviceRow, RowKept

LEMMA RecordedIs ==
    ASSUME NEW w, RowSound(w), NEW c, NEW entry \in Entry
    PROVE  /\ Recorded(w, c, entry) \in Entry
           /\ w.health # "disconnected" => Recorded(w, c, entry) \in Unsupported \cup {entry}
           /\ Recorded(w, c, entry) \in Unsupported \cup {entry, "disconnected"}
BY EnsuredCaps DEF Recorded, Settled, Entry

\* An entry that is recorded is the only change to the row.
RowRecorded(w, s, c) ==
    /\ RowSound(s)
    /\ s.removed = w.removed /\ s.health = w.health
    /\ ~w.removed => s.caps # NoEntries
    /\ \A b \in Capability \ {c} : w.caps # NoEntries => s.caps # NoEntries /\ s.caps[b] = w.caps[b]

LEMMA WithEntryRow ==
    ASSUME NEW w, RowSound(w), ~w.removed, NEW c, NEW entry \in Entry
    PROVE  /\ RowRecorded(w, WithEntry(w, c, entry), c)
           /\ c \in Capability => WithEntry(w, c, entry).caps[c] = entry
<1> DEFINE caps == [Ensured(w) EXCEPT ![c] = entry]
<1>1. /\ caps \in [Capability -> Entry]
      /\ c \in Capability => caps[c] = entry
      /\ \A b \in Capability \ {c} : caps[b] = Ensured(w)[b]
    BY EnsuredCaps
<1>2. WithEntry(w, c, entry) = [w EXCEPT !.caps = caps]
    BY DEF WithEntry
<1> HIDE DEF caps
<1>3. caps # NoEntries
    BY <1>1, EntriesAssumption
<1>4. /\ RowSound(WithEntry(w, c, entry)) /\ WithEntry(w, c, entry).caps = caps
      /\ WithEntry(w, c, entry).removed = w.removed /\ WithEntry(w, c, entry).health = w.health
    BY <1>1, <1>2 DEF RowSound, DeviceRow
<1> QED BY <1>1, <1>3, <1>4, EnsuredCaps DEF RowRecorded

LEMMA ReadRow ==
    ASSUME NEW w, RowSound(w), NEW c, NEW ok \in BOOLEAN
    PROVE  /\ RowRecorded(w, RecordCapabilityRead(w, c, ok), c)
           /\ c \in Capability /\ w.health = "connected"
                => RecordCapabilityRead(w, c, ok).caps[c] \in
                       Unsupported \cup {IF ok THEN "available" ELSE "read_failed"}
<1>1. CASE w.removed
    BY <1>1 DEF RecordCapabilityRead, RowRecorded, RowSound
<1>2. CASE ~w.removed
    <2>1. PICK entry \in {"available", "read_failed"} : entry = IF ok THEN "available" ELSE "read_failed"
        OBVIOUS
    <2>2. entry \in Entry
        BY DEF Entry
    <2>3. Recorded(w, c, entry) \in Entry
        BY <2>2, RecordedIs
    <2>4. RecordCapabilityRead(w, c, ok) = WithEntry(w, c, Recorded(w, c, entry))
        BY <1>2, <2>1 DEF RecordCapabilityRead
    <2>5. w.health = "connected" => Recorded(w, c, entry) \in Unsupported \cup {entry}
        BY <2>2, RecordedIs
    <2> QED BY <1>2, <2>1, <2>3, <2>4, <2>5, WithEntryRow
<1> QED BY <1>1, <1>2

LEMMA MissingRow ==
    ASSUME NEW w, RowSound(w), NEW c, NEW found
    PROVE  /\ RowRecorded(w, RecordCapabilityMissingEntity(w, c, found), c)
           /\ c \in Capability /\ ~w.removed => RecordCapabilityMissingEntity(w, c, found).caps[c] \in Unsupported \cup Unavailable
<1>1. CASE w.removed
    BY <1>1 DEF RecordCapabilityMissingEntity, RowRecorded, RowSound
<1>2. CASE ~w.removed
    <2>1. PICK entry \in {"not_advertised", "not_bound"} :
              entry = IF found = "bound" THEN "not_advertised" ELSE "not_bound"
        OBVIOUS
    <2>2. entry \in Entry
        BY DEF Entry
    <2>3. Recorded(w, c, entry) \in Entry /\ Recorded(w, c, entry) \in Unsupported \cup Unavailable
        BY <2>2, RecordedIs
    <2>4. RecordCapabilityMissingEntity(w, c, found) = WithEntry(w, c, Recorded(w, c, entry))
        BY <1>2, <2>1 DEF RecordCapabilityMissingEntity
    <2> QED BY <1>2, <2>3, <2>4, WithEntryRow
<1> QED BY <1>1, <1>2

LEMMA SupportRow ==
    ASSUME NEW w, RowSound(w), NEW c \in Capability, NEW u \in UseCase, NEW supported \in BOOLEAN
    PROVE  RowKept(w, RecordCapabilitySourceSupport(w, c, u, supported))
<1>1. CASE w.removed
    BY <1>1, RowUnchanged DEF RecordCapabilitySourceSupport
<1>2. CASE ~w.removed
    <2> DEFINE sources == IF supported THEN w.advertised[c] \cup {u} ELSE w.advertised[c] \ {u}
               entry == IF w.health = "disconnected" THEN Recorded(w, c, "disconnected")
                        ELSE Settled(c, IF sources # {} THEN "unknown" ELSE "not_advertised")
    <2>1. sources \in SUBSET UseCase
        BY DEF RowSound, DeviceRow
    <2>2. entry \in Entry
        <3>1. "disconnected" \in Entry
            BY DEF Entry
        <3> QED BY <3>1, RecordedIs DEF Settled, Entry
    <2>3. RecordCapabilitySourceSupport(w, c, u, supported)
              = [WithEntry(w, c, entry) EXCEPT !.advertised[c] = sources]
        BY <1>2 DEF RecordCapabilitySourceSupport
    <2> HIDE DEF sources, entry
    <2>4. RowSound(WithEntry(w, c, entry)) /\ WithEntry(w, c, entry).removed = w.removed
        BY <1>2, <2>2, WithEntryRow DEF RowRecorded
    <2> QED BY <1>2, <2>1, <2>3, <2>4 DEF RowKept, RowSound, DeviceRow
<1> QED BY <1>1, <1>2

-----------------------------------------------------------------------------
(* Calls that others cross, and the steps of a read.                       *)

\* A snapshot that is crossed stays sound whatever becomes of the row.
LEMMA CrossedSnapshot ==
    ASSUME NEW j, NEW w, NEW s, NEW reads, JobSound(j, w, reads), j.call = "snapshot"
    PROVE  JobSound(Crossed(j), s, reads)
<1> DEFINE k == Crossed(j)
<1>1. /\ DOMAIN k = JobField /\ ~k.alone
      /\ k.call = j.call /\ k.step = j.step /\ k.domain = j.domain /\ k.todo = j.todo
      /\ k.sources = j.sources /\ k.found = j.found /\ k.got = j.got /\ k.code = j.code
      /\ k.agg = j.agg /\ k.payload = j.payload /\ k.leaves = j.leaves /\ k.fields = j.fields
      /\ k.removal = j.removal
    BY DEF Crossed, JobSound, JobField
<1> HIDE DEF k
<1>2. OnTrack(j, reads) => OnTrack(k, reads)
    BY <1>1 DEF OnTrack
<1>3. Unread(k) = Unread(j) /\ Untold(k) = Untold(j)
    BY <1>1 DEF Unread, Untold
<1>4. Accounted(j, reads) => Accounted(k, reads)
    BY <1>1, <1>3 DEF Accounted
<1>5. TruthfulFields(j) => TruthfulFields(k)
    BY <1>1 DEF TruthfulFields
<1>6. SnapshotSound(k, s, reads)
    BY <1>1, <1>2, <1>4, <1>5 DEF SnapshotSound, JobSound
<1> QED BY <1>1, <1>6 DEF JobSound, k

\* Any call that is crossed stays sound if the row is kept.
LEMMA CrossedSound ==
    ASSUME NEW j, NEW w, NEW s, NEW reads, JobSound(j, w, reads), RowKept(w, s)
    PROVE  JobSound(Crossed(j), s, reads)
<1> PICK k : k = Crossed(j)
    OBVIOUS
<1>1. /\ DOMAIN k = JobField /\ k.call = j.call /\ k.step = j.step /\ k.got = j.got
      /\ k.code = j.code /\ k.removal = j.removal
    BY DEF Crossed, JobSound, JobField
<1>2. j.call = "status" => StatusSound(k, s)
    BY <1>1 DEF StatusSound, JobSound, RowKept
<1>3. CASE j.call = "snapshot"
    BY <1>3, CrossedSnapshot
<1>4. CASE j.call # "snapshot"
    BY <1>1, <1>2, <1>4 DEF JobSound
<1> QED BY <1>3, <1>4

\* A step of the device.
LEMMA DisturbSound ==
    ASSUME ReadsInv, Disturb, RowKept(row, row'), UNCHANGED profile
    PROVE  ReadsInv'
<1>1. DOMAIN job' = Reader /\ \A r \in Reader : job'[r] = Crossed(job[r])
    BY DEF Disturb
<1>2. \A r \in Reader : JobSound(Crossed(job[r]), row', profile.reads)
    BY CrossedSound DEF ReadsInv
<1> QED BY <1>1, <1>2 DEF ReadsInv, RowKept

\* A step of a call.
LEMMA BecomeSound ==
    ASSUME ReadsInv, NEW r \in Reader, NEW k, Become(r, k), RowKept(row, row'), UNCHANGED profile,
           JobSound(k, row', profile.reads)
    PROVE  ReadsInv'
<1>1. DOMAIN job' = Reader /\ \A q \in Reader : job'[q] = IF q = r THEN k ELSE Crossed(job[q])
    BY DEF Become
<1>2. \A q \in Reader : JobSound(Crossed(job[q]), row', profile.reads)
    BY CrossedSound DEF ReadsInv
<1> QED BY <1>1, <1>2 DEF ReadsInv, RowKept

\* What is done to the row by recording an entry.
LEMMA RecordedKept ==
    ASSUME NEW w, NEW s, NEW c, RowRecorded(w, s, c) PROVE RowKept(w, s)
BY DEF RowRecorded, RowKept

\* A call that is neither a snapshot nor about the status.
LEMMA OtherCall ==
    ASSUME NEW k, NEW w, NEW reads, DOMAIN k = JobField, k.call \notin {"snapshot", "status"}
    PROVE  JobSound(k, w, reads)
BY DEF JobSound

LEMMA IdleShape == DOMAIN Idle = JobField /\ Idle.call = "none"
BY DEF Idle, JobField

LEMMA IdleSound == \A w, reads : JobSound(Idle, w, reads)
BY IdleShape, OtherCall

LEMMA EnteredIs ==
    ASSUME NEW j, DOMAIN j = JobField, NEW d, NEW todo
    PROVE  LET k == Entered(j, d, todo)
           IN  /\ DOMAIN k = JobField
               /\ k.domain = d /\ k.todo = todo /\ k.sources = SourcesOf(d) /\ k.step = FirstStep(d)
               /\ k.found = {} /\ k.got = {} /\ k.call = j.call /\ k.code = j.code /\ k.agg = j.agg
               /\ k.payload = j.payload /\ k.leaves = j.leaves /\ k.fields = j.fields
               /\ k.caps = j.caps /\ k.alone = j.alone
BY DEF Entered, JobField

LEMMA AfterSourceIs ==
    ASSUME NEW j, DOMAIN j = JobField
    PROVE  LET k == AfterSource(j)
           IN  /\ DOMAIN k = JobField
               /\ k.step = IF Tail(j.sources) # <<>> THEN "resolve"
                           ELSE IF j.domain = "measurements" THEN "own" ELSE "record"
               /\ k.domain = j.domain /\ k.todo = j.todo /\ k.sources = Tail(j.sources)
               /\ k.found = j.found /\ k.got = j.got /\ k.call = j.call /\ k.code = j.code /\ k.agg = j.agg
               /\ k.payload = j.payload /\ k.leaves = j.leaves /\ k.fields = j.fields
               /\ k.caps = j.caps /\ k.alone = j.alone
BY DEF AfterSource, JobField

\* A domain other than room heating is read from one use case at most.
LEMMA SourceAlone ==
    ASSUME NEW d \in Built, d # "heating", d # "diagnostics"
    PROVE  Tail(SourcesOf(d)) = <<>>
<1>1. \E u : SourcesOf(d) = <<u>>
    BY BuiltDomains DEF SourcesOf
<1>2. \A u : Tail(<<u>>) = <<>>
    OBVIOUS
<1> QED BY <1>1, <1>2

LEMMA FirstStepIs ==
    ASSUME NEW d \in Built
    PROVE  /\ FirstStep(d) \in {"resolve", "own"}
           /\ FirstStep(d) = "own" => d \notin Single
           /\ d = "diagnostics" => FirstStep(d) = "own"
BY SingleDomain DEF FirstStep, SourcesOf

\* The entries of domains other than e are the same in two rows.
OthersKept(w, s, e) ==
    /\ s.health = w.health
    /\ \A d \in Single \ {e} : w.caps # NoEntries =>
           s.caps # NoEntries /\ s.caps[CapabilityOf(d)] = w.caps[CapabilityOf(d)]

LEMMA RecordedOthers ==
    ASSUME NEW w, NEW s, NEW e \in Built, RowRecorded(w, s, CapabilityOf(e))
    PROVE  OthersKept(w, s, e)
<1>1. \A d \in Single \ {e} : CapabilityOf(d) \in Capability \ {CapabilityOf(e)}
    BY SingleDomain, CapabilityOfDomain DEF Domain, Single
<1> QED BY <1>1 DEF OthersKept, RowRecorded

\* What a job keeps through the read of a domain.
Carried(j, k) ==
    /\ DOMAIN k = JobField
    /\ k.call = j.call /\ k.domain = j.domain /\ k.todo = j.todo /\ k.code = j.code /\ k.agg = j.agg
    /\ k.payload = j.payload /\ k.leaves = j.leaves /\ k.alone = j.alone

\* A domain of one use case without an entity has been recorded so.
FoundMissing(k, s) ==
    k.alone /\ s.health = "connected" /\ k.step = "record" /\ k.domain \in Single /\ k.found = {}
        => s.caps # NoEntries /\ s.caps[CapabilityOf(k.domain)] \in Unsupported \cup Unavailable

\* A step of a snapshot within the read of a domain.
LEMMA ReadOn ==
    ASSUME NEW j, NEW k, NEW w, NEW s, NEW reads \in SUBSET Built,
           JobSound(j, w, reads), j.call = "snapshot", j.step \in Reading,
           OthersKept(w, s, j.domain), Carried(j, k), k.step \in Reading, OnTrack(k, reads), FoundMissing(k, s)
    PROVE  JobSound(k, s, reads)
<1>1. OnTrack(j, reads) /\ Accounted(j, reads)
    BY DEF JobSound, SnapshotSound, Building, Telling
<1>2. Unread(k) = Unread(j) /\ Untold(k) = Untold(j) /\ j.domain \in Untold(j)
    BY DEF Unread, Untold, Telling, Carried
<1>3. Accounted(k, reads)
    BY <1>1, <1>2 DEF Accounted, Carried
<1>4. ASSUME k.alone, s.health = "connected" PROVE Recording(k, s, reads)
    <2>1. Recording(j, w, reads)
        BY <1>4 DEF JobSound, SnapshotSound, Building, Telling, OthersKept, Carried
    <2>2. \A d \in (Single \cap reads) \ Untold(k) : s.caps # NoEntries /\ Agree(k.agg[d], s.caps[CapabilityOf(d)])
        BY <2>1, <1>2 DEF Recording, OthersKept, Carried
    <2>3. k.step # "state"
        BY DEF Reading
    <2> QED BY <1>4, <2>2, <2>3 DEF Recording, FoundMissing
<1>5. k.code # "ok" /\ k.step \in Building
    BY DEF OnTrack, Building, Telling
<1> QED BY <1>3, <1>4, <1>5 DEF JobSound, SnapshotSound, Carried

\* What holds of a job that resolves, reads, records or tells.
LEMMA JobFacts ==
    ASSUME ReadsInv, NEW r \in Reader
    PROVE  /\ JobSound(job[r], row, profile.reads) /\ RowSound(row)
           /\ profile.reads \in SUBSET Built /\ profile.reads # {}
           /\ DOMAIN job[r] = JobField
           /\ job[r].step \in Telling \cup {"refresh", "capture"} => job[r].call # "status"
           /\ job[r].call = "snapshot" /\ job[r].step \in Building
                => OnTrack(job[r], profile.reads) /\ Accounted(job[r], profile.reads)
           /\ job[r].call = "snapshot" /\ job[r].step \in Telling => job[r].domain \in profile.reads
<1>1. JobSound(job[r], row, profile.reads)
    BY DEF ReadsInv
<1>2. profile.reads \in SUBSET Built /\ profile.reads # {}
    BY ProfileReads DEF ReadsInv
<1> QED BY <1>1, <1>2 DEF ReadsInv, JobSound, SnapshotSound, StatusSound, OnTrack, Building, Telling, Reading

LEMMA SameRow == \A w, e : OthersKept(w, w, e)
BY DEF OthersKept

LEMMA ResolveKeeps == ASSUME ReadsInv, NEW r \in Reader, Resolve(r) PROVE ReadsInv'
<1> PICK j, w, reads, u : j = job[r] /\ w = row /\ reads = profile.reads /\ u = Head(j.sources)
    OBVIOUS
<1> PICK k : k = IF Resolved(u) THEN [j EXCEPT !.found = @ \cup {u}, !.step = "read"]
                 ELSE [j EXCEPT !.step = "missing"]
    OBVIOUS
<1>1. j.step = "resolve" /\ Become(r, k) /\ row' = w /\ UNCHANGED profile
    BY DEF Resolve, stack
<1>2. JobSound(j, w, reads) /\ RowSound(w) /\ reads \in SUBSET Built /\ DOMAIN j = JobField
    BY JobFacts
<1>3. /\ Carried(j, k) /\ k.step \in {"read", "missing"}
      /\ k.sources = j.sources /\ k.got = j.got
      /\ k.step = "read" => k.found # {}
      /\ k.step = "missing" => k.found = j.found
    BY <1>2 DEF JobField, Carried
<1>4. JobSound(k, w, reads)
    <2>1. CASE j.call = "snapshot"
        <3>1. OnTrack(j, reads)
            BY <1>1, <2>1, JobFacts DEF Building, Telling, Reading
        <3>2. OnTrack(k, reads)
            BY <1>1, <1>3, <3>1 DEF OnTrack, Carried, Telling, Reading
        <3>3. k.step \in Reading /\ j.step \in Reading /\ FoundMissing(k, w)
            BY <1>1, <1>3 DEF Reading, FoundMissing
        <3> QED BY <1>2, <1>3, <2>1, <3>2, <3>3, ReadOn, SameRow
    <2>2. CASE j.call # "snapshot"
        BY <1>1, <1>3, <2>2, JobFacts, OtherCall DEF Carried, Telling, Reading
    <2> QED BY <2>1, <2>2
<1> QED BY <1>1, <1>2, <1>4, BecomeSound, RowUnchanged

\* A step within the read of a domain, for any call.
LEMMA ReadingKeeps ==
    ASSUME ReadsInv, NEW r \in Reader, NEW k, Become(r, k), UNCHANGED profile, RowKept(row, row'),
           job[r].step \in Reading, Carried(job[r], k),
           job[r].call = "snapshot" =>
               /\ k.step \in Reading /\ OnTrack(k, profile.reads) /\ FoundMissing(k, row')
               /\ OthersKept(row, row', job[r].domain)
    PROVE  ReadsInv'
<1> PICK j, w, s, reads : j = job[r] /\ w = row /\ s = row' /\ reads = profile.reads
    OBVIOUS
<1>1. JobSound(j, w, reads) /\ reads \in SUBSET Built /\ (j.step \in Telling => j.call # "status")
    BY JobFacts
<1>2. JobSound(k, s, reads)
    <2>1. CASE j.call = "snapshot"
        BY <1>1, <2>1, ReadOn
    <2>2. CASE j.call # "snapshot"
        BY <1>1, <2>2, OtherCall DEF Carried, Telling
    <2> QED BY <2>1, <2>2
<1> QED BY <1>2, BecomeSound

LEMMA MissingKeeps == ASSUME ReadsInv, NEW r \in Reader, Missing(r) PROVE ReadsInv'
<1> PICK j, w, s, c, k, reads :
        /\ j = job[r] /\ w = row /\ s = row' /\ c = CapabilityOf(j.domain) /\ k = AfterSource(j)
        /\ reads = profile.reads
    OBVIOUS
<1>1. /\ j.step = "missing" /\ Become(r, k) /\ UNCHANGED profile
      /\ s = RecordCapabilityMissingEntity(w, c, Bound)
    BY DEF Missing, MissingEntity, stack
<1>2. RowSound(w) /\ DOMAIN j = JobField /\ reads \in SUBSET Built
    BY JobFacts
<1>3. RowRecorded(w, s, c) /\ (c \in Capability /\ ~w.removed => s.caps[c] \in Unsupported \cup Unavailable)
    BY <1>1, <1>2, MissingRow
<1>4. /\ k.step = IF Tail(j.sources) # <<>> THEN "resolve" ELSE IF j.domain = "measurements" THEN "own" ELSE "record"
      /\ Carried(j, k) /\ k.found = j.found /\ k.got = j.got /\ k.domain = j.domain
    BY <1>2, AfterSourceIs DEF Carried
<1>5. ASSUME j.call = "snapshot"
      PROVE  k.step \in Reading /\ OnTrack(k, reads) /\ FoundMissing(k, s) /\ OthersKept(w, s, j.domain)
    <2>1. OnTrack(j, reads) /\ j.domain \in reads
        BY <1>1, <1>5, JobFacts DEF Building, Telling, Reading
    <2>2. j.domain # "heating" => j.sources = SourcesOf(j.domain)
        BY <1>1, <2>1 DEF OnTrack
    <2>3. j.domain # "heating" => k.step \in {"own", "record"}
        <3>1. j.domain # "heating" => Tail(j.sources) = <<>>
            BY <1>1, <1>2, <2>1, <2>2, SourceAlone DEF OnTrack
        <3> QED BY <1>4, <3>1
    <2>4. k.step = "own" => j.domain = "measurements"
        BY <1>4
    <2>5. OnTrack(k, reads) /\ k.step \in Reading
        BY <1>1, <1>4, <2>1, <2>3, <2>4 DEF OnTrack, Carried, Single, Telling, Reading
    <2>6. OthersKept(w, s, j.domain)
        BY <1>2, <1>3, <2>1, RecordedOthers
    <2>7. FoundMissing(k, s)
        <3>1. j.domain \in Single => c \in Capability
            BY CapabilityOfDomain DEF Single, Domain
        <3>2. s.health = "connected" => ~w.removed
            BY <1>2, <1>3 DEF RowRecorded, RowSound
        <3> QED BY <1>3, <1>4, <3>1, <3>2 DEF FoundMissing, RowRecorded
    <2> QED BY <2>5, <2>6, <2>7
<1> QED BY <1>1, <1>3, <1>4, <1>5, RecordedKept, ReadingKeeps DEF Reading

\* What the bridge reads of a domain that measures is measurements.
LEMMA ReadLeaves ==
    ASSUME RowSound(row)
    PROVE  ReadOf("monitoring") \in SUBSET Leaf /\ OwnRead("measurements") \in SUBSET Leaf
<1>1. ReadOf("monitoring") \in SUBSET Leaf
    <2>1. DataOf["monitoring"] = {"power", "phases"}
        BY DEF DataOf, UseCase
    <2>2. ReadOf("monitoring") = Values(copy, DataOf["monitoring"])
        BY DEF ReadOf, LPCScenario
    <2> QED BY <2>1, <2>2 DEF Values, Leaf
<1>2. \A e \in Entity : MeasurementsForEntity(e, copy) \in SUBSET Leaf
    BY DEF MeasurementsForEntity, GenericData, ClassifyGeneric, Values, Entity, Leaf
<1>3. GenericMeasurements(row.entities, copy) \in SUBSET Leaf
    BY <1>2 DEF GenericMeasurements, RowSound, DeviceRow
<1> QED BY <1>1, <1>3 DEF OwnRead, Leaf

LEMMA ReadKeeps == ASSUME ReadsInv, NEW r \in Reader, Read(r) PROVE ReadsInv'
<1> PICK j, w, reads, u : j = job[r] /\ w = row /\ reads = profile.reads /\ u = Head(j.sources)
    OBVIOUS
<1>6. PICK m : m = [j EXCEPT !.got = @ \cup ReadOf(u), !.absent = {x \in DataOf[u] : copy[x] = "absent"}]
    OBVIOUS
<1>7. PICK k : k = AfterSource(m)
    OBVIOUS
<1>1. j.step = "read" /\ Become(r, k) /\ row' = row /\ UNCHANGED profile
    BY <1>6, <1>7 DEF Read, stack
<1>2. RowSound(row) /\ DOMAIN j = JobField /\ reads \in SUBSET Built
    BY JobFacts
<1>3. Carried(j, m) /\ m.found = j.found /\ m.got = j.got \cup ReadOf(u) /\ m.sources = j.sources
    BY <1>2, <1>6 DEF Carried, JobField
<1>4. /\ k.step = IF Tail(j.sources) # <<>> THEN "resolve" ELSE IF j.domain = "measurements" THEN "own" ELSE "record"
      /\ Carried(j, k) /\ k.found = j.found /\ k.got = j.got \cup ReadOf(u) /\ k.domain = j.domain
    <2>1. /\ k.step = IF Tail(m.sources) # <<>> THEN "resolve"
                      ELSE IF m.domain = "measurements" THEN "own" ELSE "record"
          /\ Carried(m, k) /\ k.found = m.found /\ k.got = m.got
        BY <1>3, <1>7, AfterSourceIs DEF Carried
    <2>2. Carried(j, k)
        BY <1>3, <2>1 DEF Carried
    <2> QED BY <1>3, <2>1, <2>2 DEF Carried
<1>5. ASSUME j.call = "snapshot"
      PROVE  k.step \in Reading /\ OnTrack(k, reads) /\ FoundMissing(k, row') /\ OthersKept(row, row', j.domain)
    <2>1. OnTrack(j, reads) /\ j.domain \in reads
        BY <1>1, <1>5, JobFacts DEF Building, Telling, Reading
    <2>2. j.domain # "heating" => j.sources = SourcesOf(j.domain)
        BY <1>1, <2>1 DEF OnTrack
    <2>3. j.domain # "heating" => k.step \in {"own", "record"}
        <3>1. j.domain # "heating" => Tail(j.sources) = <<>>
            BY <1>1, <1>2, <2>1, <2>2, SourceAlone DEF OnTrack
        <3> QED BY <1>4, <3>1
    <2>4. j.domain = "measurements" => k.got \in SUBSET Leaf
        <3>1. j.domain = "measurements" => u = "monitoring"
            BY <2>2 DEF SourcesOf
        <3>2. j.domain = "measurements" => j.got \in SUBSET Leaf
            BY <1>1, <2>1 DEF OnTrack, Reading
        <3> QED BY <1>2, <1>4, <3>1, <3>2, ReadLeaves
    <2>5. k.step = "own" => j.domain = "measurements"
        BY <1>4
    <2>6. OnTrack(k, reads) /\ k.step \in Reading
        BY <1>1, <1>4, <2>1, <2>3, <2>4, <2>5 DEF OnTrack, Carried, Single, Telling, Reading
    <2>7. FoundMissing(k, row')
        BY <1>1, <1>4, <2>1 DEF FoundMissing, OnTrack
    <2> QED BY <1>1, <2>6, <2>7, SameRow
<1> QED BY <1>1, <1>2, <1>4, <1>5, RowUnchanged, ReadingKeeps DEF Reading

LEMMA ReadOwnKeeps == ASSUME ReadsInv, NEW r \in Reader, ReadOwn(r) PROVE ReadsInv'
<1> PICK j, reads, absent : /\ j = job[r] /\ reads = profile.reads
        /\ absent = IF j.domain = "measurements" /\ GenericMeasurements(row.entities, copy) # {}
                    THEN j.absent \cup ({"compressor_power"} \ GenericMeasurements(row.entities, copy))
                    ELSE j.absent
    OBVIOUS
<1> PICK k : k = [j EXCEPT !.got = @ \cup OwnRead(j.domain), !.absent = absent,
                           !.step = IF j.domain = "heating" THEN "resolve" ELSE "record"]
    OBVIOUS
<1>1. j.step = "own" /\ row' = row /\ UNCHANGED profile
    BY DEF ReadOwn, stack
<1>2. RowSound(row) /\ DOMAIN j = JobField /\ reads \in SUBSET Built
    BY JobFacts
<1>3. Become(r, k)
    BY <1>2 DEF ReadOwn, JobField
<1>4. /\ Carried(j, k) /\ k.found = j.found /\ k.got = j.got \cup OwnRead(j.domain)
      /\ k.step = IF j.domain = "heating" THEN "resolve" ELSE "record"
    BY <1>2 DEF Carried, JobField
<1>5. ASSUME j.call = "snapshot"
      PROVE  k.step \in Reading /\ OnTrack(k, reads) /\ FoundMissing(k, row') /\ OthersKept(row, row', j.domain)
    <2>1. OnTrack(j, reads) /\ j.domain \in reads /\ j.domain \notin Single
        BY <1>1, <1>5, JobFacts DEF Building, Telling, Reading, OnTrack
    <2>2. j.domain = "measurements" => k.got \in SUBSET Leaf
        BY <1>1, <1>2, <1>4, <2>1, ReadLeaves DEF OnTrack, Reading
    <2>3. OnTrack(k, reads) /\ k.step \in Reading
        BY <1>1, <1>4, <2>1, <2>2 DEF OnTrack, Carried, Single, Telling, Reading
    <2>4. FoundMissing(k, row')
        BY <1>4, <2>1 DEF FoundMissing, Carried
    <2> QED BY <1>1, <2>3, <2>4, SameRow
<1> QED BY <1>1, <1>2, <1>3, <1>4, <1>5, RowUnchanged, ReadingKeeps DEF Reading

-----------------------------------------------------------------------------
(* What a snapshot records, tells and captures.                            *)

\* What the read of a domain serves is the domain's own.
LEMMA ConclusionIs ==
    ASSUME NEW j, j.call = "snapshot", j.domain \in Built,
           j.domain = "measurements" => j.got \in SUBSET Leaf
    PROVE  /\ Conclusion(j).parts \in SUBSET PartsOf(j.domain)
           /\ j.domain = "measurements" => Conclusion(j).parts = j.got
           /\ j.domain \in Single =>
                \/ Conclusion(j).record = "none" /\ Conclusion(j).parts = {} /\ j.found = {}
                \/ Conclusion(j).record = "failed" /\ Conclusion(j).parts = {}
                \/ Conclusion(j).record = "ok" /\ Conclusion(j).parts = {j.domain}
<1> USE DEF Concluded, NotFound, Failed, Served
<1>1. CASE j.domain = "measurements"
    BY <1>1 DEF Conclusion, SnapshotMeasurements, PartsOf, Single
<1>2. CASE j.domain = "diagnostics"
    BY <1>2 DEF Conclusion, SnapshotDeviceDiagnostics, PartsOf, Single
<1>3. CASE j.domain = "limit"
    BY <1>3 DEF Conclusion, GetConsumptionLimit, ReadWhole, PartsOf
<1>4. CASE j.domain = "failsafe"
    BY <1>4 DEF Conclusion, GetFailsafeLimit, ReadWhole, PartsOf
<1>5. CASE j.domain = "heartbeat"
    BY <1>5 DEF Conclusion, SnapshotHeartbeat, PartsOf
<1>6. CASE j.domain = "dhw"
    BY <1>6 DEF Conclusion, GetDHWSetpoint, ReadWhole, PartsOf
<1>7. CASE j.domain = "dhw_system_function"
    BY <1>7 DEF Conclusion, GetDHWSystemFunction, ReadWhole, PartsOf
<1>8. CASE j.domain = "heating"
    <2>1. Conclusion(j) = SnapshotRoomHeating(j)
        BY <1>8 DEF Conclusion
    <2>2. SnapshotRoomHeating(j).parts \in SUBSET PartsOf("heating")
        BY DEF SnapshotRoomHeating, PartsOf, HeatingPart
    <2> QED BY <1>8, <2>1, <2>2 DEF Single
<1>9. CASE j.domain = "compressor"
    <2>1. Conclusion(j) = AttachOHPCFPayload(j)
        BY <1>9 DEF Conclusion
    <2>2. AttachOHPCFPayload(j).parts \in SUBSET PartsOf("compressor")
        BY DEF AttachOHPCFPayload, PartsOf
    <2> QED BY <1>9, <2>1, <2>2 DEF Single
<1> QED BY BuiltDomains, <1>1, <1>2, <1>3, <1>4, <1>5, <1>6, <1>7, <1>8, <1>9

\* The row after a record of the domain, for any call.
LEMMA RecordRow ==
    ASSUME ReadsInv, NEW r \in Reader, Record(r)
    PROVE  /\ RowKept(row, row')
           /\ job[r].call = "snapshot" /\ job[r].domain \in Built => OthersKept(row, row', job[r].domain)
           /\ job[r].domain \in Single /\ row.health = "connected" /\ Conclusion(job[r]).record \in {"ok", "failed"}
                => /\ row'.caps # NoEntries
                   /\ row'.caps[CapabilityOf(job[r].domain)] \in
                          Unsupported \cup {IF Conclusion(job[r]).record = "ok" THEN "available" ELSE "read_failed"}
           /\ Conclusion(job[r]).record = "none" => row' = row
<1> PICK d, c, record : d = job[r].domain /\ c = CapabilityOf(d) /\ record = Conclusion(job[r]).record
    OBVIOUS
<1>1. RowSound(row)
    BY JobFacts
<1>2. row' = CASE record = "none" -> row
               [] record = "missing" -> RecordCapabilityMissingEntity(row, c, Bound)
               [] OTHER -> RecordCapabilityRead(row, c, record = "ok")
    BY DEF Record, MissingEntity
<1>3. CASE record = "none"
    BY <1>1, <1>2, <1>3, RowUnchanged, SameRow
<1>4. CASE record = "missing"
    <2>1. RowRecorded(row, row', c)
        BY <1>1, <1>2, <1>4, MissingRow
    <2> QED BY <1>4, <2>1, RecordedKept, RecordedOthers
<1>5. CASE record \notin {"none", "missing"}
    <2>1. /\ RowRecorded(row, row', c)
          /\ c \in Capability /\ row.health = "connected"
               => row'.caps[c] \in Unsupported \cup {IF record = "ok" THEN "available" ELSE "read_failed"}
        BY <1>1, <1>2, <1>5, ReadRow
    <2>2. d \in Single => c \in Capability
        BY CapabilityOfDomain DEF Single, Domain
    <2>3. row.health = "connected" => ~row.removed
        BY <1>1 DEF RowSound
    <2> QED BY <1>5, <2>1, <2>2, <2>3, RecordedKept, RecordedOthers DEF RowRecorded
<1> QED BY <1>3, <1>4, <1>5

LEMMA RecordKeeps == ASSUME ReadsInv, NEW r \in Reader, Record(r) PROVE ReadsInv'
<1> PICK j, d, w, s, c, reads :
        /\ j = job[r] /\ d = j.domain /\ w = row /\ s = row' /\ c = Conclusion(j) /\ reads = profile.reads
    OBVIOUS
<1>1. j.step = "record" /\ UNCHANGED profile
    BY DEF Record, stack
<1>2. RowSound(w) /\ DOMAIN j = JobField /\ reads \in SUBSET Built /\ JobSound(j, w, reads)
    BY JobFacts
<1>3. RowKept(w, s)
    BY RecordRow
<1>4. CASE j.call # "snapshot"
    <2>1. PICK k : k = [j EXCEPT !.payload = c.parts, !.code = c.code, !.step = "done"]
        OBVIOUS
    <2>2. Become(r, k)
        BY <1>4, <2>1 DEF Record
    <2>3. DOMAIN k = JobField /\ k.call = j.call
        BY <1>2, <2>1 DEF JobField
    <2>4. JobSound(k, s, reads)
        BY <1>1, <1>4, <2>3, JobFacts, OtherCall DEF Telling, Reading
    <2> QED BY <1>1, <1>3, <2>2, <2>4, BecomeSound
<1>5. CASE j.call = "snapshot"
    <2>1. PICK leaves : leaves = IF d = "measurements" THEN MeasurementStates(j) ELSE j.leaves
        OBVIOUS
    <2>2. PICK k : k = [j EXCEPT !.payload = @ \cup c.parts, !.step = "state", !.leaves = leaves]
        OBVIOUS
    <2>3. Become(r, k)
        BY <1>2, <1>5, <2>1, <2>2 DEF Record, JobField
    <2>4. /\ DOMAIN k = JobField /\ k.call = j.call /\ k.step = "state" /\ k.domain = d /\ k.todo = j.todo
          /\ k.code = j.code /\ k.agg = j.agg /\ k.payload = j.payload \cup c.parts /\ k.leaves = leaves
          /\ k.alone = j.alone
        BY <1>2, <2>2 DEF JobField
    <2>5. OnTrack(j, reads) /\ Accounted(j, reads) /\ d \in reads /\ d \in Built
        BY <1>1, <1>2, <1>5, JobFacts DEF Building, Telling, Reading
    <2>6. /\ Unread(k) = j.todo /\ Untold(k) = j.todo \cup {d}
          /\ Unread(j) = j.todo \cup {d} /\ Untold(j) = j.todo \cup {d} /\ d \notin j.todo
        BY <1>1, <2>4, <2>5 DEF Unread, Untold, Telling, Reading, OnTrack
    <2>7. d = "measurements" => j.got \in SUBSET Leaf
        BY <1>1, <2>5 DEF OnTrack, Reading
    <2>8. /\ c.parts \in SUBSET PartsOf(d)
          /\ d = "measurements" => c.parts = j.got
        BY <1>5, <2>5, <2>7, ConclusionIs
    <2>9. OnTrack(k, reads)
        BY <1>1, <2>4, <2>5 DEF OnTrack, Telling, Reading
    <2>10. j.payload \cap PartsOf(d) = {} /\ PartsOf("measurements") = Leaf
        BY <2>5, <2>6 DEF Accounted, AccountedFor, PartsOf
    <2>11. \A e \in Built \ {d} : k.payload \cap PartsOf(e) = j.payload \cap PartsOf(e)
        BY <2>4, <2>5, <2>8, PartsApart
    <2>12. Accounted(k, reads)
        <3>1. \A e \in Built : e \in Unread(k) \/ e \notin reads => k.payload \cap PartsOf(e) = {}
            BY <2>5, <2>6, <2>11 DEF Accounted, AccountedFor
        <3>2. \A e \in reads \ Untold(k) : k.agg[e] = "available" <=> k.payload \cap PartsOf(e) # {}
            BY <1>2, <2>4, <2>5, <2>6, <2>11 DEF Accounted, AccountedFor
        <3>3. CASE d = "measurements"
            <4>1. DOMAIN leaves = Leaf /\ \A x \in Leaf : leaves[x] = "available" <=> x \in j.got
                BY <2>1, <3>3 DEF MeasurementStates
            <4>2. \A x \in Leaf : x \in k.payload <=> x \in j.got
                BY <2>4, <2>8, <2>10, <3>3
            <4> QED BY <2>4, <2>5, <2>6, <3>1, <3>2, <3>3, <4>1, <4>2 DEF Accounted, AccountedFor
        <3>4. CASE d # "measurements"
            <4>1. \A x \in Leaf : x \in k.payload <=> x \in j.payload
                BY <2>10, <2>11, <3>4, BuiltDomains
            <4> QED BY <2>1, <2>4, <2>5, <2>6, <3>1, <3>2, <3>4, <4>1 DEF Accounted, AccountedFor
        <3> QED BY <3>3, <3>4
    <2>13. ASSUME k.alone, s.health = "connected" PROVE Recording(k, s, reads)
        <3>1. OthersKept(w, s, d)
            BY <1>5, <2>5, RecordRow
        <3>2. Recording(j, w, reads)
            BY <1>1, <1>2, <1>5, <2>4, <2>13, <3>1 DEF JobSound, SnapshotSound, OthersKept, Building, Telling, Reading
        <3>3. \A e \in (Single \cap reads) \ Untold(k) :
                  s.caps # NoEntries /\ Agree(k.agg[e], s.caps[CapabilityOf(e)])
            BY <2>4, <2>6, <3>1, <3>2 DEF Recording, OthersKept
        <3>4. ASSUME d \in Single
              PROVE  /\ s.caps # NoEntries
                     /\ s.caps[CapabilityOf(d)] \in Unsupported \cup (IF d \in k.payload THEN {"available"} ELSE Unavailable)
            <4>1. PartsOf(d) = {d}
                BY <3>4, SingleDomain
            <4>2. d \notin j.payload
                BY <2>10, <4>1
            <4>3. w.health = "connected"
                BY <2>13, <3>1 DEF OthersKept
            <4>4. CASE c.record = "none" /\ c.parts = {} /\ j.found = {}
                <5>1. s = w
                    BY <4>4, RecordRow
                <5> QED BY <1>1, <2>4, <3>2, <3>4, <4>2, <4>4, <5>1 DEF Recording
            <4>5. CASE c.record = "failed" /\ c.parts = {}
                BY <2>4, <3>4, <4>2, <4>3, <4>5, RecordRow
            <4>6. CASE c.record = "ok" /\ c.parts = {d}
                BY <2>4, <3>4, <4>3, <4>6, RecordRow
            <4> QED BY <1>5, <2>5, <2>7, <3>4, <4>4, <4>5, <4>6, ConclusionIs
        <3> QED BY <2>4, <3>3, <3>4 DEF Recording
    <2>14. JobSound(k, s, reads)
        BY <1>5, <2>4, <2>9, <2>12, <2>13 DEF JobSound, SnapshotSound, OnTrack, Building, Telling
    <2> QED BY <1>1, <1>3, <2>3, <2>14, BecomeSound
<1> QED BY <1>4, <1>5

\* A snapshot with a domain read and told, and the others still to do.
ToldSoFar(m, w, reads) ==
    /\ DOMAIN m = JobField /\ m.call = "snapshot" /\ m.code = "none"
    /\ m.todo \in SUBSET reads
    /\ AccountedFor(m.agg, m.payload, m.leaves, m.todo, m.todo, reads)
    /\ m.alone /\ w.health = "connected" =>
           \A d \in (Single \cap reads) \ m.todo :
               w.caps # NoEntries /\ Agree(m.agg[d], w.caps[CapabilityOf(d)])

\* The begin of the next domain, of the first one too.
LEMMA EnteredSound ==
    ASSUME NEW m, NEW w, NEW reads \in SUBSET Built, ToldSoFar(m, w, reads), m.todo # {}
    PROVE  JobSound(EnteredFirst(m, m.todo), w, reads)
<1> PICK d, todo, k : d = First(m.todo) /\ todo = m.todo \ {d} /\ k = Entered(m, d, todo)
    OBVIOUS
<1>1. d \in m.todo /\ d \in Built /\ d \in reads
    BY FirstIn DEF ToldSoFar
<1>2. /\ DOMAIN k = JobField
      /\ k.domain = d /\ k.todo = todo /\ k.sources = SourcesOf(d) /\ k.step = FirstStep(d)
      /\ k.found = {} /\ k.got = {} /\ k.call = m.call /\ k.code = m.code /\ k.agg = m.agg
      /\ k.payload = m.payload /\ k.leaves = m.leaves /\ k.alone = m.alone
    BY EnteredIs DEF ToldSoFar
<1>3. k.step \in {"resolve", "own"} /\ (k.step = "own" => d \notin Single) /\ (d = "diagnostics" => k.step = "own")
    BY <1>1, <1>2, FirstStepIs
<1>4. OnTrack(k, reads)
    BY <1>1, <1>2, <1>3 DEF OnTrack, ToldSoFar, Reading
<1>5. Unread(k) = m.todo /\ Untold(k) = m.todo
    BY <1>1, <1>2, <1>3 DEF Unread, Untold, Telling, Reading
<1>6. Accounted(k, reads)
    BY <1>2, <1>5 DEF Accounted, ToldSoFar
<1>7. k.alone /\ w.health = "connected" => Recording(k, w, reads)
    BY <1>2, <1>3, <1>5 DEF Recording, ToldSoFar
<1>8. JobSound(k, w, reads)
    BY <1>2, <1>3, <1>4, <1>6, <1>7 DEF JobSound, SnapshotSound, ToldSoFar, Building, Telling, Reading
<1> QED BY <1>8 DEF EnteredFirst

LEMMA AdvanceSound ==
    ASSUME NEW m, NEW w, NEW reads \in SUBSET Built, ToldSoFar(m, w, reads)
    PROVE  JobSound(Advance(m), w, reads)
<1>1. CASE m.todo # {}
    BY <1>1, EnteredSound DEF Advance
<1>2. CASE m.todo = {}
    <2>1. PICK k : k = Advance(m)
        OBVIOUS
    <2>2. /\ DOMAIN k = JobField /\ k.step = "capture"
          /\ k.todo = m.todo /\ k.call = m.call /\ k.code = m.code /\ k.agg = m.agg
          /\ k.payload = m.payload /\ k.leaves = m.leaves /\ k.alone = m.alone
        BY <1>2, <2>1 DEF Advance, ToldSoFar, JobField
    <2>3. Unread(k) = m.todo /\ Untold(k) = m.todo
        BY <2>2 DEF Unread, Untold, Telling, Reading
    <2>4. OnTrack(k, reads)
        BY <1>2, <2>2 DEF OnTrack, ToldSoFar, Telling, Reading
    <2>5. Accounted(k, reads)
        BY <2>2, <2>3 DEF Accounted, ToldSoFar
    <2>6. k.alone /\ w.health = "connected" => Recording(k, w, reads)
        BY <2>2, <2>3 DEF Recording, ToldSoFar
    <2> QED BY <2>1, <2>2, <2>4, <2>5, <2>6 DEF JobSound, SnapshotSound, ToldSoFar, Building
<1> QED BY <1>1, <1>2

LEMMA AdvanceCall ==
    ASSUME NEW m, DOMAIN m = JobField
    PROVE  DOMAIN Advance(m) = JobField /\ Advance(m).call = m.call
<1>1. CASE m.todo = {}
    BY <1>1 DEF Advance, JobField
<1>2. CASE m.todo # {}
    BY <1>2, EnteredIs DEF Advance, EnteredFirst
<1> QED BY <1>1, <1>2

LEMMA ValueStateIs ==
    ASSUME NEW c, NEW available \in BOOLEAN, NEW attempted \in BOOLEAN
    PROVE  LET state == ValueStateOf(c, available, attempted)
           IN  /\ state = "available" <=> available
               /\ row.caps # NoEntries /\ ~available =>
                      /\ row.caps[c] \in Unsupported => state = "unsupported"
                      /\ row.caps[c] \in Unavailable => state = "temporarily_unavailable"
BY DEF ValueStateOf

LEMMA StateKeeps == ASSUME ReadsInv, NEW r \in Reader, State(r) PROVE ReadsInv'
<1> PICK j, d, reads, state :
        /\ j = job[r] /\ d = j.domain /\ reads = profile.reads
        /\ state = ValueStateOf(CapabilityOf(d), j.payload \cap PartsOf(d) # {}, TRUE)
    OBVIOUS
<1>1. PICK m : m = [j EXCEPT !.agg[d] = state]
    OBVIOUS
<1>2. PICK k : k = IF d = "compressor" THEN [m EXCEPT !.step = "refresh"] ELSE Advance(m)
    OBVIOUS
<1>3. j.step = "state" /\ Become(r, k) /\ row' = row /\ UNCHANGED profile
    BY <1>1, <1>2 DEF State, stack
<1>4. RowSound(row) /\ DOMAIN j = JobField /\ reads \in SUBSET Built /\ JobSound(j, row, reads)
    BY JobFacts
<1>5. /\ DOMAIN m = JobField /\ m.call = j.call /\ m.step = j.step /\ m.code = j.code /\ m.todo = j.todo
      /\ m.domain = d /\ m.payload = j.payload /\ m.leaves = j.leaves /\ m.alone = j.alone
      /\ m.agg = [j.agg EXCEPT ![d] = state]
    BY <1>1, <1>4 DEF JobField
<1>6. CASE j.call = "snapshot"
    <2>1. OnTrack(j, reads) /\ Accounted(j, reads) /\ d \in reads /\ d \in Built /\ d \notin j.todo
        BY <1>3, <1>4, <1>6, JobFacts DEF Building, Telling, Reading, OnTrack
    <2>2. Unread(j) = j.todo /\ Untold(j) = j.todo \cup {d}
        BY <1>3 DEF Unread, Untold, Telling, Reading
    <2>3. DOMAIN m.agg = Built /\ m.agg[d] = state /\ \A e \in Built \ {d} : m.agg[e] = j.agg[e]
        BY <1>5, <2>1 DEF Accounted, AccountedFor
    <2>4. state = "available" <=> j.payload \cap PartsOf(d) # {}
        BY ValueStateIs
    <2>5. ASSUME m.alone, row.health = "connected"
          PROVE  \A e \in (Single \cap reads) \ m.todo :
                     row.caps # NoEntries /\ Agree(m.agg[e], row.caps[CapabilityOf(e)])
        <3>1. Recording(j, row, reads)
            BY <1>3, <1>4, <1>5, <1>6, <2>5 DEF JobSound, SnapshotSound, Building, Telling
        <3>2. ASSUME d \in Single PROVE row.caps # NoEntries /\ Agree(state, row.caps[CapabilityOf(d)])
            <4>1. j.payload \cap PartsOf(d) # {} <=> d \in j.payload
                BY <3>2, SingleDomain
            <4>2. /\ row.caps # NoEntries
                  /\ row.caps[CapabilityOf(d)] \in
                         Unsupported \cup (IF d \in j.payload THEN {"available"} ELSE Unavailable)
                BY <1>3, <3>1, <3>2 DEF Recording
            <4>3. ~(d \in j.payload) =>
                      /\ row.caps[CapabilityOf(d)] \in Unsupported => state = "unsupported"
                      /\ row.caps[CapabilityOf(d)] \in Unavailable => state = "temporarily_unavailable"
                BY <4>1, <4>2, ValueStateIs
            <4> QED BY <2>4, <4>1, <4>2, <4>3 DEF Agree
        <3>3. ASSUME NEW e \in (Single \cap reads) \ m.todo, e # d
              PROVE  row.caps # NoEntries /\ Agree(m.agg[e], row.caps[CapabilityOf(e)])
            <4>1. e \in Built \ {d} /\ e \in (Single \cap reads) \ Untold(j)
                BY <1>4, <1>5, <2>2, <3>3
            <4> QED BY <2>3, <3>1, <4>1 DEF Recording
        <3> QED BY <2>3, <3>2, <3>3
    <2>6. ToldSoFar(m, row, reads)
        <3>1. m.code = "none" /\ m.todo \in SUBSET reads
            BY <1>3, <1>5, <2>1 DEF OnTrack, Telling
        <3>2. \A e \in reads \ m.todo : m.agg[e] = "available" <=> m.payload \cap PartsOf(e) # {}
            BY <1>4, <1>5, <2>1, <2>2, <2>3, <2>4 DEF Accounted, AccountedFor
        <3>3. \A e \in Built : e \in m.todo \/ e \notin reads => m.payload \cap PartsOf(e) = {}
            BY <1>5, <2>1, <2>2 DEF Accounted, AccountedFor
        <3>4. IF "measurements" \in reads \ m.todo
              THEN DOMAIN m.leaves = Leaf /\ \A x \in Leaf : m.leaves[x] = "available" <=> x \in m.payload
              ELSE m.leaves = NoStates
            BY <1>5, <2>1, <2>2 DEF Accounted, AccountedFor
        <3>5. AccountedFor(m.agg, m.payload, m.leaves, m.todo, m.todo, reads)
            BY <2>3, <3>2, <3>3, <3>4 DEF AccountedFor
        <3> QED BY <1>5, <1>6, <2>5, <3>1, <3>5 DEF ToldSoFar
    <2>7. CASE d # "compressor"
        BY <1>2, <1>3, <1>4, <2>6, <2>7, AdvanceSound, BecomeSound, RowUnchanged
    <2>8. CASE d = "compressor"
        <3>1. /\ DOMAIN k = JobField /\ k.step = "refresh"
              /\ k.call = m.call /\ k.domain = d /\ k.todo = m.todo /\ k.code = m.code /\ k.agg = m.agg
              /\ k.payload = m.payload /\ k.leaves = m.leaves /\ k.alone = m.alone
            BY <1>2, <1>5, <2>8 DEF JobField
        <3>2. Unread(k) = m.todo /\ Untold(k) = m.todo
            BY <3>1 DEF Unread, Untold, Telling, Reading
        <3>3. OnTrack(k, reads)
            BY <1>5, <2>1, <2>6, <2>8, <3>1 DEF OnTrack, ToldSoFar, Telling, Reading
        <3>4. Accounted(k, reads)
            BY <2>6, <3>1, <3>2 DEF Accounted, ToldSoFar
        <3>5. k.alone /\ row.health = "connected" => Recording(k, row, reads)
            BY <2>6, <3>1, <3>2 DEF Recording, ToldSoFar
        <3>6. JobSound(k, row, reads)
            BY <1>5, <1>6, <2>6, <3>1, <3>3, <3>4, <3>5 DEF JobSound, SnapshotSound, ToldSoFar, Building
        <3> QED BY <1>3, <1>4, <3>6, BecomeSound, RowUnchanged
    <2> QED BY <2>7, <2>8
<1>7. CASE j.call # "snapshot"
    <2>1. DOMAIN k = JobField /\ k.call = m.call
        <3>1. CASE d = "compressor"
            BY <1>2, <1>5, <3>1 DEF JobField
        <3>2. CASE d # "compressor"
            BY <1>2, <1>5, <3>2, AdvanceCall
        <3> QED BY <3>1, <3>2
    <2>2. JobSound(k, row, reads)
        BY <1>3, <1>5, <1>7, <2>1, JobFacts, OtherCall DEF Telling
    <2> QED BY <1>3, <1>4, <2>2, BecomeSound, RowUnchanged
<1> QED BY <1>6, <1>7

LEMMA RefreshKeeps == ASSUME ReadsInv, NEW r \in Reader, Refresh(r) PROVE ReadsInv'
<1> PICK j, w, s, reads, k : j = job[r] /\ w = row /\ s = row' /\ reads = profile.reads /\ k = Advance(j)
    OBVIOUS
<1>1. /\ j.step = "refresh" /\ Become(r, k) /\ UNCHANGED profile
      /\ s = w \/ s = RecordCapabilityMissingEntity(w, CapabilityOf("compressor"), Bound)
    BY DEF Refresh, MissingEntity, stack
<1>2. RowSound(w) /\ DOMAIN j = JobField /\ reads \in SUBSET Built /\ JobSound(j, w, reads)
    BY JobFacts
<1>3. RowKept(w, s) /\ OthersKept(w, s, "compressor")
    <2>1. CASE s = w
        BY <1>2, <2>1, RowUnchanged, SameRow
    <2>2. CASE s # w
        <3>1. RowRecorded(w, s, CapabilityOf("compressor"))
            BY <1>1, <1>2, <2>2, MissingRow
        <3> QED BY <3>1, RecordedKept, RecordedOthers, BuiltDomains
    <2> QED BY <2>1, <2>2
<1>4. CASE j.call = "snapshot"
    <2>1. OnTrack(j, reads) /\ Accounted(j, reads)
        BY <1>1, <1>4, JobFacts DEF Building
    <2>2. Unread(j) = j.todo /\ Untold(j) = j.todo
        BY <1>1 DEF Unread, Untold, Telling, Reading
    <2>3. ASSUME j.alone, s.health = "connected"
          PROVE  \A d \in (Single \cap reads) \ j.todo :
                     s.caps # NoEntries /\ Agree(j.agg[d], s.caps[CapabilityOf(d)])
        <3>1. Recording(j, w, reads)
            BY <1>1, <1>2, <1>3, <1>4, <2>3 DEF JobSound, SnapshotSound, OthersKept, Building
        <3>2. \A d \in Single : d # "compressor"
            BY DEF Single
        <3> QED BY <1>3, <2>2, <3>1, <3>2 DEF Recording, OthersKept
    <2>4. j.code = "none" /\ j.todo \in SUBSET reads
        BY <1>1, <2>1 DEF OnTrack
    <2>5. ToldSoFar(j, s, reads)
        BY <1>2, <1>4, <2>1, <2>2, <2>3, <2>4 DEF ToldSoFar, Accounted
    <2>6. JobSound(k, s, reads)
        BY <1>2, <2>5, AdvanceSound
    <2> QED BY <1>1, <1>3, <2>6, BecomeSound
<1>5. CASE j.call # "snapshot"
    <2>1. JobSound(k, s, reads)
        BY <1>1, <1>2, <1>5, AdvanceCall, JobFacts, OtherCall
    <2> QED BY <1>1, <1>3, <2>1, BecomeSound
<1> QED BY <1>4, <1>5

-----------------------------------------------------------------------------
(* The end of a snapshot: the states of its fields.                        *)

\* A snapshot as it is once all the domains it reads are told, and the others are too.
Whole(j) ==
    /\ DOMAIN j.agg = Built
    /\ \A d \in Built : j.agg[d] = "available" <=> j.payload \cap PartsOf(d) # {}

\* The states of the measurements as their read left them.
LeavesTold(leaves, payload) ==
    \/ leaves = NoStates /\ payload \cap Leaf = {}
    \/ DOMAIN leaves = Leaf /\ \A x \in Leaf : leaves[x] = "available" <=> x \in payload

ServedIn(j, x) == x \in j.payload \/ (x = "room_temperature" /\ "heating_temperature" \in j.payload)

LEMMA HeatedTruthful ==
    ASSUME NEW j, NEW x \in Heated(j)
    PROVE  HeatedState(j, x) = "available" <=> ServedIn(j, x)
<1>1. /\ x = "room_temperature" => "heating_temperature" \in j.payload
      /\ x \in HeatingPart \cup {"room_temperature"}
    BY DEF Heated, HeatingPart
<1>2. MissingField(j.agg["heating"]) # "available"
    BY DEF MissingField
<1> QED BY <1>1, <1>2 DEF HeatedState, ServedIn

\* A field that room heating does not hold is in no payload of room heating.
LEMMA UnheatedServed ==
    ASSUME NEW j, NEW x \in Field \ Heated(j)
    PROVE  /\ ServedIn(j, x) <=> x \in j.payload
           /\ x \in HeatingPart => j.payload \cap PartsOf("heating") = {}
<1>1. PartsOf("heating") = HeatingPart \cup {"heating_temperature"}
    BY DEF PartsOf
<1> QED BY <1>1 DEF Heated, ServedIn

\* A domain that is one field.
LEMMA SingleField ==
    ASSUME NEW x \in Field \ (Leaf \cup HeatingPart)
    PROVE  x \in Built /\ PartsOf(x) = {x}
BY DEF Field, PartsOf

LEMMA AggregateTruthful ==
    ASSUME NEW j, Whole(j), NEW x \in Field \ Heated(j)
    PROVE  AggregateState(j, x) = "available" <=> x \in j.payload
<1>1. CASE x \in Leaf
    <2>1. MissingField(j.agg["measurements"]) # "available"
        BY DEF MissingField
    <2>2. x \notin HeatingPart
        BY <1>1 DEF Leaf, HeatingPart
    <2>3. CASE x \in j.payload
        BY <1>1, <2>2, <2>3 DEF AggregateState
    <2>4. CASE x \notin j.payload
        BY <1>1, <2>1, <2>2, <2>4 DEF AggregateState
    <2> QED BY <2>3, <2>4
<1>2. CASE x \in HeatingPart
    <2>1. x \notin Leaf /\ "heating" \in Built /\ x \in PartsOf("heating")
        BY <1>2, BuiltDomains DEF Leaf, HeatingPart, PartsOf
    <2>2. AggregateState(j, x) = j.agg["heating"]
        BY <1>2, <2>1 DEF AggregateState
    <2> QED BY <1>2, <2>1, <2>2, UnheatedServed DEF Whole
<1>3. CASE x \notin Leaf \cup HeatingPart
    <2>1. AggregateState(j, x) = j.agg[x]
        BY <1>3 DEF AggregateState
    <2> QED BY <1>3, <2>1, SingleField DEF Whole
<1> QED BY <1>1, <1>2, <1>3

\* Put together once with the states of the measurements, and once more without, the
\* states tell of each field whether it is served, and of a domain of one field its state.
LEMMA FieldStatesTold ==
    ASSUME NEW j, Whole(j), NEW leaves, LeavesTold(leaves, j.payload), NEW built, NEW fields,
           built = FieldStates(j, NoStates, leaves), fields = FieldStates(j, built, NoStates)
    PROVE  /\ \A x \in Field : fields[x] = "available" <=> ServedIn(j, x)
           /\ \A d \in Single : fields[d] = j.agg[d]
<1>1. DOMAIN NoStates = {} /\ DOMAIN built = Field
    BY DEF NoStates, FieldStates
<1>2. \A x \in Heated(j) \cap Field : fields[x] = HeatedState(j, x)
    BY DEF FieldStates
<1>3. \A x \in Field \ Heated(j) :
          /\ built[x] = Layered(j, x, NoStates, leaves)
          /\ fields[x] = Layered(j, x, built, NoStates)
    BY DEF FieldStates
<1>4. \A x \in Field \ Heated(j) :
          fields[x] = IF x \in DOMAIN leaves THEN leaves[x] ELSE AggregateState(j, x)
    BY <1>1, <1>3 DEF Layered
<1>5. DOMAIN leaves \subseteq Leaf /\ \A x \in DOMAIN leaves : leaves[x] = "available" <=> x \in j.payload
    BY <1>1 DEF LeavesTold
<1>6. ASSUME NEW x \in Field PROVE fields[x] = "available" <=> ServedIn(j, x)
    <2>1. CASE x \in Heated(j)
        BY <1>2, <2>1, HeatedTruthful
    <2>2. CASE x \notin Heated(j)
        BY <1>4, <1>5, <2>2, UnheatedServed, AggregateTruthful
    <2> QED BY <2>1, <2>2
<1>7. ASSUME NEW d \in Single PROVE fields[d] = j.agg[d]
    <2>1. d \in Field \ (Leaf \cup HeatingPart)
        BY SingleDomain
    <2>2. d \notin Heated(j)
        BY <2>1 DEF Heated, Leaf
    <2>3. AggregateState(j, d) = j.agg[d]
        BY <2>1 DEF AggregateState
    <2> QED BY <1>4, <1>5, <2>1, <2>2, <2>3
<1> QED BY <1>6, <1>7

\* A domain that was not attempted is not available.
LEMMA LeftState == \A c : ValueStateOf(c, FALSE, FALSE) # "available"
BY DEF ValueStateOf

LEMMA CaptureKeeps == ASSUME ReadsInv, NEW r \in Reader, Capture(r) PROVE ReadsInv'
<1> PICK j, reads : j = job[r] /\ reads = profile.reads
    OBVIOUS
<1>1. PICK m :
          m = [j EXCEPT !.agg = [d \in Built |-> IF d \in reads THEN @[d]
                                                 ELSE ValueStateOf(CapabilityOf(d), FALSE, FALSE)]]
    OBVIOUS
<1>2. PICK built, fields :
          /\ built = FieldStates(m, NoStates, m.leaves) /\ fields = FieldStates(m, built, NoStates)
    OBVIOUS
<1>3. PICK k : k = [m EXCEPT !.caps = row.caps, !.fields = fields, !.leaves = NoStates, !.code = "ok",
                             !.step = "done"]
    OBVIOUS
<1>4. j.step = "capture" /\ Become(r, k) /\ row' = row /\ UNCHANGED profile
    BY <1>1, <1>2, <1>3 DEF Capture, stack
<1>5. RowSound(row) /\ DOMAIN j = JobField /\ reads \in SUBSET Built /\ JobSound(j, row, reads)
    BY JobFacts
<1>6. /\ DOMAIN m = JobField /\ m.call = j.call /\ m.alone = j.alone
      /\ m.payload = j.payload /\ m.leaves = j.leaves
      /\ DOMAIN m.agg = Built
      /\ \A d \in Built : m.agg[d] = IF d \in reads THEN j.agg[d]
                                     ELSE ValueStateOf(CapabilityOf(d), FALSE, FALSE)
    BY <1>1, <1>5 DEF JobField
<1>7. /\ DOMAIN k = JobField /\ k.call = j.call /\ k.alone = j.alone /\ k.step = "done" /\ k.code = "ok"
      /\ k.payload = j.payload /\ k.fields = fields /\ k.caps = row.caps
    BY <1>3, <1>6 DEF JobField
<1>8. CASE j.call = "snapshot"
    <2>1. OnTrack(j, reads) /\ Accounted(j, reads)
        BY <1>4, <1>8, JobFacts DEF Building
    <2>2. Unread(j) = {} /\ Untold(j) = {}
        BY <1>4, <2>1 DEF Unread, Untold, Telling, Reading, OnTrack
    <2>3. Whole(m)
        <3>1. \A d \in reads : j.agg[d] = "available" <=> j.payload \cap PartsOf(d) # {}
            BY <2>1, <2>2 DEF Accounted, AccountedFor
        <3>2. \A d \in Built \ reads : j.payload \cap PartsOf(d) = {}
            BY <2>1 DEF Accounted, AccountedFor
        <3>3. \A d \in reads : m.agg[d] = "available" <=> m.payload \cap PartsOf(d) # {}
            BY <1>5, <1>6, <3>1
        <3>4. \A d \in Built \ reads : m.agg[d] # "available" /\ m.payload \cap PartsOf(d) = {}
            BY <1>6, <3>2, LeftState
        <3> QED BY <1>6, <3>3, <3>4 DEF Whole
    <2>4. LeavesTold(m.leaves, m.payload)
        <3>1. "measurements" \in Built /\ PartsOf("measurements") = Leaf
            BY BuiltDomains DEF PartsOf
        <3>2. CASE "measurements" \in reads
            BY <1>6, <2>1, <2>2, <3>2 DEF Accounted, AccountedFor, LeavesTold
        <3>3. CASE "measurements" \notin reads
            BY <1>6, <2>1, <3>1, <3>3 DEF Accounted, AccountedFor, LeavesTold
        <3> QED BY <3>2, <3>3
    <2>5. /\ \A x \in Field : fields[x] = "available" <=> ServedIn(m, x)
          /\ \A d \in Single : fields[d] = m.agg[d]
        BY <1>2, <2>3, <2>4, FieldStatesTold
    <2>6. TruthfulFields(k)
        BY <1>6, <1>7, <2>5 DEF TruthfulFields, ServedIn
    <2>7. ASSUME k.alone, row.health = "connected" PROVE AgreeingFields(k, reads)
        <3>1. Recording(j, row, reads)
            BY <1>4, <1>5, <1>7, <1>8, <2>7 DEF JobSound, SnapshotSound, Building
        <3>2. \A d \in Single \cap reads : Agree(j.agg[d], row.caps[CapabilityOf(d)])
            BY <2>2, <3>1 DEF Recording
        <3>3. \A d \in Single \cap reads : fields[d] = j.agg[d]
            BY <1>5, <1>6, <2>5
        <3> QED BY <1>7, <3>2, <3>3 DEF AgreeingFields
    <2>8. JobSound(k, row, reads)
        BY <1>7, <1>8, <2>6, <2>7 DEF JobSound, SnapshotSound, Building, Telling, Reading
    <2> QED BY <1>4, <1>5, <2>8, BecomeSound, RowUnchanged
<1>9. CASE j.call # "snapshot"
    <2>1. JobSound(k, row, reads)
        BY <1>4, <1>7, <1>9, JobFacts, OtherCall
    <2> QED BY <1>4, <1>5, <2>1, BecomeSound, RowUnchanged
<1> QED BY <1>8, <1>9

-----------------------------------------------------------------------------
(* Calls begin and answer.                                                 *)

LEMMA BeginKeeps ==
    ASSUME ReadsInv, NEW r \in Reader, NEW j, Begin(r, j), JobSound(j, row, profile.reads)
    PROVE  ReadsInv'
<1>1. Become(r, j) /\ row' = row /\ UNCHANGED profile
    BY DEF Begin, stack
<1> QED BY <1>1, JobFacts, RowUnchanged, BecomeSound

\* A call that reads no more than one domain.
LEMMA BeginOther ==
    ASSUME ReadsInv, NEW r \in Reader, NEW c, c \notin {"snapshot", "status"}, NEW target, NEW d,
           Begin(r, Entered([Idle EXCEPT !.call = c, !.target = target], d, {}))
    PROVE  ReadsInv'
<1>1. PICK m : m = [Idle EXCEPT !.call = c, !.target = target]
    OBVIOUS
<1>2. PICK k : k = Entered(m, d, {})
    OBVIOUS
<1>3. DOMAIN m = JobField /\ m.call = c
    BY <1>1, IdleShape DEF JobField
<1>4. DOMAIN k = JobField /\ k.call = c
    BY <1>2, <1>3, EnteredIs
<1> QED BY <1>1, <1>2, <1>4, OtherCall, BeginKeeps

LEMMA RpcKeeps == ASSUME ReadsInv, NEW r \in Reader, Rpc(r) PROVE ReadsInv'
<1>1. PICK d : Begin(r, Entered([Idle EXCEPT !.call = "rpc"], d, {}))
    BY DEF Rpc
<1>2. PICK m : m = [Idle EXCEPT !.call = "rpc"]
    OBVIOUS
<1>3. PICK k : k = Entered(m, d, {})
    OBVIOUS
<1>4. DOMAIN m = JobField /\ m.call = "rpc"
    BY <1>2, IdleShape DEF JobField
<1>5. DOMAIN k = JobField /\ k.call = "rpc"
    BY <1>3, <1>4, EnteredIs
<1> QED BY <1>1, <1>2, <1>3, <1>5, OtherCall, BeginKeeps

LEMMA WriteRpcKeeps == ASSUME ReadsInv, NEW r \in Reader, WriteRpc(r) PROVE ReadsInv'
BY BeginOther DEF WriteRpc

LEMMA SubscribeEventsKeeps == ASSUME ReadsInv, NEW r \in Reader, SubscribeEvents(r) PROVE ReadsInv'
<1>1. PICK d, target : Begin(r, Entered([Idle EXCEPT !.call = "event", !.target = target], d, {}))
    BY DEF SubscribeEvents
<1> QED BY <1>1, BeginOther

LEMMA GetDeviceStatusKeeps == ASSUME ReadsInv, NEW r \in Reader, GetDeviceStatus(r) PROVE ReadsInv'
<1> PICK m : m = [Idle EXCEPT !.call = "status", !.got = {row.health}, !.step = "membership",
                              !.removal = IF row.removed THEN "standing" ELSE "none"]
    OBVIOUS
<1>1. /\ DOMAIN m = JobField /\ m.call = "status" /\ m.got = {row.health} /\ m.step = "membership"
      /\ m.code = "none" /\ m.removal = IF row.removed THEN "standing" ELSE "none"
    BY DEF Idle, JobField
<1>2. row.health = "unknown" <=> row.removed
    BY JobFacts DEF RowSound
<1>3. JobSound(m, row, profile.reads)
    BY <1>1, <1>2 DEF JobSound, StatusSound
<1> QED BY <1>3, BeginKeeps DEF GetDeviceStatus

LEMMA GetDeviceCapabilitiesKeeps ==
    ASSUME ReadsInv, NEW r \in Reader, GetDeviceCapabilities(r) PROVE ReadsInv'
<1> PICK k : /\ k = IF KnownDevice(row) THEN [[Idle EXCEPT !.call = "capabilities"] EXCEPT !.step = "entries"]
                    ELSE [[Idle EXCEPT !.call = "capabilities"] EXCEPT !.code = "not_found", !.step = "done"]
    OBVIOUS
<1>1. DOMAIN k = JobField /\ k.call = "capabilities"
    BY IdleShape DEF JobField
<1> QED BY <1>1, OtherCall, BeginKeeps DEF GetDeviceCapabilities

\* A snapshot begins with everything to be read and nothing told.
LEMMA GetDeviceSnapshotKeeps ==
    ASSUME ReadsInv, NEW r \in Reader, GetDeviceSnapshot(r) PROVE ReadsInv'
<1> PICK reads, target : reads = profile.reads /\ target = CompressorCore
    OBVIOUS
<1>1. reads \in SUBSET Built /\ reads # {}
    BY JobFacts
<1>2. CASE KnownDevice(row)
    <2>1. PICK n : n = [[Idle EXCEPT !.call = "snapshot", !.target = target] EXCEPT !.alone = TRUE]
        OBVIOUS
    <2>2. PICK m : m = [n EXCEPT !.todo = reads]
        OBVIOUS
    <2>3. /\ DOMAIN n = JobField /\ n.call = "snapshot" /\ n.code = "none"
          /\ n.agg = NoAgg /\ n.payload = {} /\ n.leaves = NoStates
        BY <2>1 DEF Idle, JobField
    <2>4. /\ DOMAIN m = JobField /\ m.call = "snapshot" /\ m.code = "none" /\ m.todo = reads
          /\ m.agg = NoAgg /\ m.payload = {} /\ m.leaves = NoStates
        BY <2>2, <2>3 DEF JobField
    <2>5. AccountedFor(m.agg, m.payload, m.leaves, m.todo, m.todo, reads)
        BY <2>4 DEF AccountedFor, NoAgg
    <2>6. ToldSoFar(m, row, reads)
        BY <2>4, <2>5 DEF ToldSoFar
    <2>7. JobSound(EnteredFirst(m, reads), row, reads)
        BY <1>1, <2>4, <2>6, EnteredSound
    <2>8. EnteredFirst(m, reads) = EnteredFirst(n, reads)
        BY <2>2, <2>3 DEF EnteredFirst, Entered, JobField
    <2>9. Begin(r, EnteredFirst(n, reads))
        BY <1>2, <2>1 DEF GetDeviceSnapshot
    <2> QED BY <2>7, <2>8, <2>9, BeginKeeps
<1>3. CASE ~KnownDevice(row)
    <2>1. PICK k : k = [[Idle EXCEPT !.call = "snapshot", !.target = target] EXCEPT !.code = "not_found",
                                                                                   !.step = "done"]
        OBVIOUS
    <2>2. DOMAIN k = JobField /\ k.call = "snapshot" /\ k.code = "not_found" /\ k.step = "done"
        BY <2>1, IdleShape DEF JobField
    <2>3. JobSound(k, row, reads)
        BY <2>2 DEF JobSound, SnapshotSound, Building, Telling, Reading
    <2>4. Begin(r, k)
        BY <1>3, <2>1 DEF GetDeviceSnapshot
    <2> QED BY <2>3, <2>4, BeginKeeps
<1> QED BY <1>2, <1>3

LEMMA WriteKeeps == ASSUME ReadsInv, NEW r \in Reader, Write(r) PROVE ReadsInv'
<1>1. PICK sent, code : /\ job[r].call = "write"
                        /\ Become(r, [job[r] EXCEPT !.got = sent, !.step = "done", !.code = code])
                        /\ row' = row /\ UNCHANGED profile
    BY DEF Write, stack
<1>2. PICK k : k = [job[r] EXCEPT !.got = sent, !.step = "done", !.code = code]
    OBVIOUS
<1>3. DOMAIN k = JobField /\ k.call = "write"
    BY <1>1, <1>2, JobFacts DEF JobField
<1> QED BY <1>1, <1>2, <1>3, OtherCall, BecomeSound, JobFacts, RowUnchanged

\* A device that is removed is not known, so that no removal stands when a status is told.
LEMMA MembershipKeeps == ASSUME ReadsInv, NEW r \in Reader, Membership(r) PROVE ReadsInv'
<1> PICK j : j = job[r]
    OBVIOUS
<1>1. PICK k : k = [j EXCEPT !.code = IF KnownDevice(row) THEN "ok" ELSE "not_found", !.step = "done"]
    OBVIOUS
<1>2. j.step = "membership" /\ Become(r, k) /\ row' = row /\ UNCHANGED profile
    BY <1>1 DEF Membership, stack
<1>3. DOMAIN j = JobField /\ JobSound(j, row, profile.reads) /\ RowSound(row)
    BY JobFacts
<1>4. /\ DOMAIN k = JobField /\ k.call = j.call /\ k.got = j.got /\ k.step = "done" /\ k.removal = j.removal
      /\ k.code = IF KnownDevice(row) THEN "ok" ELSE "not_found"
    BY <1>1, <1>3 DEF JobField
<1>5. j.call # "snapshot"
    BY <1>2, <1>3 DEF JobSound, SnapshotSound, Building, Telling, Reading
<1>6. k.code = "ok" => ~row.removed
    BY <1>4 DEF KnownDevice
<1>7. j.call = "status" => StatusSound(k, row)
    BY <1>2, <1>3, <1>4, <1>6 DEF JobSound, StatusSound
<1>8. JobSound(k, row, profile.reads)
    BY <1>4, <1>5, <1>7 DEF JobSound
<1> QED BY <1>2, <1>3, <1>8, BecomeSound, RowUnchanged

LEMMA DeviceCapabilitiesKeeps == ASSUME ReadsInv, NEW r \in Reader, DeviceCapabilities(r) PROVE ReadsInv'
<1> PICK j : j = job[r]
    OBVIOUS
<1>1. PICK k : k = [j EXCEPT !.caps = row.caps, !.code = "ok", !.step = "done"]
    OBVIOUS
<1>2. j.step = "entries" /\ Become(r, k) /\ row' = row /\ UNCHANGED profile
    BY <1>1 DEF DeviceCapabilities, stack
<1>3. DOMAIN j = JobField /\ JobSound(j, row, profile.reads) /\ RowSound(row)
    BY JobFacts
<1>4. DOMAIN k = JobField /\ k.call = j.call
    BY <1>1, <1>3 DEF JobField
<1>5. j.call \notin {"snapshot", "status"}
    BY <1>2, <1>3 DEF JobSound, SnapshotSound, StatusSound, Building, Telling, Reading
<1> QED BY <1>2, <1>3, <1>4, <1>5, OtherCall, BecomeSound, RowUnchanged

LEMMA AnswerKeeps == ASSUME ReadsInv, NEW r \in Reader, Answer(r) PROVE ReadsInv'
<1>1. job' = [job EXCEPT ![r] = Idle] /\ row' = row /\ UNCHANGED profile
    BY DEF Answer, stack
<1>2. DOMAIN job' = Reader /\ \A q \in Reader : job'[q] = IF q = r THEN Idle ELSE job[q]
    BY <1>1 DEF ReadsInv
<1>3. \A q \in Reader : JobSound(job'[q], row', profile'.reads)
    BY <1>1, <1>2, IdleSound DEF ReadsInv
<1> QED BY <1>1, <1>2, <1>3 DEF ReadsInv

-----------------------------------------------------------------------------
(* The device, the stack and the use-case callbacks.                       *)

LEMMA DeviceKeeps ==
    ASSUME ReadsInv, LinkUp \/ LinkDown \/ Beat \/ (\E u \in UseCase : Negotiate(u)) \/ (\E x \in Datum : Store(x))
    PROVE  ReadsInv'
<1>1. Disturb /\ row' = row /\ UNCHANGED profile
    BY DEF LinkUp, LinkDown, Beat, Negotiate, Store
<1> QED BY <1>1, JobFacts, RowUnchanged, DisturbSound DEF ReadsInv

LEMMA ServiceCallbackKeeps == ASSUME ReadsInv, ServiceCallback PROVE ReadsInv'
<1>1. Disturb /\ UNCHANGED profile
    BY DEF ServiceCallback
<1>2. \/ row' = AddDevice(row) \/ row' = MarkConnected(row)
      \/ row' = MarkDisconnected(row) \/ row' = ClearEntities(row)
    BY DEF ServiceCallback
<1>3. RowKept(row, row')
    BY <1>2, ServiceRow DEF ReadsInv
<1> QED BY <1>1, <1>3, DisturbSound

\* A removal or a new pairing: the snapshots are crossed, the status calls keep it.
LEMMA MemberSound ==
    ASSUME ReadsInv, NEW fate \in {"standing", "ended"}, DisturbMember(fate), RowSound(row'),
           row'.removed <=> fate = "standing", UNCHANGED profile
    PROVE  ReadsInv'
<1>1. DOMAIN job' = Reader
    BY DEF DisturbMember
<1>2. ASSUME NEW r \in Reader PROVE JobSound(job'[r], row', profile'.reads)
    <2> PICK j, k, w : j = job[r] /\ k = job'[r] /\ w = row'
        OBVIOUS
    <2>1. DOMAIN j = JobField /\ JobSound(j, row, profile.reads)
        BY JobFacts
    <2>2. k = IF BetweenReads(j) THEN [Crossed(j) EXCEPT !.removal = fate] ELSE Crossed(j)
        BY DEF DisturbMember
    <2>3. /\ DOMAIN Crossed(j) = JobField /\ Crossed(j).call = j.call /\ Crossed(j).step = j.step
          /\ Crossed(j).got = j.got /\ Crossed(j).code = j.code /\ Crossed(j).removal = j.removal
        BY <2>1 DEF Crossed, JobField
    <2>4. CASE j.call = "snapshot"
        <3>1. ~BetweenReads(j)
            BY <2>1, <2>4 DEF JobSound, SnapshotSound, Building, Telling, Reading, BetweenReads
        <3>2. JobSound(Crossed(j), w, profile.reads)
            BY <2>1, <2>4, CrossedSnapshot DEF JobSound
        <3> QED BY <2>2, <3>1, <3>2
    <2>5. CASE j.call = "status"
        <3>1. /\ DOMAIN k = JobField /\ k.call = "status" /\ k.step = j.step /\ k.got = j.got
              /\ k.code = j.code /\ k.removal = IF BetweenReads(j) THEN fate ELSE j.removal
            BY <2>2, <2>3, <2>5 DEF JobField
        <3>2. StatusSound(k, w)
            BY <2>1, <2>5, <3>1 DEF JobSound, StatusSound, BetweenReads
        <3> QED BY <3>1, <3>2 DEF JobSound
    <2>6. CASE j.call \notin {"snapshot", "status"}
        <3>1. DOMAIN k = JobField /\ k.call = j.call
            BY <2>2, <2>3 DEF JobField
        <3> QED BY <2>6, <3>1, OtherCall
    <2> QED BY <2>4, <2>5, <2>6
<1> QED BY <1>1, <1>2 DEF ReadsInv

LEMMA UnpairKeeps == ASSUME ReadsInv, Unpair PROVE ReadsInv'
BY RemovedRow, MemberSound DEF Unpair

LEMMA PairKeeps == ASSUME ReadsInv, Pair PROVE ReadsInv'
BY PairedRow, MemberSound, JobFacts DEF Pair, ReadsInv

LEMMA CalledBackKeeps ==
    ASSUME ReadsInv, NEW called, NEW r, NEW published, CalledBack(called, r, published), RowKept(row, r)
    PROVE  ReadsInv'
BY DisturbSound DEF CalledBack

LEMMA RowKeptTwice ==
    ASSUME NEW w, NEW s, NEW t, RowKept(w, s), RowKept(s, t) PROVE RowKept(w, t)
BY DEF RowKept

LEMMA SupportOfUseCase ==
    \A u \in UseCase : UseCaseCapability[u] \in Capability /\ EntityOf[u] \in Entity
BY CapabilityAssumption DEF UseCaseCapability, UseCase, CapabilityOf, EntityOf, Entity

LEMMA RecordedSupportRow ==
    ASSUME NEW w, RowSound(w), NEW u \in UseCase
    PROVE  RowKept(w, RecordedSupport(w, u))
<1> PICK s : s = IF CompatibleEntity(offer, u) /\ w.health # "disconnected"
                 THEN UpsertObservation(w, EntityOf[u]) ELSE RemoveEntityObservation(w, EntityOf[u])
    OBVIOUS
<1>1. RowKept(w, s)
    BY SupportOfUseCase, ObservationRow
<1>2. CompatibleEntity(offer, u) \in BOOLEAN
    BY DEF CompatibleEntity
<1>3. RowKept(s, RecordCapabilitySourceSupport(s, UseCaseCapability[u], u, CompatibleEntity(offer, u)))
    BY <1>1, <1>2, SupportOfUseCase, SupportRow DEF RowKept
<1> QED BY <1>1, <1>3, RowKeptTwice DEF RecordedSupport

LEMMA LPCSupportRow == ASSUME NEW w, RowSound(w) PROVE RowKept(w, LPCSupport(w))
<1> DEFINE Supported(q, x) == RecordCapabilitySourceSupport(q, UseCaseCapability[x], x, x \in offer)
<1>1. PICK s : s = IF /\ \E x \in LPCScenario : CompatibleEntityForScenario(offer, x)
                      /\ w.health # "disconnected"
                   THEN UpsertObservation(w, "appliance") ELSE RemoveEntityObservation(w, "appliance")
    OBVIOUS
<1>2. RowKept(w, s)
    BY <1>1, ObservationRow DEF Entity
<1>3. ASSUME NEW q, RowKept(w, q), NEW x \in LPCScenario PROVE RowKept(w, Supported(q, x))
    <2>1. x \in UseCase /\ RowSound(q)
        BY <1>3 DEF LPCScenario, UseCase, RowKept
    <2>2. RowKept(q, Supported(q, x))
        <3>1. CompatibleEntity(offer, x) \in BOOLEAN
            BY DEF CompatibleEntity
        <3>2. RowKept(q, RecordCapabilitySourceSupport(q, UseCaseCapability[x], x, CompatibleEntity(offer, x)))
            BY <2>1, <3>1, SupportOfUseCase, SupportRow
        <3> QED BY <3>2 DEF CompatibleEntity
    <2> QED BY <1>3, <2>2, RowKeptTwice
<1>4. LPCSupport(w) = Supported(Supported(Supported(s, "limit"), "failsafe"), "heartbeat")
    BY <1>1 DEF LPCSupport
<1>5. "limit" \in LPCScenario /\ "failsafe" \in LPCScenario /\ "heartbeat" \in LPCScenario
    BY DEF LPCScenario
<1> HIDE DEF Supported
<1> QED BY <1>2, <1>3, <1>4, <1>5

\* Every callback records support, observes an entity, or leaves the row alone.
LEMMA UseCaseCallbackKeeps == ASSUME ReadsInv, UseCaseCallback PROVE ReadsInv'
<1>1. /\ \A u \in UseCase : RowKept(row, RecordedSupport(row, u))
      /\ RowKept(row, LPCSupport(row)) /\ RowKept(row, row)
      /\ \A e \in Entity : RowKept(row, UpsertObservation(row, e))
    BY RecordedSupportRow, LPCSupportRow, RowUnchanged, ObservationRow DEF ReadsInv
<1>2. "appliance" \in Entity /\ "circuit" \in Entity
    BY DEF Entity
<1>3. {"monitoring", "compressor", "dhw", "dhw_system_function", "room_system_function", "room_setpoint"}
          \subseteq UseCase
    BY DEF UseCase
<1>4. \E called, published, r : CalledBack(called, r, published) /\ RowKept(row, r)
    <2>1. CASE MonitoringEvent
        BY <1>1, <1>2, <1>3, <2>1 DEF MonitoringEvent
    <2>2. CASE TemperatureEvent
        BY <1>1, <1>2, <2>2 DEF TemperatureEvent
    <2>3. CASE HydraulicEvent \/ DiagnosisEvent \/ DHWTemperatureEvent
        BY <1>1, <2>3 DEF HydraulicEvent, DiagnosisEvent, DHWTemperatureEvent
    <2>4. CASE LPCEvent
        BY <1>1, <1>2, <2>4 DEF LPCEvent
    <2>5. CASE OHPCFEvent
        BY <1>1, <1>2, <1>3, <2>5 DEF OHPCFEvent
    <2>6. CASE DHWTemperatureUseCaseEvent
        BY <1>1, <1>3, <2>6 DEF DHWTemperatureUseCaseEvent
    <2>7. CASE DHWSystemFunctionEvent
        BY <1>1, <1>2, <1>3, <2>7 DEF DHWSystemFunctionEvent
    <2>8. CASE RoomSystemFunctionEvent
        BY <1>1, <1>2, <1>3, <2>8 DEF RoomSystemFunctionEvent
    <2>9. CASE CRHTEvent
        BY <1>1, <1>2, <1>3, <2>9 DEF CRHTEvent
    <2> QED BY <2>1, <2>2, <2>3, <2>4, <2>5, <2>6, <2>7, <2>8, <2>9 DEF UseCaseCallback
<1> QED BY <1>4, CalledBackKeeps

-----------------------------------------------------------------------------
(* The reads as a whole.                                                   *)

LEMMA ReadsInitSound == ReadsInit => ReadsInv
<1> SUFFICES ASSUME ReadsInit PROVE ReadsInv
    OBVIOUS
<1>1. RowSound(row) /\ profile \in Profile
    BY BlankRow DEF ReadsInit
<1>2. DOMAIN job = Reader /\ \A r \in Reader : job[r] = Idle
    BY DEF ReadsInit
<1> QED BY <1>1, <1>2, IdleSound DEF ReadsInv

LEMMA CallStepKeeps == ASSUME ReadsInv, NEW r \in Reader, CallStep(r) PROVE ReadsInv'
BY RpcKeeps, WriteRpcKeeps, GetDeviceSnapshotKeeps, GetDeviceCapabilitiesKeeps, SubscribeEventsKeeps,
   GetDeviceStatusKeeps, ResolveKeeps, MissingKeeps, ReadKeeps, WriteKeeps, ReadOwnKeeps, RecordKeeps,
   StateKeeps, RefreshKeeps, CaptureKeeps, MembershipKeeps, DeviceCapabilitiesKeeps, AnswerKeeps
   DEF CallStep

LEMMA ReadsStutter == ASSUME ReadsInv, UNCHANGED readsVars PROVE ReadsInv'
BY DEF ReadsInv, readsVars, stack

\* A read accounts for what it served, in every domain it has told, whatever crosses it;
\* the inductive invariant of the reads (DeviceSnapshotAssembler.Build and the RPCs).
THEOREM ReadsInvariant == ReadsSpec => []ReadsInv
<1>1. ReadsInit => ReadsInv
    BY ReadsInitSound
<1>2. ReadsInv /\ [ReadsNext]_readsVars => ReadsInv'
    <2> SUFFICES ASSUME ReadsInv, [ReadsNext]_readsVars PROVE ReadsInv'
        OBVIOUS
    <2> QED BY DeviceKeeps, ServiceCallbackKeeps, UnpairKeeps, PairKeeps, UseCaseCallbackKeeps,
              CallStepKeeps, ReadsStutter
            DEF ReadsNext
<1> QED BY <1>1, <1>2, PTL DEF ReadsSpec

\* populateSnapshotFieldStates: a field of a snapshot is said to be available if and only
\* if its value is in the snapshot, for every device and any number of calls.
THEOREM FieldsTruthful == ReadsSpec => []LeafTruthful
<1>1. ReadsInv => LeafTruthful
    BY DEF ReadsInv, JobSound, SnapshotSound, TruthfulFields, LeafTruthful, Snapshots
<1> QED BY <1>1, ReadsInvariant, PTL

\* The field states and the capabilities of a snapshot that nothing crossed agree, for
\* every device (DeviceSnapshotAssembler.Build and its valueState).
THEOREM FieldsAgree == ReadsSpec => []SnapshotAgrees
<1>1. ASSUME ReadsInv, NEW r \in Reader, job[r].call = "snapshot", job[r].code = "ok",
             job[r].alone, row.health = "connected", job[r].caps # NoEntries,
             NEW d \in Single \cap profile.reads
      PROVE  Agree(job[r].fields[d], job[r].caps[CapabilityOf(d)])
    BY <1>1 DEF ReadsInv, JobSound, SnapshotSound, AgreeingFields
<1>2. ReadsInv => SnapshotAgrees
    BY <1>1 DEF SnapshotAgrees, Snapshots, Agree
<1> QED BY <1>2, ReadsInvariant, PTL

\* GetDeviceStatus tells no status while a removal stands, also one between its two reads,
\* however many calls, removals and new pairings there are.
THEOREM StatusKnown == ReadsSpec => []StatusOfKnown
<1>1. ReadsInv => StatusOfKnown
    BY DEF ReadsInv, JobSound, StatusSound, StatusOfKnown
<1> QED BY <1>1, ReadsInvariant, PTL

================================================================================
