------------------------------ MODULE DeviceWrites ------------------------------
(***************************************************************************)
(* The acknowledged writes of the bridge: a Home Assistant write RPC is    *)
(* resolved to a remote entity, validated against the cached device data,  *)
(* sent as a SPINE write and answered once the device's ResultData is in   *)
(* or a timer has run out.  Six RPCs share that shape and differ in what   *)
(* they validate, whom they resolve, who refreshes the cache afterwards    *)
(* and whether the caller's context can end the wait.  They use different  *)
(* functions of the device, so one behaviour is about one of them, `kind`. *)
(*                                                                         *)
(* The SPINE stack and the device are outside src/ (external): messages    *)
(* on one connection stay in order, a lost connection drops them, and the  *)
(* device takes over only a write that its own current data allows.        *)
(***************************************************************************)
EXTENDS Naturals, Sequences

CONSTANTS
    Calls,          \* how many write RPCs are made
    Kind,           \* the write RPCs considered, a subset of AllKinds
    MaxChange,      \* how often the device changes its own data
    MaxEpoch        \* how often the connection is established

AllKinds == {"dhw_setpoint", "dhw_mode", "dhw_boost",
             "room_temperature", "room_mode", "compressor"}

ASSUME WritesAssumption ==
    Kind \subseteq AllKinds /\ Calls \in Nat /\ MaxChange \in Nat /\ MaxEpoch \in Nat

Call == 1 .. Calls          \* numbered in the order in which they come in

VARIABLES
    kind,           \* the RPC of this behaviour
    device,         \* [value, allowed]: what the device holds and lets be written
    cache,          \* the same as far as the remote feature cache knows it
    link,           \* [up, epoch, subscribed, offered]: the connection to the device
    asked,          \* whether the device has a read request to answer
    reports,        \* the replies and notifications on their way to the bridge
    wire,           \* [Call -> the value on its way to the device, or the result back]
    pc,             \* [Call -> where the RPC's goroutine is]
    entity,         \* [Call -> the connection epoch of the entity it resolved]
    wanted,         \* [Call -> the value it is about to write]
    inbox,          \* [Call -> the result in its buffered channel]
    told,           \* [Call -> what Home Assistant has been answered]
    takeovers,      \* history: [Call -> how often the device took its write over]
    author,         \* history: the call whose write the device's value comes from
    changes         \* how often the device changed its own data

vars == <<kind, device, cache, link, asked, reports, wire, pc, entity, wanted,
          inbox, told, takeovers, author, changes>>
call == <<pc, entity, wanted, inbox, told>>
peer == <<device, takeovers, author, changes>>
data == <<cache, asked, reports>>

Unknown == "unknown"
Nobody  == 0

Process == {"available", "scheduled", "running", "paused", "aborted"}

\* What a request may ask for ("v3" is never permitted); for the compressor it is
\* the state to bring about.
Requested ==
    CASE kind = "compressor" -> Process \ {"available"}
      [] kind = "dhw_boost"  -> {"v1", "v2"}
      [] OTHER               -> {"v2", "v3"}

\* The range, modes or permissions the device may offer; {} is "not writable".
Permitted == IF kind = "compressor" THEN {{}, {"paused", "aborted"}} ELSE {{}, {"v1", "v2"}}

Adapters == {"dhw_mode", "dhw_boost", "room_mode"}
Resolves == IF kind \in Adapters THEN "monitoring" ELSE "configuration"

\* The use cases the device may have negotiated; only the adapters need monitoring.
Offer == {{}, {"monitoring", "configuration"}}
            \cup (IF kind \in Adapters THEN {{"monitoring"}} ELSE {})

NoData == [value |-> Unknown, allowed |-> {Unknown}]
Known == cache.value # Unknown /\ cache.allowed # {Unknown}

-----------------------------------------------------------------------------
(* Validation against the cache.  Each operator yields the error the code  *)
(* returns, or "none".                                                     *)

InRange(v, error) ==
    IF cache.allowed = {} THEN "not_writable"
    ELSE IF v \notin cache.allowed THEN error ELSE "none"

\* readDHWSetpointState: value, identifier and a usable range, or nothing.
ReadDHWSetpointState == IF Known THEN "none" ELSE "data_unavailable"

DHWSetpointError(v) ==
    IF ReadDHWSetpointState # "none" THEN ReadDHWSetpointState ELSE InRange(v, "out_of_range")

RoomTemperatureError(v) ==
    IF Known THEN InRange(v, "out_of_range") ELSE "data_unavailable"

\* The adapter checks MRHSF's modes, the writer CRHSF's permission and modes.
RoomModeError(v) ==
    IF ~Known THEN "data_unavailable"
    ELSE IF cache.allowed # {} /\ v \notin cache.allowed THEN "invalid_mode"
    ELSE InRange(v, "invalid_mode")

DHWModeError(v) ==
    IF cache.allowed = {Unknown} THEN "data_unavailable" ELSE InRange(v, "invalid_mode")

\* Boost start and stop are permitted together or not at all; a value is on or off.
DHWBoostError(v) ==
    IF cache.allowed = {Unknown} THEN "data_unavailable"
    ELSE IF cache.allowed = {} THEN "not_writable" ELSE "none"

\* validateOHPCFAction; an absent permission reads as FALSE without an error.
CompressorError(v) ==
    LET from == [scheduled |-> {"available"}, paused |-> {"running"}, running |-> {"paused"},
                 aborted |-> {"scheduled", "running", "paused"}]
    IN  IF cache.value = Unknown THEN "data_unavailable"
        ELSE IF cache.value \notin from[v] THEN "not_writable"
        ELSE IF v \in {"paused", "aborted"} /\ v \notin cache.allowed THEN "not_writable"
        ELSE "none"

ValidationError(v) ==
    CASE kind = "dhw_setpoint"     -> DHWSetpointError(v)
      [] kind = "room_temperature" -> RoomTemperatureError(v)
      [] kind = "room_mode"        -> RoomModeError(v)
      [] kind = "dhw_mode"         -> DHWModeError(v)
      [] kind = "dhw_boost"        -> DHWBoostError(v)
      [] kind = "compressor"       -> CompressorError(v)

-----------------------------------------------------------------------------
(* The answer: sentinel errors become status codes, and Home Assistant     *)
(* tells "the device did not do it" from "nobody knows" by the code.       *)

mapUsecaseError(error) ==
    CASE error = "none"                                       -> "ok"
      [] error \in {"bad_request", "out_of_range", "invalid_mode"} -> "invalid_argument"
      [] error \in {"not_writable", "rejected"}               -> "failed_precondition"
      [] error = "entity_not_found"                           -> "not_found"
      [] error = "data_unavailable"                           -> "unavailable"
      [] error = "canceled"                                   -> "canceled"
      [] OTHER                                                -> "internal"

WriteValidationCodes == {"invalid_argument", "failed_precondition", "not_found"}

Answered(code) ==
    IF code = "ok" THEN "applied"
    ELSE IF code \in WriteValidationCodes THEN "refused" ELSE "unknown"

\* The handler of c returns; a caller that has given up does not hear of it.
Return(c, error) ==
    /\ pc' = [pc EXCEPT ![c] = "done"]
    /\ entity' = [entity EXCEPT ![c] = 0]
    /\ wanted' = [wanted EXCEPT ![c] = Unknown]
    /\ inbox' = [inbox EXCEPT ![c] = "none"]
    /\ told' = IF told[c] = "pending"
               THEN [told EXCEPT ![c] = Answered(mapUsecaseError(error))] ELSE told

Goto(c, step) == pc' = [pc EXCEPT ![c] = step] /\ UNCHANGED <<told, entity, wanted, inbox>>

-----------------------------------------------------------------------------
(* Connection and cache.                                                   *)

Init ==
    /\ kind \in Kind
    /\ device = [value |-> IF kind = "compressor" THEN "available" ELSE "v1",
                 allowed |-> IF kind = "compressor" THEN {"paused", "aborted"} ELSE {"v1", "v2"}]
    /\ cache = NoData
    /\ link = [up |-> FALSE, epoch |-> 0, subscribed |-> FALSE, offered |-> {}]
    /\ asked = FALSE
    /\ reports = <<>>
    /\ wire = [c \in Call |-> "none"]
    /\ pc = [c \in Call |-> "idle"]
    /\ entity = [c \in Call |-> 0]
    /\ wanted = [c \in Call |-> Unknown]
    /\ inbox = [c \in Call |-> "none"]
    /\ told = [c \in Call |-> "none"]
    /\ takeovers = [c \in Call |-> 0]
    /\ author = Nobody
    /\ changes = 0

\* The device is paired and its entities are added: subscribe, bind, Refresh.  A
\* refused subscription is only logged.
Connect ==
    /\ ~link.up
    /\ link.epoch < MaxEpoch
    /\ \E s \in BOOLEAN, offered \in Offer :
         link' = [up |-> TRUE, epoch |-> link.epoch + 1, subscribed |-> s, offered |-> offered]
    /\ cache' = NoData
    /\ asked' = TRUE
    /\ UNCHANGED <<kind, reports, wire, call, peer>>

\* The connection is lost with every message on it; the remote entities go with it.
Disconnect ==
    /\ link.up
    /\ link' = [link EXCEPT !.up = FALSE, !.offered = {}]
    /\ cache' = NoData
    /\ asked' = FALSE
    /\ reports' = <<>>
    /\ wire' = [c \in Call |-> IF wire[c] = "none" THEN "none" ELSE "lost"]
    /\ UNCHANGED <<kind, call, peer>>

\* A reply or notification updates the cache; new DHW descriptions or constraints
\* make the bridge read the setpoint list again.
HandleEvent ==
    /\ reports # <<>>
    /\ cache' = Head(reports)
    /\ asked' = (asked \/ (kind = "dhw_setpoint" /\ cache'.allowed # cache.allowed))
    /\ reports' = Tail(reports)
    /\ UNCHANGED <<kind, link, wire, call, peer>>

\* RefreshCompressorFlexibility, issued by a snapshot read (bound: one at a time).
RefreshCompressor ==
    /\ kind = "compressor"
    /\ "configuration" \in link.offered
    /\ ~asked /\ reports = <<>>
    /\ asked' = TRUE
    /\ UNCHANGED <<kind, cache, link, reports, wire, call, peer>>

-----------------------------------------------------------------------------
(* The device (external).                                                  *)

Notified(d) ==
    IF link.up /\ link.subscribed /\ d # device THEN Append(reports, d) ELSE reports

AnswerRead ==
    /\ asked
    /\ asked' = FALSE
    /\ reports' = Append(reports, device)
    /\ UNCHANGED <<kind, cache, link, wire, call, peer>>

\* Setpoints, descriptions and constraints are different functions of the device: the
\* first answer may have no more than the value.  (For the upstream use cases, data
\* that is not complete is an error like no data.)
AnswerPartly ==
    /\ kind = "dhw_setpoint"
    /\ asked /\ cache = NoData /\ reports = <<>>
    /\ reports' = <<[device EXCEPT !.allowed = {Unknown}]>>
    /\ UNCHANGED <<kind, cache, link, asked, wire, call, peer>>

\* Somebody at the device, or its own programme, changes a value or a permission: a
\* compressor process starts or ends by itself.
ChangeAtDevice ==
    /\ changes < MaxChange
    /\ changes' = changes + 1
    /\ \E d \in [value : IF kind = "compressor" THEN {"available", "running"} ELSE {"v1", "v2"},
                 allowed : Permitted] :
         /\ (d.value = device.value) # (d.allowed = device.allowed)
         /\ device' = d
         /\ author' = IF d.value # device.value THEN Nobody ELSE author
         /\ reports' = Notified(d)
    /\ UNCHANGED <<kind, cache, link, asked, wire, call, takeovers>>

\* The device takes a write over; nothing in it depends on what the bridge believed.
TakeOver(c) ==
    /\ wire[c] \in Requested
    /\ kind # "compressor" => wire[c] \in device.allowed
    /\ LET d == [device EXCEPT !.value = wire[c]] IN
         /\ device' = d
         /\ reports' = Notified(d)
    /\ takeovers' = [takeovers EXCEPT ![c] = @ + 1]
    /\ author' = c
    /\ wire' = [wire EXCEPT ![c] = "ok"]
    /\ UNCHANGED <<kind, cache, link, asked, call, changes>>

Reject(c) ==
    /\ wire[c] \in Requested
    /\ wire' = [wire EXCEPT ![c] = "rejected"]
    /\ UNCHANGED <<kind, data, link, call, peer>>

-----------------------------------------------------------------------------
(* The RPC handlers.  The three adapters resolve the monitoring entity     *)
(* first and the configuration entity of the same device when they write.  *)

\* requireWriteSKI and resolveCompatibleEntity.
Enter(c, wellFormed) ==
    LET error == IF ~wellFormed THEN "bad_request"
                 ELSE IF Resolves \notin link.offered THEN "entity_not_found" ELSE "none"
    IN  /\ pc[c] = "idle"
        /\ c > 1 => pc[c - 1] # "idle"
        /\ IF error # "none"
           THEN /\ pc' = [pc EXCEPT ![c] = "done"]
                /\ told' = [told EXCEPT ![c] = Answered(mapUsecaseError(error))]
                /\ UNCHANGED <<entity, wanted>>
           ELSE /\ pc' = [pc EXCEPT ![c] = "resolved"]
                /\ told' = [told EXCEPT ![c] = "pending"]
                /\ entity' = [entity EXCEPT ![c] = link.epoch]
                /\ \E v \in Requested : wanted' = [wanted EXCEPT ![c] = v]
        /\ UNCHANGED <<kind, data, link, wire, inbox, peer>>

SetDHWSetpoint(c) == kind = "dhw_setpoint" /\ \E ok \in BOOLEAN : Enter(c, ok)
SetDHWOperationMode(c) == kind = "dhw_mode" /\ \E ok \in BOOLEAN : Enter(c, ok)
SetDHWBoost(c) == kind = "dhw_boost" /\ \E ok \in BOOLEAN : Enter(c, ok)
SetRoomHeatingTemperature(c) == kind = "room_temperature" /\ \E ok \in BOOLEAN : Enter(c, ok)
SetRoomHeatingMode(c) == kind = "room_mode" /\ \E ok \in BOOLEAN : Enter(c, ok)
ControlCompressorFlexibility(c) == kind = "compressor" /\ \E ok \in BOOLEAN : Enter(c, ok)

Current(c) == link.up /\ entity[c] = link.epoch

\* A use case asked about the entity of a lost connection reads what is left of
\* its cache, or says that it has no such entity.
StaleErrors == {"none", "data_unavailable", "not_writable"}

Check(c, error) ==
    /\ IF error = "none" THEN Goto(c, "checked") ELSE Return(c, error)
    /\ UNCHANGED <<kind, data, link, wire, peer>>

\* The direct use cases validate the entity they were given.
CheckDirect(c) ==
    /\ kind \notin Adapters
    /\ pc[c] = "resolved"
    /\ \E error \in IF Current(c) THEN {ValidationError(wanted[c])} ELSE StaleErrors :
         Check(c, error)

\* The adapters look the configuration entity up by SKI: it may be newer than the
\* monitoring entity, which SetRoomHeatingMode reads as well.
CheckAdapter(c) ==
    /\ kind \in Adapters
    /\ pc[c] = "resolved"
    /\ IF "configuration" \notin link.offered THEN Check(c, "not_writable")
       ELSE LET error == ValidationError(wanted[c]) IN
            \/ /\ error = "none"
               /\ pc' = [pc EXCEPT ![c] = "checked"]
               /\ entity' = [entity EXCEPT ![c] = link.epoch]
               /\ UNCHANGED <<kind, data, link, wire, wanted, inbox, told, peer>>
            \/ error # "none" /\ Check(c, error)
            \/ kind = "room_mode" /\ ~Current(c) /\ Check(c, "data_unavailable")

\* Sender.Write.  On a lost connection it fails or the message is never delivered.
Send(c, next) ==
    /\ pc[c] = "checked"
    /\ IF Current(c)
       THEN wire' = [wire EXCEPT ![c] = wanted[c]]
       ELSE wire' = [wire EXCEPT ![c] = "lost"]
    /\ pc' = [pc EXCEPT ![c] = next]
    /\ wanted' = [wanted EXCEPT ![c] = Unknown]
    /\ UNCHANGED <<kind, data, link, entity, inbox, told, peer>>

SendFails(c) ==
    /\ pc[c] = "checked"
    /\ ~Current(c)
    /\ Return(c, "send_failed")
    /\ UNCHANGED <<kind, data, link, wire, peer>>

\* The whole setpoint list is sent first and the callback added afterwards.
WriteDHWSetpointValue(c) == kind = "dhw_setpoint" /\ Send(c, "written")

AddResponseCallback(c) ==
    /\ pc[c] = "written"
    /\ Goto(c, "waiting")
    /\ UNCHANGED <<kind, data, link, wire, peer>>

\* The upstream clients check again before they send (external): data that went
\* away or a permission withdrawn since the validation ends the call there.
WriteUpstream(c) ==
    /\ kind # "dhw_setpoint"
    /\ Send(c, "waiting")

mapUpstreamWriteError(c) ==
    /\ kind # "dhw_setpoint"
    /\ pc[c] = "checked"
    /\ \E error \in {"data_unavailable", "not_writable"} :
         /\ ~Current(c) \/ ValidationError(wanted[c]) # "none"
         /\ Return(c, error)
    /\ UNCHANGED <<kind, data, link, wire, peer>>

\* The stack hands a result to the callback of its message counter; one that
\* comes before the callback is dropped, one after the RPC's end is read by nobody.
\* The upstream clients read the written data again before they pass an accepted
\* result on (external).
DeliverResult(c) ==
    /\ wire[c] \in {"ok", "rejected"}
    /\ wire' = [wire EXCEPT ![c] = "lost"]
    /\ inbox' = IF pc[c] = "waiting" THEN [inbox EXCEPT ![c] = wire[c]] ELSE inbox
    /\ asked' = IF kind \notin {"dhw_setpoint", "compressor"} /\ wire[c] = "ok"
                THEN TRUE ELSE asked
    /\ UNCHANGED <<kind, cache, reports, link, pc, entity, wanted, told, peer>>

-----------------------------------------------------------------------------
(* Waiting for the device's result.                                        *)

\* mutant: whatever result is in, the write was sent
ResultIgnored(c) == "none"

ResultError(c) == IF inbox[c] = "ok" THEN "none" ELSE "rejected"

AwaitResult(c) ==
    /\ pc[c] = "waiting"
    /\ inbox[c] # "none"
    /\ Return(c, ResultError(c))
    /\ UNCHANGED <<kind, link, wire, cache, reports, peer>>

\* mutant: the setpoint is not read again after the write
AwaitDHWSetpointOnly(c) == kind = "dhw_setpoint" /\ AwaitResult(c) /\ UNCHANGED asked

\* After an accepted write the setpoint list is requested from the entity's device.
AwaitDHWSetpoint(c) ==
    /\ kind = "dhw_setpoint"
    /\ AwaitResult(c)
    /\ asked' = IF inbox[c] = "ok" /\ Current(c) THEN TRUE ELSE asked

AwaitUpstream(c) ==
    /\ kind # "dhw_setpoint"
    /\ AwaitResult(c)
    /\ UNCHANGED asked

\* ctx.Done(): the caller has given up.  The compressor's wait has no context.
AwaitCanceled(c) ==
    /\ kind # "compressor"
    /\ pc[c] = "waiting"
    /\ told[c] # "pending"
    /\ Return(c, "canceled")
    /\ UNCHANGED <<kind, data, link, wire, peer>>

\* mutant: the wait for the compressor's result has no timer
AwaitTimeoutOnContext(c) ==
    /\ kind # "compressor"
    /\ pc[c] = "waiting"
    /\ Return(c, "timed_out")
    /\ UNCHANGED <<kind, data, link, wire, peer>>

\* Ten seconds without a result.
AwaitTimeout(c) ==
    /\ pc[c] = "waiting"
    /\ Return(c, "timed_out")
    /\ UNCHANGED <<kind, data, link, wire, peer>>

\* Home Assistant's own deadline for the RPC; only the wait takes time.
GiveUp(c) ==
    /\ pc[c] = "waiting"
    /\ told[c] = "pending"
    /\ told' = [told EXCEPT ![c] = "unknown"]
    /\ UNCHANGED <<kind, data, link, wire, pc, entity, wanted, inbox, peer>>

-----------------------------------------------------------------------------
Submit(c) ==
    \/ SetDHWSetpoint(c) \/ SetDHWOperationMode(c) \/ SetDHWBoost(c)
    \/ SetRoomHeatingTemperature(c) \/ SetRoomHeatingMode(c)
    \/ ControlCompressorFlexibility(c)

Handler(c) ==
    \/ CheckDirect(c) \/ CheckAdapter(c)
    \/ WriteDHWSetpointValue(c) \/ AddResponseCallback(c)
    \/ WriteUpstream(c) \/ SendFails(c) \/ mapUpstreamWriteError(c)
    \/ AwaitDHWSetpoint(c) \/ AwaitUpstream(c) \/ AwaitCanceled(c) \/ AwaitTimeout(c)

Next ==
    \/ Connect \/ Disconnect \/ HandleEvent \/ RefreshCompressor
    \/ AnswerRead \/ AnswerPartly \/ ChangeAtDevice
    \/ \E c \in Call : \/ TakeOver(c) \/ Reject(c) \/ DeliverResult(c)
                       \/ Submit(c) \/ Handler(c) \/ GiveUp(c)

Spec == Init /\ [][Next]_vars

\* The goroutines run, and a device that is connected answers what it is asked.
Fairness ==
    /\ WF_vars(HandleEvent)
    /\ WF_vars(AnswerRead)
    /\ \A c \in Call : WF_vars(Handler(c))

FairSpec == Spec /\ Fairness

-----------------------------------------------------------------------------
(* Properties.                                                             *)

\* Every RPC keeps what WriteContract promises its caller: a write is answered as
\* applied only if the device took it over, and as refused only if it never does,
\* whatever is lost, late, cancelled or retried.
Contract == INSTANCE WriteContract WITH answer <- told, takeovers <- takeovers

ContractKept == Contract!Spec

\* A write reported as applied shows in the bridge's cache in the end, even when the
\* device sends no notifications: as long as its value is the device's and the
\* connection lasts, the cache does not stay behind.  The compressor is left out:
\* only a snapshot read refreshes it.
AppliedIsShown ==
    []<>(\/ kind = "compressor" \/ ~link.up
         \/ author = Nobody \/ told[author] # "applied"
         \/ cache.value = device.value)

\* No RPC hangs: every one that is entered ends, whatever the device does.
Busy == \E c \in Call : pc[c] \notin {"idle", "done"}
EveryCallEnds == []<>~Busy

=============================================================================
