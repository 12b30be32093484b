------------------------------ MODULE StateStore ------------------------------
(***************************************************************************)
(* Home Assistant's authoritative device state: DeviceStateStore and       *)
(* reduce_observation in state.py, with the observations that reach it     *)
(* from the streams (device_streams.py) and from the poll (snapshot.py).   *)
(*                                                                         *)
(* Both take time.  A poll remembers the store's revision when it begins,  *)
(* reads the bridge, and is reduced when the answer is in.  An event's     *)
(* payload is read when the bridge converts it, travels, and is reduced in *)
(* the order of its stream; a poll may overtake it or be overtaken.        *)
(* Revisions are compared with the base of the one poll in flight only, so *)
(* the model keeps the set of leaves whose field_revisions entry is above  *)
(* that base (newer) instead of numbers.                                   *)
(***************************************************************************)
EXTENDS Naturals, Sequences

CONSTANTS
    Leaf,          \* StateField members
    Capability,    \* CapabilityKey members
    CapabilityOf,  \* _FIELD_CAPABILITY: [Leaf -> Capability \cup {Ungated}]
    Ungated,       \* no capability gates the leaf
    Profiles,      \* what a bridge may offer: "snapshot", "capabilities", "legacy"
    Stream,        \* the calls a client may iterate
    Consolidated,  \* SubscribeDeviceState
    LegacyStreams, \* [Leaf -> SUBSET Stream]: which carry it without that one
    WireCapacity,  \* bound of the model on what one stream has in flight
    Absent,        \* Python None
    MaxVersion     \* bound of the model: the first leaf to reach it is the
                   \* last to change

ASSUME CapabilityOfAssumption ==
    CapabilityOf \in [Leaf -> Capability \cup {Ungated}] /\ Ungated \notin Capability
ASSUME ProfileAssumption == Profiles \subseteq {"snapshot", "capabilities", "legacy"}
ASSUME StreamAssumption == Consolidated \in Stream /\ LegacyStreams \in [Leaf -> SUBSET Stream]
ASSUME VersionAssumption == MaxVersion \in Nat /\ Absent \notin Nat

VARIABLES
    profile,     \* the bridge: what it offers, aggregate snapshots, capabilities or neither
    truth,       \* the bridge: [Leaf -> version of its present value]
    support,     \* the bridge: [Capability -> CapState]
    online,      \* the bridge: ungated leaves can be read
    value,       \* the store: [Leaf -> version or Absent]
    fresh,       \* DeviceState.fresh_fields
    capability,  \* DeviceState.capabilities
    contract,    \* DeviceState.explicit_capability_contract
    newer,       \* leaves with field_revisions above the poll's base_revision
    wire,        \* [Stream -> Seq of observations]: read and not yet reduced
    poll,        \* "idle" | "sent" | "answered"
    answer,      \* the observation the poll has built
    changed      \* history: the bridge changed since the poll began

bridgeVars == <<profile, truth, support, online>>
storeVars == <<value, fresh, capability, contract, newer>>
pollVars == <<poll, answer, changed>>
vars == <<bridgeVars, storeVars, wire, pollVars>>

CapState == {"unknown", "available", "temporarily_unavailable", "unsupported"}
Version == 0..MaxVersion

\* A CapabilityResult: a gRPC status ("ok" is None), explicit_support, and the
\* state the bridge stated, if it did.
NoState == "none"
Result == [status : {"ok", "unimplemented", "unavailable", "unknown", "other"},
           supports : BOOLEAN, state : CapState \cup {NoState}]
Stated(state) == [status |-> "ok", supports |-> TRUE, state |-> state]
Inferred(status) == [status |-> status, supports |-> FALSE, state |-> NoState]

\* A StateObservation.  contract is its explicit_capability_contract, "inherit"
\* for None; based says whether it has a base_revision.
NoResult == <<>>
Observation(reading, unavailable, results, newContract, based) ==
    [reading |-> reading, unavailable |-> unavailable, results |-> results,
     contract |-> newContract, based |-> based]
Nothing == Observation(<<>>, {}, NoResult, "inherit", FALSE)

-----------------------------------------------------------------------------
(* reduce_observation                                                      *)

\* next_capability_state.
NextCapabilityState(current, result) ==
    CASE result.state # NoState -> result.state
      [] result.state = NoState /\ current = "unsupported" /\ ~result.supports -> current
      [] result.state = NoState /\ result.supports /\ result.status = "unknown" -> "unknown"
      [] OTHER ->
            CASE result.status = "ok" -> "available"
              [] result.status = "unimplemented" -> "unsupported"
              [] result.status = "unavailable" -> "temporarily_unavailable"
              [] OTHER -> current

Fields(c) == {l \in Leaf : CapabilityOf[l] = c}

Explicit(o) == o.contract = "explicit" \/ (o.contract = "inherit" /\ contract)

NewerForgotten(o) == {}  \* mutant: base_revision is not looked at
Newer(o) == IF o.based THEN newer ELSE {}

\* The capability state an observed leaf is held against.
ContractState(o, c) ==
    IF c \in DOMAIN o.results /\ o.results[c].state # NoState
    THEN o.results[c].state ELSE capability[c]

AdmittedAlways(o, l) == TRUE  \* mutant: the contract does not gate leaves
Admitted(o, l) ==
    Explicit(o) /\ CapabilityOf[l] # Ungated
        => ContractState(o, CapabilityOf[l]) = "available"

Taken(o) == {l \in DOMAIN o.reading \ Newer(o) : Admitted(o, l)}
Withheld(o) == (DOMAIN o.reading \ Newer(o)) \ Taken(o)
LostKept(o) == {}  \* mutant: an unavailable leaf keeps its freshness
Lost(o) == o.unavailable \ Newer(o)

\* By now the revisions of the leaves above have been raised, so an observation
\* with a base finds its own leaves newer than its base.
NewerThanSelf(o) == IF o.based THEN newer \cup Taken(o) \cup Lost(o) ELSE {}

\* mutant: stated results are also held against the leaves' revisions
AppliedUnlessNewer(o) == {c \in DOMAIN o.results : Fields(c) \cap NewerThanSelf(o) = {}}
Applied(o) ==
    {c \in DOMAIN o.results :
        \/ o.results[c].state # NoState
        \/ ~Explicit(o) /\ Fields(c) \cap NewerThanSelf(o) = {}}

Reduced(o, c) == NextCapabilityState(capability[c], o.results[c])

Cleared(o) ==
    {l \in Leaf : CapabilityOf[l] \in Applied(o) /\ Reduced(o, CapabilityOf[l]) = "unsupported"}

StaledNone(o) == {}  \* mutant: a withdrawn capability keeps its leaves fresh
Staled(o) ==
    {l \in Leaf :
        /\ CapabilityOf[l] \in Applied(o)
        /\ LET c == CapabilityOf[l]
           IN  \/ Reduced(o, c) = "temporarily_unavailable"
               \/ /\ Reduced(o, c) # "unsupported"
                  /\ o.results[c].supports /\ o.results[c].state = NoState}

\* The leaves whose field_revisions entry the observation sets.
Written(o) == Taken(o) \cup Lost(o) \cup Cleared(o) \cup Staled(o)

Reduce(o) ==
    /\ value' = [l \in Leaf |-> IF l \in Cleared(o) THEN Absent
                                ELSE IF l \in Taken(o) THEN o.reading[l] ELSE value[l]]
    /\ fresh' = (((fresh \ Withheld(o)) \cup Taken(o)) \ Lost(o)) \ (Cleared(o) \cup Staled(o))
    /\ capability' = [c \in Capability |-> IF c \in Applied(o) THEN Reduced(o, c)
                                           ELSE capability[c]]
    /\ contract' = Explicit(o)

-----------------------------------------------------------------------------
(* The bridge, and what it answers.                                        *)

Readable(l) ==
    IF CapabilityOf[l] = Ungated THEN online ELSE support[CapabilityOf[l]] = "available"

StatusOf(state) ==
    CASE state = "available" -> "ok"
      [] state = "temporarily_unavailable" -> "unavailable"
      [] state = "unsupported" -> "unimplemented"
      [] OTHER -> "other"

ReadAll == [l \in {k \in Leaf : Readable(k)} |-> truth[l]]
Unreadable == {l \in Leaf : ~Readable(l)}
StatedSupport == [c \in Capability |-> Stated(support[c])]
InferredSupport == [c \in Capability |-> Inferred(StatusOf(support[c]))]

\* GetDeviceSnapshot, as a poll or as the stream's initial envelope.
Snapshot(based) == Observation(ReadAll, Unreadable, StatedSupport, "explicit", based)

\* async_build_snapshot: the leaves one by one, with the capabilities read if
\* the bridge has the call and it succeeds, or else inferred from each status.
Compatible == Observation(ReadAll, Unreadable, InferredSupport, "inferred", TRUE)

PollAnswer ==
    CASE profile = "snapshot" -> {Snapshot(TRUE)}
      [] profile = "capabilities" -> {Snapshot(TRUE), Compatible}
      [] OTHER -> {Compatible}

Init ==
    /\ profile \in Profiles
    /\ truth = [l \in Leaf |-> 0]
    /\ support = [c \in Capability |-> "unknown"]
    /\ online = FALSE
    /\ value = [l \in Leaf |-> Absent]
    /\ fresh = {}
    /\ capability = [c \in Capability |-> "unknown"]
    /\ contract = FALSE
    /\ newer = {}
    /\ wire = [s \in Stream |-> <<>>]
    /\ poll = "idle"
    /\ answer = Nothing
    /\ changed = FALSE

Noticed == changed' = (poll # "idle")

Change(l) ==
    /\ \A k \in Leaf : truth[k] < MaxVersion
    /\ truth' = [truth EXCEPT ![l] = @ + 1]
    /\ Noticed
    /\ UNCHANGED <<profile, support, online, storeVars, wire, poll, answer>>

ChangeSupport(c) ==
    /\ \E state \in CapState \ {support[c]} : support' = [support EXCEPT ![c] = state]
    /\ Noticed
    /\ UNCHANGED <<profile, truth, online, storeVars, wire, poll, answer>>

ChangeOnline ==
    /\ online' = ~online
    /\ Noticed
    /\ UNCHANGED <<profile, truth, support, storeVars, wire, poll, answer>>

-----------------------------------------------------------------------------
(* Stream events: the bridge reads the payload when it converts the event,  *)
(* and the client reduces it when its turn comes.                          *)

\* One ordered stream, or one for each domain: two of these may carry a leaf.
StreamsOf(l) == IF profile = "legacy" THEN LegacyStreams[l] ELSE {Consolidated}

Send(s, o) ==
    /\ Len(wire[s]) < WireCapacity
    /\ wire' = [wire EXCEPT ![s] = Append(@, o)]
    /\ UNCHANGED <<bridgeVars, storeVars, pollVars>>

ResultFor(l, result) ==
    IF CapabilityOf[l] = Ungated THEN NoResult ELSE [c \in {CapabilityOf[l]} |-> result]

\* A delta with a payload, for handle_lpc_event and its siblings.
Delta(l) ==
    /\ Readable(l)
    /\ \E s \in StreamsOf(l) :
        Send(s, Observation([k \in {l} |-> truth[k]], {}, ResultFor(l, Inferred("ok")),
                            "inherit", FALSE))

\* A delta the bridge could not read the payload of: stated by the consolidated
\* stream, inferred by the per-domain handlers.
Unavailability(l) ==
    /\ ~Readable(l)
    /\ LET withdrawn == IF CapabilityOf[l] # Ungated /\ support[CapabilityOf[l]] = "unsupported"
                        THEN "unsupported" ELSE "temporarily_unavailable"
           result == IF profile = "legacy" THEN Inferred("unavailable")
                     ELSE [Stated(withdrawn) EXCEPT !.supports = FALSE]
       IN  \E s \in StreamsOf(l) :
               Send(s, Observation(<<>>, {l}, ResultFor(l, result), "inherit", FALSE))

\* _support_changed.
SupportChanged(c) ==
    \E l \in Fields(c) : \E s \in StreamsOf(l) :
        Send(s, Observation(<<>>, {},
                            [k \in {c} |-> [status |-> "unknown", supports |-> TRUE, state |-> NoState]],
                            "inherit", FALSE))

\* The consolidated stream's capability envelope.
CapabilityEvent ==
    /\ profile # "legacy"
    /\ Send(Consolidated, Observation(<<>>, {}, StatedSupport, "explicit", FALSE))

\* A stream breaks and is opened again: what was in flight is lost.  The consolidated
\* stream begins with a snapshot, unless the bridge could not build one.
Reopen(s) ==
    /\ \/ wire' = [wire EXCEPT ![s] = <<>>]
       \/ profile = "snapshot" /\ s = Consolidated /\ wire' = [wire EXCEPT ![s] = <<Snapshot(FALSE)>>]
    /\ UNCHANGED <<bridgeVars, storeVars, pollVars>>

Dispatch(o) ==
    /\ Reduce(o)
    /\ newer' = IF poll = "idle" THEN {} ELSE newer \cup Written(o)
    /\ UNCHANGED <<bridgeVars, pollVars>>

Deliver(s) ==
    /\ wire[s] # <<>>
    /\ wire' = [wire EXCEPT ![s] = Tail(@)]
    /\ Dispatch(Head(wire[s]))

-----------------------------------------------------------------------------
(* DevicePoller.poll                                                       *)

PollBegin ==
    /\ poll = "idle"
    /\ poll' = "sent"
    /\ UNCHANGED <<bridgeVars, storeVars, wire, answer, changed>>

PollRead ==
    /\ poll = "sent"
    /\ poll' = "answered"
    /\ answer' \in PollAnswer
    /\ UNCHANGED <<bridgeVars, storeVars, wire, changed>>

PollDone == poll' = "idle" /\ answer' = Nothing /\ changed' = FALSE

PollApply ==
    /\ poll = "answered"
    /\ Reduce(answer)
    /\ newer' = {}
    /\ PollDone
    /\ UNCHANGED <<bridgeVars, wire>>

PollFail ==
    /\ poll = "sent"
    /\ PollDone
    /\ newer' = {}
    /\ UNCHANGED <<bridgeVars, value, fresh, capability, contract, wire>>

Next ==
    \/ \E l \in Leaf : Change(l) \/ Delta(l) \/ Unavailability(l)
    \/ \E c \in Capability : ChangeSupport(c) \/ SupportChanged(c)
    \/ \E s \in Stream : Reopen(s) \/ Deliver(s)
    \/ ChangeOnline \/ CapabilityEvent
    \/ PollBegin \/ PollRead \/ PollApply \/ PollFail

Spec == Init /\ [][Next]_vars

-----------------------------------------------------------------------------

\* Against a bridge with aggregate snapshots, a capability the store shows as
\* unsupported shows no value for its leaves, whichever of a poll, a delta and a
\* capability statement came last (reduce_observation).
UnsupportedHasNoValue ==
    profile = "snapshot" => \A l \in Leaf :
        CapabilityOf[l] # Ungated /\ capability[CapabilityOf[l]] = "unsupported"
            => value[l] = Absent /\ l \notin fresh

\* Against such a bridge a capability the store shows as temporarily unavailable
\* has no fresh leaf.
UnavailableIsNotFresh ==
    profile = "snapshot" => \A l \in Leaf :
        CapabilityOf[l] # Ungated /\ capability[CapabilityOf[l]] = "temporarily_unavailable"
            => l \notin fresh

Applying == poll = "answered" /\ poll' = "idle"

\* A poll never takes a leaf back to an older value, although its answer may be older
\* than the deltas reduced since it was read, late ones among them (poll, is_newer).  The
\* converse does not hold: a delta has no base revision, and one that a poll overtook takes
\* back what the poll brought, until the next one of its stream (see DeviceStateStream).
NoRegression ==
    [][Applying => \A l \in Leaf :
        value[l] # Absent /\ value'[l] # Absent => value'[l] >= value[l]]_vars

\* A poll the bridge did not change under leaves each leaf that no delta
\* overtook as the bridge has it.
LeavesRepaired ==
    [][Applying /\ ~changed
        => \A l \in Leaf \ newer : IF Readable(l) THEN l \in fresh' /\ value'[l] = truth[l]
                                   ELSE l \notin fresh']_vars

\* The same of the capabilities against a bridge with aggregate snapshots: the
\* poll settles what the bridge supports.
SupportRepaired ==
    [][profile = "snapshot" /\ Applying /\ ~changed
        => \A c \in Capability : capability'[c] = support[c]]_vars

=============================================================================
