-------------------------- MODULE StateStoreProofs --------------------------
(***************************************************************************)
(* Proofs about StateStore for any leaves, capabilities, gating and        *)
(* versions.                                                               *)
(*                                                                         *)
(* The first part is about the store against a bridge that answers polls   *)
(* with one aggregate snapshot.  UnsupportedHasNoValue and                 *)
(* UnavailableIsNotFresh are kept by an observation only if it is          *)
(* Accountable: for every gated leaf it brings it either states the        *)
(* capabilities, or infers the leaf's own and has no base revision to be   *)
(* held against.  What a stream carries is, however late it is reduced     *)
(* (Sent); a poll that infers is not, as its results are never applied     *)
(* (NewerThanSelf), hence the restriction.                                 *)
(*                                                                         *)
(* The second part is about every bridge: what a poll may overwrite and    *)
(* what it repairs.                                                        *)
(***************************************************************************)
EXTENDS StateStore, TLAPS

Accountable(o) ==
    \A l \in DOMAIN o.reading :
        CapabilityOf[l] # Ungated
            => o.contract = "explicit" \/ (CapabilityOf[l] \in DOMAIN o.results /\ ~o.based)

\* What a stream may carry.
Sent ==
    {o \in [reading : UNION {[D -> Nat] : D \in SUBSET Leaf}, unavailable : SUBSET Leaf,
            results : UNION {[D -> Result] : D \in SUBSET Capability},
            contract : {"explicit", "inherit"}, based : {FALSE}] : Accountable(o)}

Types ==
    /\ truth \in [Leaf -> Nat] /\ support \in [Capability -> CapState]
    /\ wire \in [Stream -> Seq(Sent)]

\* The inductive invariant: an answered poll carries an accountable observation.
StoreInv ==
    /\ Types
    /\ UnsupportedHasNoValue
    /\ UnavailableIsNotFresh
    /\ profile = "snapshot" /\ poll = "answered" => Accountable(answer)

\* An accountable observation that does not settle the capability of a leaf does
\* not bring its value, unless the store has the capability as available.
LEMMA UnsettledNotTaken ==
    ASSUME NEW o, Accountable(o), NEW l \in Leaf, CapabilityOf[l] # Ungated,
           CapabilityOf[l] \notin Applied(o), capability[CapabilityOf[l]] # "available"
    PROVE  l \notin Taken(o)
<1> SUFFICES ASSUME l \in Taken(o) PROVE FALSE
    OBVIOUS
<1> DEFINE c == CapabilityOf[l]
<1>1. l \in DOMAIN o.reading /\ Admitted(o, l)
    BY DEF Taken
<1>2. CASE Explicit(o)
    <2>1. ContractState(o, c) = "available"
        BY <1>1, <1>2 DEF Admitted
    <2>2. c \in DOMAIN o.results /\ o.results[c].state # NoState
        BY <2>1 DEF ContractState
    <2> QED BY <2>2 DEF Applied
<1>3. CASE ~Explicit(o)
    <2>1. c \in DOMAIN o.results /\ ~o.based
        BY <1>1, <1>3 DEF Accountable, Explicit
    <2>2. NewerThanSelf(o) = {}
        BY <2>1 DEF NewerThanSelf
    <2> QED BY <1>3, <2>1, <2>2 DEF Applied
<1> QED BY <1>2, <1>3

\* Reducing an accountable observation keeps unsupported capabilities empty and
\* unavailable ones stale.
LEMMA ReduceKeeps ==
    ASSUME UnsupportedHasNoValue, UnavailableIsNotFresh,
           NEW o, Accountable(o), Reduce(o), UNCHANGED profile
    PROVE  UnsupportedHasNoValue' /\ UnavailableIsNotFresh'
<1> SUFFICES ASSUME profile = "snapshot", NEW l \in Leaf, CapabilityOf[l] # Ungated
             PROVE  /\ capability'[CapabilityOf[l]] = "unsupported"
                        => value'[l] = Absent /\ l \notin fresh'
                    /\ capability'[CapabilityOf[l]] = "temporarily_unavailable"
                        => l \notin fresh'
    BY DEF UnsupportedHasNoValue, UnavailableIsNotFresh
<1> DEFINE c == CapabilityOf[l]
<1>1. c \in Capability
    BY CapabilityOfAssumption
<1>2. /\ value'[l] = IF l \in Cleared(o) THEN Absent
                     ELSE IF l \in Taken(o) THEN o.reading[l] ELSE value[l]
      /\ fresh' = (((fresh \ Withheld(o)) \cup Taken(o)) \ Lost(o)) \ (Cleared(o) \cup Staled(o))
      /\ capability'[c] = IF c \in Applied(o) THEN Reduced(o, c) ELSE capability[c]
    BY <1>1 DEF Reduce
<1>3. CASE c \in Applied(o)
    <2>1. Reduced(o, c) = "unsupported" => l \in Cleared(o)
        BY <1>3 DEF Cleared
    <2>2. Reduced(o, c) = "temporarily_unavailable" => l \in Staled(o)
        BY <1>3 DEF Staled
    <2> QED BY <1>2, <1>3, <2>1, <2>2
<1>4. CASE c \notin Applied(o)
    <2>1. capability'[c] = capability[c]
        BY <1>2, <1>4
    <2>2. capability[c] # "available" => l \notin Taken(o)
        BY <1>4, UnsettledNotTaken
    <2>3. capability[c] = "unsupported" => value[l] = Absent /\ l \notin fresh
        BY DEF UnsupportedHasNoValue
    <2>4. capability[c] = "temporarily_unavailable" => l \notin fresh
        BY DEF UnavailableIsNotFresh
    <2> QED BY <1>2, <2>1, <2>2, <2>3, <2>4
<1> QED BY <1>3, <1>4

-----------------------------------------------------------------------------
(* What the streams carry.                                                 *)

\* What the bridge has when the observation is read.
Current(o) == \A l \in DOMAIN o.reading : l \in Leaf /\ o.reading[l] = truth[l]

\* An event of the bridge: an observation of what it has now is put on a stream.
Sending == \E s \in Stream, o \in Sent : Current(o) /\ Send(s, o)

\* A leaf's events go by a stream.
LEMMA StreamsOfStream == ASSUME NEW l \in Leaf PROVE StreamsOf(l) \subseteq Stream
BY StreamAssumption DEF StreamsOf

\* A result for at most the capability of a leaf.
LEMMA ResultForForm ==
    ASSUME NEW l \in Leaf, NEW result \in Result
    PROVE  /\ ResultFor(l, result) \in UNION {[D -> Result] : D \in SUBSET Capability}
           /\ CapabilityOf[l] # Ungated => CapabilityOf[l] \in DOMAIN ResultFor(l, result)
<1>1. CASE CapabilityOf[l] = Ungated
  <2>1. ResultFor(l, result) = <<>> /\ <<>> \in [{} -> Result]
      BY <1>1 DEF ResultFor, NoResult
  <2>2. QED
      BY <1>1, <2>1
<1>2. CASE CapabilityOf[l] # Ungated
  <2>1. {CapabilityOf[l]} \in SUBSET Capability
      BY <1>2, CapabilityOfAssumption
  <2>2. ResultFor(l, result) \in [{CapabilityOf[l]} -> Result]
      BY <1>2 DEF ResultFor
  <2>3. QED
      BY <2>1, <2>2
<1>3. QED
    BY <1>1, <1>2

\* An event without a value may be sent, and brings what the bridge has.
LEMMA ValuelessSent ==
    ASSUME NEW unavailable \in SUBSET Leaf, NEW newContract \in {"explicit", "inherit"},
           NEW results \in UNION {[D -> Result] : D \in SUBSET Capability}
    PROVE  LET o == Observation(<<>>, unavailable, results, newContract, FALSE)
           IN  o \in Sent /\ Current(o)
<1>1. DOMAIN <<>> = {} /\ <<>> \in [{} -> Nat]
    OBVIOUS
<1>2. <<>> \in UNION {[D -> Nat] : D \in SUBSET Leaf}
    BY <1>1
<1>3. QED
    BY <1>1, <1>2 DEF Sent, Accountable, Observation, Current

\* The results that an event states or infers.
LEMMA ResultForms ==
    /\ \A status \in {"ok", "unavailable"} : Inferred(status) \in Result
    /\ \A state \in CapState : Stated(state) \in Result /\ [Stated(state) EXCEPT !.supports = FALSE] \in Result
    /\ [status |-> "unknown", supports |-> TRUE, state |-> NoState] \in Result
BY DEF Inferred, Stated, Result, NoState

\* A bridge reads what it sends at the moment of sending it.
LEMMA EventSent ==
    ASSUME Types,
           \/ \E l \in Leaf : Delta(l) \/ Unavailability(l)
           \/ \E c \in Capability : SupportChanged(c)
           \/ CapabilityEvent
    PROVE  Sending
<1>1. ASSUME NEW l \in Leaf, Delta(l) PROVE Sending
  <2> DEFINE o == Observation([k \in {l} |-> truth[k]], {}, ResultFor(l, Inferred("ok")), "inherit", FALSE)
  <2>1. PICK s \in Stream : Send(s, o)
      BY <1>1, StreamsOfStream DEF Delta
  <2>2. ResultFor(l, Inferred("ok")) \in UNION {[D -> Result] : D \in SUBSET Capability}
        /\ (CapabilityOf[l] # Ungated => CapabilityOf[l] \in DOMAIN ResultFor(l, Inferred("ok")))
      BY ResultForms, ResultForForm
  <2>3. [k \in {l} |-> truth[k]] \in [{l} -> Nat] /\ {l} \in SUBSET Leaf
      BY DEF Types
  <2>4. [k \in {l} |-> truth[k]] \in UNION {[D -> Nat] : D \in SUBSET Leaf}
      BY <2>3
  <2>5. Accountable(o) /\ Current(o)
      BY <2>2 DEF Accountable, Current, Observation
  <2>6. o \in Sent
      BY <2>2, <2>4, <2>5 DEF Sent, Observation
  <2>7. QED
      BY <2>1, <2>5, <2>6 DEF Sending
<1>2. ASSUME NEW l \in Leaf, Unavailability(l) PROVE Sending
  <2>1. PICK s \in Stream, result \in Result : Send(s, Observation(<<>>, {l}, ResultFor(l, result), "inherit", FALSE))
      BY <1>2, StreamsOfStream, ResultForms DEF Unavailability, CapState
  <2>2. QED
      BY <2>1, ValuelessSent, ResultForForm DEF Sending
<1>3. ASSUME NEW c \in Capability, SupportChanged(c) PROVE Sending
  <2> DEFINE results == [k \in {c} |-> [status |-> "unknown", supports |-> TRUE, state |-> NoState]]
  <2>1. PICK s \in Stream : Send(s, Observation(<<>>, {}, results, "inherit", FALSE))
      BY <1>3, StreamsOfStream DEF SupportChanged, Fields
  <2>2. results \in [{c} -> Result] /\ {c} \in SUBSET Capability
      BY ResultForms
  <2>3. results \in UNION {[D -> Result] : D \in SUBSET Capability}
      BY <2>2
  <2>4. QED
      BY <2>1, <2>3, ValuelessSent DEF Sending
<1>4. CASE CapabilityEvent
  <2>1. StatedSupport \in [Capability -> Result]
      BY ResultForms DEF Types, StatedSupport
  <2>2. StatedSupport \in UNION {[D -> Result] : D \in SUBSET Capability}
      BY <2>1
  <2>3. QED
      BY <1>4, <2>2, ValuelessSent, StreamAssumption DEF CapabilityEvent, Sending
<1>5. QED
    BY <1>1, <1>2, <1>3, <1>4

\* A poll and a new stream read the readable leaves as the bridge has them.
LEMMA ReadAllIsTruth ==
    /\ DOMAIN ReadAll = {l \in Leaf : Readable(l)}
    /\ \A l \in DOMAIN ReadAll : ReadAll[l] = truth[l]
BY DEF ReadAll

\* A new stream begins with what may be sent.
LEMMA SnapshotSent == ASSUME Types PROVE Snapshot(FALSE) \in Sent /\ Current(Snapshot(FALSE))
<1>1. ReadAll \in [{l \in Leaf : Readable(l)} -> Nat] /\ {l \in Leaf : Readable(l)} \in SUBSET Leaf
    BY DEF ReadAll, Types
<1>2. ReadAll \in UNION {[D -> Nat] : D \in SUBSET Leaf}
    BY <1>1
<1>3. StatedSupport \in [Capability -> Result]
    BY ResultForms DEF Types, StatedSupport
<1>4. StatedSupport \in UNION {[D -> Result] : D \in SUBSET Capability}
    BY <1>3
<1>5. Unreadable \in SUBSET Leaf
    BY DEF Unreadable
<1>6. QED
    BY <1>2, <1>4, <1>5, ReadAllIsTruth DEF Sent, Snapshot, Observation, Accountable, Current

\* A sequence of one element.
LEMMA OneElement ==
    ASSUME NEW S, NEW o \in S PROVE <<o>> \in Seq(S) /\ \A i \in DOMAIN <<o>> : <<o>>[i] = o
OBVIOUS

\* What a step does to the streams: each entry was on its stream before or is read now.
LEMMA WireStep ==
    ASSUME Types, [Next]_vars
    PROVE  /\ wire' \in [Stream -> Seq(Sent)]
           /\ \A s \in Stream : \A i \in DOMAIN wire'[s] :
                \/ \E j \in DOMAIN wire[s] : wire'[s][i] = wire[s][j]
                \/ Current(wire'[s][i])
<1>1. CASE UNCHANGED wire
    BY <1>1 DEF Types
<1>2. CASE Sending
  <2>1. PICK s \in Stream, o \in Sent : Current(o) /\ wire' = [wire EXCEPT ![s] = Append(@, o)]
      BY <1>2 DEF Sending, Send
  <2>2. wire[s] \in Seq(Sent) /\ Append(wire[s], o) \in Seq(Sent)
      BY DEF Types
  <2>3. \A i \in DOMAIN Append(wire[s], o) : (i \in DOMAIN wire[s] /\ Append(wire[s], o)[i] = wire[s][i]) \/ Append(wire[s], o)[i] = o
      BY <2>2
  <2>4. wire'[s] = Append(wire[s], o) /\ \A t \in Stream \ {s} : wire'[t] = wire[t]
      BY <2>1 DEF Types
  <2>5. wire' \in [Stream -> Seq(Sent)]
      BY <2>1, <2>2 DEF Types
  <2>6. QED
      BY <2>1, <2>3, <2>4, <2>5
<1>3. ASSUME NEW s \in Stream, Reopen(s)
      PROVE  /\ wire' \in [Stream -> Seq(Sent)]
             /\ \A t \in Stream : \A i \in DOMAIN wire'[t] :
                  (\E j \in DOMAIN wire[t] : wire'[t][i] = wire[t][j]) \/ Current(wire'[t][i])
  <2>1. PICK q \in {<<>>, <<Snapshot(FALSE)>>} : wire' = [wire EXCEPT ![s] = q]
      BY <1>3 DEF Reopen
  <2>2. q \in Seq(Sent) /\ \A i \in DOMAIN q : Current(q[i])
    <3>1. CASE q = <<>>
        BY <3>1
    <3>2. CASE q = <<Snapshot(FALSE)>>
      <4> DEFINE o == Snapshot(FALSE)
      <4>1. o \in Sent /\ Current(o) /\ q = <<o>>
          BY <3>2, SnapshotSent
      <4> HIDE DEF o
      <4>2. QED
          BY <4>1, OneElement
    <3>3. QED
        BY <3>1, <3>2
  <2>3. wire'[s] = q /\ \A t \in Stream \ {s} : wire'[t] = wire[t]
      BY <2>1 DEF Types
  <2>4. wire' \in [Stream -> Seq(Sent)]
      BY <2>1, <2>2 DEF Types
  <2>5. QED
      BY <2>2, <2>3, <2>4
<1>4. ASSUME NEW s \in Stream, Deliver(s)
      PROVE  /\ wire' \in [Stream -> Seq(Sent)]
             /\ \A t \in Stream : \A i \in DOMAIN wire'[t] :
                  (\E j \in DOMAIN wire[t] : wire'[t][i] = wire[t][j]) \/ Current(wire'[t][i])
  <2>1. wire' = [wire EXCEPT ![s] = Tail(@)] /\ wire[s] \in Seq(Sent) /\ wire[s] # <<>>
      BY <1>4 DEF Deliver, Types
  <2>2. Tail(wire[s]) \in Seq(Sent) /\ \A i \in DOMAIN Tail(wire[s]) : i + 1 \in DOMAIN wire[s] /\ Tail(wire[s])[i] = wire[s][i + 1]
      BY <2>1
  <2>3. wire'[s] = Tail(wire[s]) /\ \A t \in Stream \ {s} : wire'[t] = wire[t]
      BY <2>1 DEF Types
  <2>4. wire' \in [Stream -> Seq(Sent)]
      BY <2>1, <2>2 DEF Types
  <2>5. QED
      BY <2>2, <2>3, <2>4
<1>5. ASSUME \/ \E l \in Leaf : Change(l)
             \/ \E c \in Capability : ChangeSupport(c)
             \/ ChangeOnline \/ PollBegin \/ PollRead \/ PollApply \/ PollFail \/ UNCHANGED vars
      PROVE  UNCHANGED wire
    BY <1>5 DEF Change, ChangeSupport, ChangeOnline, PollBegin, PollRead, PollApply, PollFail, vars
<1>6. QED
    BY <1>1, <1>2, <1>3, <1>4, <1>5, EventSent DEF Next

\* The bridge's values and states keep their types.
LEMMA TypesStep == ASSUME Types, [Next]_vars PROVE Types'
<1>1. ASSUME NEW l \in Leaf, Change(l) PROVE truth' \in [Leaf -> Nat] /\ support' = support
    BY <1>1 DEF Change, Types
<1>2. ASSUME NEW c \in Capability, ChangeSupport(c) PROVE truth' = truth /\ support' \in [Capability -> CapState]
    BY <1>2 DEF ChangeSupport, Types
<1>3. CASE Sending
    BY <1>3, WireStep DEF Sending, Send, bridgeVars, Types
<1>4. ASSUME \/ \E s \in Stream : Reopen(s) \/ Deliver(s)
             \/ ChangeOnline \/ PollBegin \/ PollRead \/ PollApply \/ PollFail \/ UNCHANGED vars
      PROVE  truth' = truth /\ support' = support
    BY <1>4 DEF Reopen, Deliver, Dispatch, ChangeOnline, PollBegin, PollRead, PollApply, PollFail, vars, bridgeVars
<1>5. QED
    BY <1>1, <1>2, <1>3, <1>4, WireStep, EventSent DEF Next, Types

-----------------------------------------------------------------------------

\* Every step keeps the invariant.
LEMMA StoreStep ==
    ASSUME StoreInv, [Next]_vars PROVE StoreInv'
<1>0. Types /\ Types'
    BY TypesStep DEF StoreInv
<1>1. CASE UNCHANGED <<profile, value, fresh, capability, poll, answer>>
    BY <1>0, <1>1 DEF StoreInv, UnsupportedHasNoValue, UnavailableIsNotFresh, Accountable
<1>2. ASSUME NEW s \in Stream, Deliver(s) PROVE StoreInv'
  <2> DEFINE o == Head(wire[s])
  <2>1. o \in Sent /\ Reduce(o) /\ UNCHANGED <<profile, poll, answer>>
      BY <1>0, <1>2 DEF Deliver, Dispatch, bridgeVars, pollVars, Types
  <2>2. Accountable(o)
      BY <2>1 DEF Sent
  <2> HIDE DEF o
  <2>3. UnsupportedHasNoValue' /\ UnavailableIsNotFresh'
      BY <2>1, <2>2, ReduceKeeps DEF StoreInv
  <2>4. QED
      BY <1>0, <2>1, <2>3 DEF StoreInv, Accountable
<1>3. ASSUME NEW based PROVE Accountable(Snapshot(based))
    BY DEF Accountable, Snapshot, Observation
<1>4. CASE PollRead
  <2>1. profile = "snapshot" => answer' = Snapshot(TRUE)
      BY <1>4 DEF PollRead, PollAnswer
  <2>2. profile = "snapshot" => Accountable(answer)'
      BY <1>3, <2>1 DEF Accountable
  <2>3. QED
      BY <1>0, <1>4, <2>2 DEF PollRead, bridgeVars, storeVars, StoreInv, UnsupportedHasNoValue, UnavailableIsNotFresh
<1>5. CASE PollApply
  <2>1. poll = "answered" /\ Reduce(answer) /\ poll' = "idle" /\ UNCHANGED profile
      BY <1>5 DEF PollApply, PollDone, bridgeVars
  <2>2. CASE profile = "snapshot"
      BY <1>0, <2>1, <2>2, ReduceKeeps DEF StoreInv
  <2>3. CASE profile # "snapshot"
      BY <1>0, <2>1, <2>3 DEF StoreInv, UnsupportedHasNoValue, UnavailableIsNotFresh
  <2>4. QED
      BY <2>2, <2>3
<1>6. CASE PollBegin \/ PollFail
    BY <1>0, <1>6 DEF PollBegin, PollFail, PollDone, bridgeVars, storeVars, StoreInv, UnsupportedHasNoValue, UnavailableIsNotFresh
<1>7. ASSUME \/ \E l \in Leaf : Change(l)
             \/ \E c \in Capability : ChangeSupport(c)
             \/ ChangeOnline \/ Sending \/ (\E s \in Stream : Reopen(s)) \/ UNCHANGED vars
      PROVE  UNCHANGED <<profile, value, fresh, capability, poll, answer>>
    BY <1>7 DEF Change, ChangeSupport, ChangeOnline, Sending, Send, Reopen, vars, bridgeVars, storeVars, pollVars
<1>8. QED
    BY <1>0, <1>1, <1>2, <1>4, <1>5, <1>6, <1>7, EventSent DEF Next

\* The invariant holds in every state.
LEMMA StoreInvariant == Spec => []StoreInv
<1>1. Init => StoreInv
    BY CapabilityOfAssumption DEF Init, StoreInv, Types, CapState, UnsupportedHasNoValue, UnavailableIsNotFresh
<1>2. StoreInv /\ [Next]_vars => StoreInv'
    BY StoreStep
<1> QED BY <1>1, <1>2, PTL DEF Spec

\* A capability shown as unsupported never shows a value, for any leaves and any
\* gating, when the bridge serves aggregate snapshots.
THEOREM StoreUnsupportedHasNoValue == Spec => []UnsupportedHasNoValue
<1>1. StoreInv => UnsupportedHasNoValue
    BY DEF StoreInv
<1> QED BY <1>1, StoreInvariant, PTL

\* Nor does one shown as temporarily unavailable have a fresh leaf.
THEOREM StoreUnavailableIsNotFresh == Spec => []UnavailableIsNotFresh
<1>1. StoreInv => UnavailableIsNotFresh
    BY DEF StoreInv
<1> QED BY <1>1, StoreInvariant, PTL

-----------------------------------------------------------------------------
(* What a poll may overwrite, and what it repairs.                         *)

\* A value of the store is one the bridge had.
Held == \A l \in Leaf : value[l] # Absent => value[l] \in Nat /\ value[l] <= truth[l]

\* What the poll in flight has read: it is compared with the revisions since its
\* beginning, it is what the bridge would answer now unless the bridge changed, and
\* it is older than the store's value only of a leaf that is newer.
ReadNoLaterThanTruth(o) ==
    \A l \in DOMAIN o.reading :
        l \in Leaf /\ o.reading[l] \in Nat /\ o.reading[l] <= truth[l]

\* What is on its way is no later than the bridge either.
Late == \A s \in Stream : \A i \in DOMAIN wire[s] : ReadNoLaterThanTruth(wire[s][i])

OvertakenIsNewer ==
    \A l \in DOMAIN answer.reading :
        value[l] # Absent /\ l \notin newer => value[l] <= answer.reading[l]

Answered ==
    poll = "answered" =>
        /\ answer.based
        /\ ~changed => answer \in PollAnswer
        /\ ReadNoLaterThanTruth(answer)
        /\ OvertakenIsNewer

ReadInv == Types /\ Held /\ Late /\ Answered

\* What the bridge answers depends on the bridge only.
LEMMA AnswerUnchanged ==
    ASSUME UNCHANGED bridgeVars PROVE PollAnswer' = PollAnswer
<1>1. \A l : Readable(l)' = Readable(l)
    BY DEF bridgeVars, Readable
<1>2. ReadAll' = ReadAll /\ Unreadable' = Unreadable
    BY <1>1 DEF bridgeVars, ReadAll, Unreadable
<1>3. StatedSupport' = StatedSupport /\ InferredSupport' = InferredSupport
    BY DEF bridgeVars, StatedSupport, InferredSupport
<1> QED BY <1>2, <1>3 DEF bridgeVars, PollAnswer, Snapshot, Compatible, Observation

\* Each answer of the bridge has a base revision and reads every leaf.
LEMMA AnswerForms ==
    ASSUME NEW o \in PollAnswer
    PROVE  /\ o = Snapshot(TRUE) \/ o = Compatible
           /\ profile = "snapshot" => o = Snapshot(TRUE)
           /\ o.based /\ o.reading = ReadAll /\ o.unavailable = Unreadable
<1>1. o = Snapshot(TRUE) \/ o = Compatible
    BY DEF PollAnswer
<1>2. profile = "snapshot" => o = Snapshot(TRUE)
    BY DEF PollAnswer
<1> QED BY <1>1, <1>2 DEF Snapshot, Compatible, Observation

\* The value a reduction leaves: cleared, taken from the observation, or kept.
LEMMA ReducedValue ==
    ASSUME NEW o, Reduce(o), NEW l \in Leaf
    PROVE  /\ value'[l] = Absent \/ value'[l] = value[l]
              \/ (l \in Taken(o) /\ value'[l] = o.reading[l])
           /\ l \in Taken(o) \/ l \in Cleared(o) \/ value'[l] = value[l]
           /\ l \in Taken(o) => l \in DOMAIN o.reading \ Newer(o)
BY DEF Reduce, Taken

\* An observation no later than the bridge leaves values no later than the bridge.
LEMMA ReduceHolds ==
    ASSUME Held, NEW o, ReadNoLaterThanTruth(o), Reduce(o), UNCHANGED truth
    PROVE  Held'
<1> SUFFICES ASSUME NEW l \in Leaf, value'[l] # Absent
             PROVE  value'[l] \in Nat /\ value'[l] <= truth[l]
    BY DEF Held
<1>1. CASE value'[l] = value[l]
    BY <1>1 DEF Held
<1>2. CASE l \in Taken(o) /\ value'[l] = o.reading[l]
    BY <1>2, ReducedValue DEF ReadNoLaterThanTruth
<1> QED BY <1>1, <1>2, ReducedValue

NotOlder == \A l \in Leaf : value[l] # Absent /\ value'[l] # Absent => value'[l] >= value[l]

\* What is read stays no later than the bridge, whose values only grow.
LEMMA ReadStays ==
    ASSUME Types, Types', \A l \in Leaf : truth'[l] >= truth[l], NEW o, ReadNoLaterThanTruth(o)
    PROVE  \A l \in DOMAIN o.reading : l \in Leaf /\ o.reading[l] \in Nat /\ o.reading[l] <= truth'[l]
<1> SUFFICES ASSUME NEW l \in DOMAIN o.reading PROVE o.reading[l] <= truth'[l]
    BY DEF ReadNoLaterThanTruth
<1>1. l \in Leaf /\ o.reading[l] \in Nat /\ o.reading[l] <= truth[l]
    BY DEF ReadNoLaterThanTruth
<1>2. truth[l] \in Nat /\ truth'[l] \in Nat /\ truth'[l] >= truth[l]
    BY <1>1 DEF Types
<1>3. QED
    BY <1>1, <1>2

\* The bridge's values only grow.
LEMMA TruthGrows == ASSUME Types, [Next]_vars PROVE \A l \in Leaf : truth'[l] >= truth[l]
<1>1. ASSUME NEW l \in Leaf, Change(l) PROVE \A k \in Leaf : truth'[k] >= truth[k]
    BY <1>1 DEF Change, Types
<1>2. ASSUME truth' = truth PROVE \A k \in Leaf : truth'[k] >= truth[k]
    BY <1>2 DEF Types
<1>3. ASSUME \/ \E c \in Capability : ChangeSupport(c)
             \/ \E s \in Stream : Reopen(s) \/ Deliver(s)
             \/ Sending \/ ChangeOnline \/ PollBegin \/ PollRead \/ PollApply \/ PollFail \/ UNCHANGED vars
      PROVE  truth' = truth
    BY <1>3 DEF ChangeSupport, Sending, Send, Reopen, Deliver, Dispatch, ChangeOnline, PollBegin, PollRead,
        PollApply, PollFail, vars, bridgeVars
<1>4. QED
    BY <1>1, <1>2, <1>3, EventSent DEF Next

\* What is on its way stays no later than the bridge.
LEMMA LateStep == ASSUME Types, Types', Late, [Next]_vars PROVE Late'
<1> SUFFICES ASSUME NEW s \in Stream, NEW i \in DOMAIN wire'[s]
             PROVE  \A l \in DOMAIN wire'[s][i].reading :
                        l \in Leaf /\ wire'[s][i].reading[l] \in Nat /\ wire'[s][i].reading[l] <= truth'[l]
    BY DEF Late, ReadNoLaterThanTruth
<1> DEFINE o == wire'[s][i]
<1>1. ReadNoLaterThanTruth(o)
  <2>1. CASE \E j \in DOMAIN wire[s] : o = wire[s][j]
      BY <2>1 DEF Late
  <2>2. CASE Current(o)
      BY <2>2 DEF Current, ReadNoLaterThanTruth, Types
  <2>3. QED
      BY <2>1, <2>2, WireStep
<1>2. QED
    BY <1>1, TruthGrows, ReadStays

\* An event that is reduced keeps the invariant, however late: what it writes is newer than
\* the base of the poll in flight.
LEMMA DeliverReads ==
    ASSUME ReadInv, NEW s \in Stream, Deliver(s) PROVE Held' /\ Answered'
<1> DEFINE o == Head(wire[s])
<1>1. /\ Reduce(o) /\ UNCHANGED bridgeVars
      /\ truth' = truth /\ support' = support
      /\ poll' = poll /\ answer' = answer /\ changed' = changed
      /\ poll = "answered" => newer' = newer \cup Written(o)
    BY DEF Deliver, Dispatch, bridgeVars, pollVars
<1>2. ReadNoLaterThanTruth(o)
  <2>1. wire[s] \in Seq(Sent) /\ wire[s] # <<>>
      BY DEF ReadInv, Types, Deliver
  <2>2. 1 \in DOMAIN wire[s] /\ o = wire[s][1]
      BY <2>1
  <2>3. QED
      BY <2>2 DEF ReadInv, Late
<1> HIDE DEF o
<1>3. Held'
    BY <1>1, <1>2, ReduceHolds DEF ReadInv
<1>4. ASSUME poll = "answered"
      PROVE  /\ answer'.based
             /\ ~changed' => answer' \in PollAnswer'
             /\ ReadNoLaterThanTruth(answer)'
             /\ OvertakenIsNewer'
  <2>1. /\ answer.based /\ (~changed => answer \in PollAnswer)
        /\ ReadNoLaterThanTruth(answer) /\ OvertakenIsNewer
      BY <1>4 DEF ReadInv, Answered
  <2>2. ~changed' => answer' \in PollAnswer'
      BY <1>1, <2>1, AnswerUnchanged
  <2>3. ReadNoLaterThanTruth(answer)'
      BY <1>1, <2>1 DEF ReadNoLaterThanTruth
  <2>4. OvertakenIsNewer'
    <3> SUFFICES ASSUME NEW l \in DOMAIN answer.reading, value'[l] # Absent, l \notin newer'
                 PROVE  value'[l] <= answer.reading[l]
        BY <1>1 DEF OvertakenIsNewer
    <3>1. l \in Leaf
        BY <2>1 DEF ReadNoLaterThanTruth
    <3>2. l \notin newer /\ l \notin Taken(o) /\ l \notin Cleared(o)
        BY <1>1, <1>4 DEF Written
    <3>3. value'[l] = value[l]
        BY <1>1, <3>1, <3>2, ReducedValue
    <3>4. QED
        BY <2>1, <3>2, <3>3 DEF OvertakenIsNewer
  <2>5. QED
      BY <1>1, <2>1, <2>2, <2>3, <2>4
<1>5. QED
    BY <1>1, <1>3, <1>4 DEF Answered

\* A change of the bridge is noticed by the poll in flight.
LEMMA ChangeReads ==
    ASSUME ReadInv, Types', UNCHANGED <<storeVars, poll, answer>>, Noticed,
           \A l \in Leaf : truth'[l] >= truth[l]
    PROVE  Held' /\ Answered'
<1>1. value' = value /\ newer' = newer /\ poll' = poll /\ answer' = answer
    BY DEF storeVars
<1>2. Held'
    BY <1>1 DEF ReadInv, Held, Types
<1>3. poll = "answered" => changed'
    BY DEF Noticed
<1>4. poll = "answered" => ReadNoLaterThanTruth(answer)' /\ OvertakenIsNewer' /\ answer.based
  <2>1. poll = "answered" => ReadNoLaterThanTruth(answer) /\ OvertakenIsNewer /\ answer.based
      BY DEF ReadInv, Answered
  <2>2. ASSUME poll = "answered", NEW l \in DOMAIN answer.reading PROVE answer.reading[l] <= truth'[l]
    <3>1. l \in Leaf /\ answer.reading[l] \in Nat /\ answer.reading[l] <= truth[l]
        BY <2>1, <2>2 DEF ReadNoLaterThanTruth
    <3>2. truth[l] \in Nat /\ truth'[l] \in Nat /\ truth'[l] >= truth[l]
        BY <3>1 DEF ReadInv, Types
    <3>3. QED
        BY <3>1, <3>2
  <2>3. QED
      BY <1>1, <2>1, <2>2 DEF ReadNoLaterThanTruth, OvertakenIsNewer
<1>5. Answered'
    BY <1>1, <1>3, <1>4 DEF Answered
<1>6. QED
    BY <1>2, <1>5

\* A step that the store and the poll have no part in keeps what is known of them.
LEMMA ElsewhereReads ==
    ASSUME ReadInv, UNCHANGED <<bridgeVars, value, newer, pollVars>> PROVE Held' /\ Answered'
<1>1. /\ value' = value /\ newer' = newer /\ truth' = truth
      /\ poll' = poll /\ answer' = answer /\ changed' = changed /\ UNCHANGED bridgeVars
    BY DEF bridgeVars, pollVars
<1>2. Answered'
    BY <1>1, AnswerUnchanged DEF ReadInv, Answered, ReadNoLaterThanTruth, OvertakenIsNewer
<1>3. QED
    BY <1>1, <1>2 DEF ReadInv, Held

\* Reading the bridge: what a poll has read is what the bridge has.
LEMMA PollReads == ASSUME ReadInv, PollRead PROVE Held' /\ Answered'
<1> USE DEF ReadInv
<1>1. /\ value' = value /\ newer' = newer /\ truth' = truth
      /\ answer' \in PollAnswer /\ poll' = "answered" /\ UNCHANGED bridgeVars
    BY DEF PollRead, storeVars, bridgeVars
<1>2. answer'.based /\ answer'.reading = ReadAll
    BY <1>1, AnswerForms
<1>3. answer' \in PollAnswer'
    BY <1>1, AnswerUnchanged
<1>4. \A l \in DOMAIN answer'.reading : l \in Leaf /\ answer'.reading[l] = truth[l]
    BY <1>2, ReadAllIsTruth
<1>5. ReadNoLaterThanTruth(answer)'
    BY <1>1, <1>4 DEF ReadNoLaterThanTruth, Types
<1>6. OvertakenIsNewer'
    BY <1>1, <1>4 DEF OvertakenIsNewer, Held
<1>7. QED
    BY <1>1, <1>2, <1>3, <1>5, <1>6 DEF Answered, Held

\* Reducing the answer: a leaf that is not newer than the poll was no newer when it was read.
LEMMA PollApplies == ASSUME ReadInv, PollApply PROVE Held' /\ Answered' /\ NotOlder
<1> USE DEF ReadInv
<1>1. /\ poll = "answered" /\ Reduce(answer) /\ poll' = "idle"
      /\ truth' = truth /\ support' = support
    BY DEF PollApply, PollDone, bridgeVars
<1>2. answer.based /\ ReadNoLaterThanTruth(answer) /\ OvertakenIsNewer
    BY <1>1 DEF Answered
<1>3. Held'
    BY <1>1, <1>2, ReduceHolds
<1>4. ASSUME NEW l \in Leaf, value[l] # Absent, value'[l] # Absent PROVE value'[l] >= value[l]
  <2>1. value[l] \in Nat
      BY <1>4 DEF Held
  <2>2. CASE value'[l] = value[l]
      BY <2>1, <2>2
  <2>3. CASE l \in Taken(answer) /\ value'[l] = answer.reading[l]
    <3>1. l \in DOMAIN answer.reading /\ l \notin newer
        BY <1>1, <1>2, <2>3, ReducedValue DEF Newer
    <3>2. answer.reading[l] \in Nat /\ value[l] <= answer.reading[l]
        BY <1>2, <1>4, <3>1 DEF ReadNoLaterThanTruth, OvertakenIsNewer
    <3>3. QED
        BY <2>1, <2>3, <3>2
  <2>4. QED
      BY <1>1, <1>4, <2>2, <2>3, ReducedValue
<1>5. QED
    BY <1>1, <1>3, <1>4 DEF Answered, NotOlder

\* Every step keeps the invariant.
LEMMA ReadStep ==
    ASSUME ReadInv, [Next]_vars PROVE ReadInv'
<1>0. Types /\ Types' /\ Late' /\ \A l \in Leaf : truth'[l] >= truth[l]
    BY TypesStep, LateStep, TruthGrows DEF ReadInv
<1>1. ASSUME \/ \E l \in Leaf : Change(l)
             \/ \E c \in Capability : ChangeSupport(c)
             \/ ChangeOnline
      PROVE  Held' /\ Answered'
    BY <1>0, <1>1, ChangeReads DEF Change, ChangeSupport, ChangeOnline
<1>2. ASSUME Sending \/ (\E s \in Stream : Reopen(s)) \/ UNCHANGED vars PROVE Held' /\ Answered'
    BY <1>2, ElsewhereReads DEF Sending, Send, Reopen, storeVars, vars
<1>3. CASE PollBegin \/ PollFail
  <2>1. value' = value /\ truth' = truth /\ poll' # "answered"
      BY <1>3 DEF PollBegin, PollFail, PollDone, storeVars, bridgeVars
  <2>2. Held' /\ Answered'
      BY <2>1 DEF ReadInv, Held, Answered
  <2>3. QED
      BY <1>0, <2>2 DEF ReadInv
<1>4. ASSUME NEW s \in Stream, Deliver(s) PROVE Held' /\ Answered'
    BY <1>4, DeliverReads
<1>5. CASE PollRead \/ PollApply
    BY <1>0, <1>5, PollReads, PollApplies DEF ReadInv
<1>6. QED
    BY <1>0, <1>1, <1>2, <1>3, <1>4, <1>5, EventSent DEF Next, ReadInv

\* The invariant holds in every state.
LEMMA ReadInvariant == Spec => []ReadInv
<1>1. Init => ReadInv
    BY DEF Init, ReadInv, Types, Held, Late, Answered, CapState
<1>2. ReadInv /\ [Next]_vars => ReadInv'
    BY ReadStep
<1> QED BY <1>1, <1>2, PTL DEF Spec

\* Only the reduction of its answer ends an answered poll.
LEMMA ApplyingApplies ==
    ASSUME Types, [Next]_vars, Applying
    PROVE  PollApply /\ Reduce(answer) /\ poll = "answered" /\ UNCHANGED bridgeVars
<1>1. poll = "answered" /\ poll' # poll
    BY DEF Applying
<1>2. ~Sending
    BY <1>1 DEF Sending, Send, pollVars
<1>3. PollApply
    BY <1>1, <1>2, EventSent DEF Next, Change, ChangeSupport, ChangeOnline, Reopen, Deliver, Dispatch,
        PollBegin, PollRead, PollFail, vars, pollVars
<1> QED BY <1>1, <1>3 DEF PollApply

\* A poll takes no leaf back to an older value: whatever was reduced since it began, late
\* deltas among it, is newer than its base, and nothing else is later than its answer.
THEOREM StoreNoRegression == Spec => NoRegression
<1>1. ReadInv /\ [Next]_vars /\ Applying => NotOlder
    BY ApplyingApplies, PollApplies DEF ReadInv
<1>2. ReadInv /\ [Next]_vars
        => [Applying => \A l \in Leaf :
                value[l] # Absent /\ value'[l] # Absent => value'[l] >= value[l]]_vars
    BY <1>1 DEF NotOlder
<1> QED BY <1>2, ReadInvariant, PTL DEF Spec, NoRegression

\* A stated capability is settled by the observation that states it.
LEMMA StatedSettles ==
    ASSUME Types, NEW c \in Capability, NEW o, o.results = StatedSupport
    PROVE  /\ c \in DOMAIN o.results /\ o.results[c].state = support[c]
           /\ support[c] # NoState /\ c \in Applied(o) /\ Reduced(o, c) = support[c]
           /\ ContractState(o, c) = support[c]
<1>1. c \in DOMAIN o.results /\ o.results[c].state = support[c]
    BY DEF StatedSupport, Stated
<1>2. support[c] # NoState
    BY DEF Types, CapState, NoState
<1>3. c \in Applied(o)
    BY <1>1, <1>2 DEF Applied
<1>4. Reduced(o, c) = support[c]
    BY <1>1, <1>2 DEF Reduced, NextCapabilityState
<1>5. ContractState(o, c) = support[c]
    BY <1>1, <1>2 DEF ContractState
<1> QED BY <1>1, <1>2, <1>3, <1>4, <1>5

\* A leaf the bridge can read is taken from an answer of the bridge, and the
\* answer's capability results do not take it away again.
LEMMA ReadableTaken ==
    ASSUME Types, NEW o \in PollAnswer, NEW l \in Leaf, Readable(l), l \notin newer
    PROVE  /\ l \in Taken(o) /\ l \notin Lost(o) \cup Cleared(o) \cup Staled(o)
           /\ o.reading[l] = truth[l]
<1> DEFINE c == CapabilityOf[l]
<1>1. /\ o.based /\ l \in DOMAIN o.reading /\ o.reading[l] = truth[l]
      /\ l \notin Lost(o) /\ l \notin Newer(o)
    BY AnswerForms, ReadAllIsTruth DEF Lost, Unreadable, Newer
<1>2. c # Ungated => c \in Capability /\ support[c] = "available"
    BY CapabilityOfAssumption DEF Readable
<1>3. CASE o = Snapshot(TRUE)
    <2>1. o.results = StatedSupport
        BY <1>3 DEF Snapshot, Observation
    <2>2. Admitted(o, l)
        BY <1>2, <2>1, StatedSettles DEF Admitted
    <2>3. c # Ungated => Reduced(o, c) = "available" /\ o.results[c].state # NoState
        BY <1>2, <2>1, StatedSettles
    <2>4. c \in Applied(o) => c # Ungated
        BY <2>1, CapabilityOfAssumption DEF Applied, StatedSupport
    <2>5. l \notin Cleared(o) /\ l \notin Staled(o)
        BY <2>3, <2>4 DEF Cleared, Staled
    <2> QED BY <1>1, <2>2, <2>5 DEF Taken
<1>4. CASE o = Compatible
    <2>1. ~Explicit(o) /\ o.results = InferredSupport
        BY <1>4 DEF Compatible, Observation, Explicit
    <2>2. l \in Taken(o)
        BY <1>1, <2>1 DEF Taken, Admitted
    <2>3. c \in DOMAIN o.results => o.results[c].state = NoState
        BY <2>1 DEF InferredSupport, Inferred
    <2>4. l \in Fields(c) \cap NewerThanSelf(o)
        BY <1>1, <2>2 DEF Fields, NewerThanSelf
    <2>5. c \notin Applied(o)
        BY <2>3, <2>4 DEF Applied
    <2> QED BY <1>1, <2>2, <2>5 DEF Cleared, Staled
<1> QED BY <1>3, <1>4, AnswerForms

\* A poll the bridge did not change under repairs the leaves that no delta
\* overtook, whichever bridge answered it.
THEOREM StoreLeavesRepaired == Spec => LeavesRepaired
<1>1. ASSUME ReadInv, [Next]_vars, Applying, ~changed, NEW l \in Leaf \ newer
      PROVE  IF Readable(l) THEN l \in fresh' /\ value'[l] = truth[l] ELSE l \notin fresh'
    <2>1. Reduce(answer) /\ poll = "answered"
        BY <1>1, ApplyingApplies DEF ReadInv
    <2>2. Types /\ answer \in PollAnswer
        BY <1>1, <2>1 DEF ReadInv, Answered
    <2>3. /\ fresh' = (((fresh \ Withheld(answer)) \cup Taken(answer)) \ Lost(answer))
                          \ (Cleared(answer) \cup Staled(answer))
          /\ value'[l] = IF l \in Cleared(answer) THEN Absent
                         ELSE IF l \in Taken(answer) THEN answer.reading[l] ELSE value[l]
        BY <1>1, <2>1 DEF Reduce
    <2>4. CASE Readable(l)
        BY <1>1, <2>2, <2>3, <2>4, ReadableTaken
    <2>5. CASE ~Readable(l)
        <3>1. l \in Lost(answer)
            BY <1>1, <2>2, <2>5, AnswerForms DEF Lost, Newer, Unreadable
        <3> QED BY <2>3, <2>5, <3>1
    <2> QED BY <2>4, <2>5
<1>2. ReadInv /\ [Next]_vars
        => [Applying /\ ~changed
              => \A l \in Leaf \ newer : IF Readable(l) THEN l \in fresh' /\ value'[l] = truth[l]
                                         ELSE l \notin fresh']_vars
    BY <1>1
<1> QED BY <1>2, ReadInvariant, PTL DEF Spec, LeavesRepaired

\* Such a poll of a bridge with aggregate snapshots settles every capability.
THEOREM StoreSupportRepaired == Spec => SupportRepaired
<1>1. ASSUME ReadInv, [Next]_vars, profile = "snapshot", Applying, ~changed, NEW c \in Capability
      PROVE  capability'[c] = support[c]
    <2>1. Reduce(answer) /\ poll = "answered"
        BY <1>1, ApplyingApplies DEF ReadInv
    <2>2. Types /\ answer \in PollAnswer
        BY <1>1, <2>1 DEF ReadInv, Answered
    <2>3. answer.results = StatedSupport
        BY <1>1, <2>2, AnswerForms DEF Snapshot, Observation
    <2>4. c \in Applied(answer) /\ Reduced(answer, c) = support[c]
        BY <1>1, <2>2, <2>3, StatedSettles
    <2> QED BY <2>1, <2>4 DEF Reduce
<1>2. ReadInv /\ [Next]_vars
        => [profile = "snapshot" /\ Applying /\ ~changed
              => \A c \in Capability : capability'[c] = support[c]]_vars
    BY <1>1
<1> QED BY <1>2, ReadInvariant, PTL DEF Spec, SupportRepaired

=============================================================================
