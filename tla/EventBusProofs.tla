--------------------------- MODULE EventBusProofs ---------------------------
(***************************************************************************)
(* Proofs about EventBus, and about DeviceStateStream, which is built on   *)
(* it: for any set of devices, subscribers and channel sizes.              *)
(*                                                                         *)
(* NoSilentLoss is not inductive alone: receiving the head of a channel    *)
(* keeps the rest complete only because the channel is ordered             *)
(* (QueueOrdered), and registering starts complete only because an unused  *)
(* channel is empty (UnusedEmpty).  BusInv is their conjunction.           *)
(*                                                                         *)
(* Converged follows from where the latest change of the leaf is: still in *)
(* the channel, dropped from it before what the client was given, on the   *)
(* wire in an envelope that the client will heed, or arrived, with a poll  *)
(* to come if need be.  Mirrors says that it always is in one of these.    *)
(***************************************************************************)
EXTENDS DeviceStateStream, FiniteSetTheorems, FunctionTheorems, TLAPS

\* A channel nobody has subscribed with yet is empty and has missed nothing.
UnusedEmpty ==
    \A s \in Sub : status[s] = "new" => queue[s] = <<>> /\ pendingDropped[s] = 0

BusInv == BusTypeOK /\ QueueOrdered /\ HandedOutPublished /\ NoSilentLoss /\ UnusedEmpty

\* Every client-supplied spelling denotes a scope.
LEMMA NormalizeInScope == \A raw \in RawSKI : NormalizeSKI(raw) \in Scope
BY NormalizeAssumption DEF Scope

\* The initial state satisfies the invariant.
LEMMA InitInv == BusInit => BusInv
<1> SUFFICES ASSUME BusInit PROVE BusInv
    OBVIOUS
<1>1. BusTypeOK
    BY BoundAssumption DEF BusInit, BusTypeOK, Scope
<1>2. QueueOrdered /\ HandedOutPublished /\ NoSilentLoss /\ UnusedEmpty
    BY DEF BusInit, QueueOrdered, HandedOutPublished, NoSilentLoss, UnusedEmpty, Scoped, Live
<1> QED BY <1>1, <1>2 DEF BusInv

\* The number of subscribers an event was dropped for is a natural number.
LEMMA MissedCount == ASSUME NEW ski PROVE Cardinality(Missed(ski)) \in Nat
<1>1. Missed(ski) \subseteq Sub
    BY DEF Missed, Audience
<1> QED BY <1>1, SubAssumption, FS_Subset, FS_CardinalityType

\* Publishing an event keeps every variable in its type.
LEMMA PublishTypeOK ==
    ASSUME BusTypeOK, NEW raw \in RawSKI, NEW type \in EventType,
           PublishResolved(raw, type)
    PROVE  BusTypeOK'
<1> DEFINE ski == NormalizeSKI(raw)
           evt == [ski |-> ski, type |-> type, rev |-> revisions[ski] + 1]
<1>1. ski \in Scope /\ evt \in Event
    BY NormalizeInScope DEF BusTypeOK, Event
<1>2. Cardinality(Missed(ski)) \in Nat
    BY MissedCount
<1>3. /\ revisions' \in [Scope -> Nat]
      /\ pendingDropped' \in [Sub -> Nat]
      /\ droppedByDevice' \in [Scope -> Nat]
    BY <1>1, <1>2 DEF PublishResolved, BusTypeOK
<1>4. queue' \in [Sub -> Seq(Event)]
    <2>1. queue' = [s \in Sub |-> IF s \in Audience(ski) /\ ~Full(s)
                                  THEN Append(queue[s], evt) ELSE queue[s]]
        BY DEF PublishResolved
    <2>2. \A s \in Sub : queue[s] \in Seq(Event) /\ Append(queue[s], evt) \in Seq(Event)
        BY <1>1 DEF BusTypeOK
    <2> HIDE DEF evt, ski
    <2> QED BY <2>1, <2>2
<1>5. ASSUME NEW s \in Sub
      PROVE  Len(queue'[s]) <= Capacity
    <2>1. queue[s] \in Seq(Event) /\ Len(queue[s]) <= Capacity /\ Capacity \in Nat
        BY BoundAssumption DEF BusTypeOK
    <2>2. queue'[s] = queue[s] \/ (~Full(s) /\ queue'[s] = Append(queue[s], evt))
        BY DEF PublishResolved
    <2>3. Len(Append(queue[s], evt)) = Len(queue[s]) + 1
        BY <2>1
    <2> QED BY <2>1, <2>2, <2>3 DEF Full
<1> QED BY <1>3, <1>4, <1>5 DEF PublishResolved, BusTypeOK

\* Receiving the oldest event keeps every variable in its type.
LEMMA ReceiveTypeOK ==
    ASSUME BusTypeOK, NEW s \in Sub, Receive(s) PROVE BusTypeOK'
<1>1. queue[s] \in Seq(Event) /\ queue[s] # <<>> /\ Len(queue[s]) <= Capacity
      /\ Capacity \in Nat
    BY BoundAssumption DEF BusTypeOK, Receive
<1>2. /\ Head(queue[s]) \in Event
      /\ Tail(queue[s]) \in Seq(Event)
      /\ Len(Tail(queue[s])) <= Capacity
    BY <1>1
<1>3. Head(queue[s]).rev \in Nat
    BY <1>2 DEF Event
<1>4. queue' = [queue EXCEPT ![s] = Tail(queue[s])]
    BY DEF Receive
<1>5. queue' \in [Sub -> Seq(Event)] /\ \A t \in Sub : Len(queue'[t]) <= Capacity
    <2>1. queue' \in [Sub -> Seq(Event)]
        BY <1>2, <1>4 DEF BusTypeOK
    <2>2. \A t \in Sub : queue'[t] = IF t = s THEN Tail(queue[s]) ELSE queue[t]
        BY <1>4 DEF BusTypeOK
    <2> QED BY <1>2, <2>1, <2>2 DEF BusTypeOK
<1>6. handedOut' \in [Sub -> Nat]
    BY <1>3 DEF Receive, BusTypeOK, Newest
<1> QED BY <1>5, <1>6 DEF Receive, BusTypeOK

\* Every step of the bus keeps every variable in its type.
LEMMA StepTypeOK == BusTypeOK /\ [BusNext]_busVars => BusTypeOK'
<1> SUFFICES ASSUME BusTypeOK, [BusNext]_busVars PROVE BusTypeOK'
    OBVIOUS
<1> USE BoundAssumption
<1>1. ASSUME NEW raw \in RawSKI, NEW type \in EventType, Publish(raw, type)
      PROVE  BusTypeOK'
    <2>1. CASE PublishUnresolved(raw, type)
        BY <2>1 DEF PublishUnresolved, BusTypeOK
    <2>2. CASE PublishResolved(raw, type)
        BY <2>2, PublishTypeOK
    <2> QED BY <1>1, <2>1, <2>2 DEF Publish
<1>2. ASSUME NEW s \in Sub, Subscribe(s) PROVE BusTypeOK'
    BY <1>2 DEF Subscribe, Register, BusTypeOK, Scope
<1>3. ASSUME NEW s \in Sub, NEW raw \in RawSKI, SubscribeWithRevision(s, raw)
      PROVE  BusTypeOK'
    BY <1>3, NormalizeInScope DEF SubscribeWithRevision, Register, BusTypeOK
<1>4. ASSUME NEW s \in Sub, Unsubscribe(s) PROVE BusTypeOK'
    BY <1>4 DEF Unsubscribe, BusTypeOK
<1>5. ASSUME NEW s \in Sub, Receive(s) PROVE BusTypeOK'
    BY <1>5, ReceiveTypeOK
<1>6. ASSUME NEW s \in Sub, TakePendingResync(s) PROVE BusTypeOK'
    BY SMTT(40), <1>6 DEF TakePendingResync, PendingCleared, BusTypeOK
<1>7. ASSUME NEW s \in Sub, PostponeResync(s) PROVE BusTypeOK'
    BY SMTT(40), <1>7 DEF PostponeResync, DeferResync, BusTypeOK
<1>8. CASE UNCHANGED busVars
    BY <1>8 DEF busVars, BusTypeOK
<1> QED BY <1>1, <1>2, <1>3, <1>4, <1>5, <1>6, <1>7, <1>8 DEF BusNext

\* Publishing keeps the invariant: the event lands behind everything older in
\* each channel with room, and each full channel gets a pending drop.
LEMMA PublishInv ==
    ASSUME BusInv, NEW raw \in RawSKI, NEW type \in EventType,
           PublishResolved(raw, type)
    PROVE  BusInv'
<1> DEFINE ski == NormalizeSKI(raw)
           evt == [ski |-> ski, type |-> type, rev |-> revisions[ski] + 1]
<1>1. BusTypeOK /\ BusTypeOK'
    BY PublishTypeOK DEF BusInv
<1>2. ski \in Scope /\ evt \in Event
    BY <1>1, NormalizeInScope DEF BusTypeOK, Event
<1>3. \A k \in Scope : /\ revisions[k] \in Nat
                       /\ revisions'[k] = IF k = ski THEN revisions[k] + 1 ELSE revisions[k]
    BY <1>1 DEF PublishResolved, BusTypeOK
<1>4. ASSUME NEW s \in Sub
      PROVE  \/ /\ s \in Audience(ski) /\ Full(s)
                /\ queue'[s] = queue[s]
                /\ pendingDropped'[s] = pendingDropped[s] + 1
             \/ /\ s \in Audience(ski) /\ ~Full(s)
                /\ queue'[s] = Append(queue[s], evt)
                /\ pendingDropped'[s] = pendingDropped[s]
             \/ /\ s \notin Audience(ski)
                /\ queue'[s] = queue[s]
                /\ pendingDropped'[s] = pendingDropped[s]
    BY DEF PublishResolved, Missed
<1>5. UNCHANGED <<status, scope, handedOut>>
    BY DEF PublishResolved
<1>6. ASSUME NEW s \in Sub
      PROVE  /\ queue[s] \in Seq(Event)
             /\ \A i \in DOMAIN queue[s] : queue[s][i] \in Event
             /\ Append(queue[s], evt) \in Seq(Event)
             /\ DOMAIN Append(queue[s], evt) = DOMAIN queue[s] \cup {Len(queue[s]) + 1}
             /\ \A i \in DOMAIN queue[s] : Append(queue[s], evt)[i] = queue[s][i]
             /\ Append(queue[s], evt)[Len(queue[s]) + 1] = evt
             /\ DOMAIN queue[s] = 1..Len(queue[s])
             /\ Len(queue[s]) \in Nat
    <2>1. queue[s] \in Seq(Event)
        BY <1>1 DEF BusTypeOK
    <2> HIDE DEF evt
    <2> QED BY <2>1, <1>2
<1>7. QueueOrdered'
    <2> SUFFICES ASSUME NEW s \in Sub
                 PROVE /\ \A i \in DOMAIN queue'[s] :
                           /\ queue'[s][i].rev <= revisions'[queue'[s][i].ski]
                           /\ scope[s] = NoSKI \/ queue'[s][i].ski = scope[s]
                       /\ \A i, j \in DOMAIN queue'[s] :
                           i < j /\ queue'[s][i].ski = queue'[s][j].ski
                               => queue'[s][i].rev < queue'[s][j].rev
        BY <1>5 DEF QueueOrdered
    <2>1. \A i \in DOMAIN queue[s] :
            /\ queue[s][i].ski \in Scope /\ queue[s][i].rev \in Nat
            /\ queue[s][i].rev <= revisions[queue[s][i].ski]
            /\ scope[s] = NoSKI \/ queue[s][i].ski = scope[s]
        BY <1>6 DEF BusInv, QueueOrdered, Event
    <2>2. \A i, j \in DOMAIN queue[s] :
            i < j /\ queue[s][i].ski = queue[s][j].ski => queue[s][i].rev < queue[s][j].rev
        BY DEF BusInv, QueueOrdered
    <2>3. CASE queue'[s] = queue[s]
        BY <2>1, <2>2, <2>3, <1>3
    <2>4. CASE s \in Audience(ski) /\ queue'[s] = Append(queue[s], evt)
        <3>1. evt.ski = ski /\ evt.rev = revisions[ski] + 1
            OBVIOUS
        <3>2. scope[s] = NoSKI \/ ski = scope[s]
            BY <2>4 DEF Audience
        <3> HIDE DEF evt, ski
        <3>3. \A i \in DOMAIN queue'[s] :
                /\ queue'[s][i].rev <= revisions'[queue'[s][i].ski]
                /\ scope[s] = NoSKI \/ queue'[s][i].ski = scope[s]
            BY SMTT(40), <1>2, <1>3, <1>6, <2>1, <2>4, <3>1, <3>2
        <3>4. \A i, j \in DOMAIN queue'[s] :
                i < j /\ queue'[s][i].ski = queue'[s][j].ski
                    => queue'[s][i].rev < queue'[s][j].rev
            BY <1>2, <1>3, <1>6, <2>1, <2>2, <2>4, <3>1
        <3> QED BY <3>3, <3>4
    <2> QED BY <2>3, <2>4, <1>4
<1>8. HandedOutPublished'
    <2> SUFFICES ASSUME NEW s \in Sub, Scoped(s)
                 PROVE handedOut[s] <= revisions'[scope[s]]
        BY <1>5 DEF HandedOutPublished, Scoped, Live
    <2>1. handedOut[s] <= revisions[scope[s]] /\ scope[s] \in Scope /\ handedOut[s] \in Nat
        BY <1>1 DEF BusInv, HandedOutPublished, BusTypeOK
    <2> QED BY <1>3, <2>1
<1>9. NoSilentLoss'
    <2> SUFFICES ASSUME NEW s \in Sub, Scoped(s), pendingDropped'[s] = 0,
                        NEW r \in (handedOut[s] + 1)..revisions'[scope[s]]
                 PROVE  \E i \in DOMAIN queue'[s] : queue'[s][i].rev = r
        BY <1>5 DEF NoSilentLoss, Scoped, Live, Ahead
    <2>1. scope[s] \in Scope /\ pendingDropped[s] \in Nat /\ handedOut[s] \in Nat
        BY <1>1 DEF BusTypeOK
    <2>2. pendingDropped[s] = 0 /\ (s \in Audience(ski) => queue'[s] = Append(queue[s], evt))
          /\ (s \notin Audience(ski) => queue'[s] = queue[s])
        BY <1>4, <2>1
    <2>3. \A x \in (handedOut[s] + 1)..revisions[scope[s]] :
            \E i \in DOMAIN queue[s] : queue[s][i].rev = x
        BY <2>2 DEF BusInv, NoSilentLoss, Ahead
    <2>4. CASE scope[s] = ski
        <3>1. s \in Audience(ski)
            BY <2>4 DEF Audience, Scoped, Live
        <3>2. r \in (handedOut[s] + 1)..revisions[scope[s]] \/ r = revisions[ski] + 1
            BY <1>3, <2>1, <2>4
        <3>3. evt.rev = revisions[ski] + 1
            OBVIOUS
        <3> HIDE DEF evt, ski
        <3> QED BY SMTT(40), <1>6, <2>2, <2>3, <3>1, <3>2, <3>3
    <2>5. CASE scope[s] # ski
        <3>1. s \notin Audience(ski) /\ revisions'[scope[s]] = revisions[scope[s]]
            BY <1>3, <2>1, <2>5 DEF Audience, Scoped
        <3> QED BY <2>2, <2>3, <3>1
    <2> QED BY <2>4, <2>5
<1>10. UnusedEmpty'
    BY <1>4, <1>5 DEF UnusedEmpty, BusInv, Audience
<1> QED BY <1>1, <1>7, <1>8, <1>9, <1>10 DEF BusInv

\* Receiving keeps the invariant: the head is the oldest event of an ordered
\* channel, so nothing newer than it is lost with it.
LEMMA ReceiveInv == ASSUME BusInv, NEW s \in Sub, Receive(s) PROVE BusInv'
<1>1. BusTypeOK /\ BusTypeOK'
    BY ReceiveTypeOK DEF BusInv
<1>2. UNCHANGED <<revisions, status, scope, pendingDropped>>
    BY DEF Receive
<1>3. /\ queue[s] \in Seq(Event) /\ queue[s] # <<>>
      /\ queue'[s] = Tail(queue[s])
      /\ \A t \in Sub \ {s} : queue'[t] = queue[t] /\ handedOut'[t] = handedOut[t]
    BY <1>1 DEF Receive, BusTypeOK
<1>4. /\ DOMAIN queue[s] = 1..Len(queue[s])
      /\ Len(queue[s]) \in Nat \ {0}
      /\ DOMAIN queue'[s] = 1..(Len(queue[s]) - 1)
      /\ \A i \in DOMAIN queue'[s] : queue'[s][i] = queue[s][i + 1]
      /\ Head(queue[s]) = queue[s][1]
    BY <1>3
<1>5. \A i \in DOMAIN queue[s] : queue[s][i].rev \in Nat /\ queue[s][i].ski \in Scope
    <2>1. \A i \in DOMAIN queue[s] : queue[s][i] \in Event
        BY <1>3
    <2> QED BY <2>1 DEF Event
<1>6. handedOut[s] \in Nat /\ revisions \in [Scope -> Nat] /\ scope[s] \in Scope
    BY <1>1 DEF BusTypeOK
<1>7. QueueOrdered'
    <2>1. ASSUME NEW t \in Sub, t # s
          PROVE  queue'[t] = queue[t]
        BY <1>3, <2>1
    <2>2. /\ \A i \in DOMAIN queue'[s] :
              /\ queue'[s][i].rev <= revisions[queue'[s][i].ski]
              /\ scope[s] = NoSKI \/ queue'[s][i].ski = scope[s]
          /\ \A i, j \in DOMAIN queue'[s] :
              i < j /\ queue'[s][i].ski = queue'[s][j].ski
                  => queue'[s][i].rev < queue'[s][j].rev
        <3>1. \A i \in DOMAIN queue'[s] : i \in Nat /\ i + 1 \in DOMAIN queue[s]
            BY <1>4
        <3>2. \A i \in DOMAIN queue[s] :
                /\ queue[s][i].rev <= revisions[queue[s][i].ski]
                /\ scope[s] = NoSKI \/ queue[s][i].ski = scope[s]
            BY DEF BusInv, QueueOrdered
        <3>3. \A i, j \in DOMAIN queue[s] :
                i < j /\ queue[s][i].ski = queue[s][j].ski
                    => queue[s][i].rev < queue[s][j].rev
            BY DEF BusInv, QueueOrdered
        <3>4. \A i, j \in DOMAIN queue'[s] : i < j => i + 1 < j + 1
            BY <3>1
        <3> QED BY ZenonT(40), <1>4, <3>1, <3>2, <3>3, <3>4
    <2> QED BY <1>2, <2>1, <2>2 DEF BusInv, QueueOrdered
<1>8. \/ scope[s] = NoSKI /\ handedOut'[s] = handedOut[s]
      \/ /\ scope[s] # NoSKI
         /\ handedOut'[s] = Newest(handedOut[s], queue[s][1].rev)
    BY <1>1, <1>4 DEF Receive, BusTypeOK
<1>9. HandedOutPublished'
    <2> SUFFICES ASSUME NEW t \in Sub, Scoped(t)
                 PROVE  handedOut'[t] <= revisions[scope[t]]
        BY <1>2 DEF HandedOutPublished, Scoped, Live
    <2>1. CASE t # s
        BY <1>3, <2>1 DEF BusInv, HandedOutPublished
    <2>2. CASE t = s
        <3>1. queue[s][1].ski = scope[s] /\ queue[s][1].rev <= revisions[scope[s]]
            BY <1>4, <2>2 DEF BusInv, QueueOrdered, Scoped
        <3> QED BY <1>8, <2>2, <3>1 DEF BusInv, HandedOutPublished, Newest
    <2> QED BY <2>1, <2>2
<1>10. NoSilentLoss'
    <2> SUFFICES ASSUME NEW t \in Sub, Scoped(t), pendingDropped[t] = 0,
                        NEW r \in (handedOut'[t] + 1)..revisions[scope[t]]
                 PROVE  \E i \in DOMAIN queue'[t] : queue'[t][i].rev = r
        BY <1>2 DEF NoSilentLoss, Scoped, Live, Ahead
    <2>1. CASE t # s
        BY <1>3, <2>1 DEF BusInv, NoSilentLoss, Ahead
    <2>2. CASE t = s
        <3>1. r \in (handedOut[s] + 1)..revisions[scope[s]] /\ r > queue[s][1].rev
            BY <1>4, <1>5, <1>6, <1>8, <2>2 DEF Newest, Scoped
        <3>2. PICK i \in DOMAIN queue[s] : queue[s][i].rev = r
            BY <2>2, <3>1 DEF BusInv, NoSilentLoss, Ahead
        <3>3. i # 1 /\ i - 1 \in DOMAIN queue'[s] /\ queue'[s][i - 1] = queue[s][i]
            BY <1>4, <1>5, <3>1, <3>2
        <3> QED BY <2>2, <3>2, <3>3
    <2> QED BY <2>1, <2>2
<1>11. UnusedEmpty'
    BY <1>2, <1>3 DEF UnusedEmpty, BusInv, Receive
<1> QED BY <1>1, <1>7, <1>9, <1>10, <1>11 DEF BusInv

\* Registering keeps the invariant: the channel is empty and the caller is told
\* the revision current at that moment.
LEMMA RegisterInv ==
    ASSUME BusInv, BusTypeOK', NEW s \in Sub, NEW ski \in Scope, Register(s, ski),
           \/ ski = NoSKI /\ handedOut' = handedOut
           \/ handedOut' = [handedOut EXCEPT ![s] = revisions[ski]]
    PROVE  BusInv'
<1>1. /\ status[s] = "new" /\ queue[s] = <<>> /\ pendingDropped[s] = 0
      /\ UNCHANGED <<revisions, queue, pendingDropped>>
      /\ scope'[s] = ski
      /\ \A t \in Sub \ {s} :
            status'[t] = status[t] /\ scope'[t] = scope[t] /\ handedOut'[t] = handedOut[t]
    BY SMTT(40) DEF Register, BusInv, UnusedEmpty, BusTypeOK
<1>2. ski # NoSKI => handedOut'[s] = revisions[ski]
    BY DEF BusInv, BusTypeOK
<1>3. revisions[ski] \in Nat
    BY DEF BusInv, BusTypeOK
<1>4. QueueOrdered'
    BY <1>1 DEF BusInv, QueueOrdered
<1>5. HandedOutPublished'
    BY <1>1, <1>2, <1>3 DEF BusInv, HandedOutPublished, Scoped, Live
<1>6. NoSilentLoss'
    BY <1>1, <1>2, <1>3 DEF BusInv, NoSilentLoss, Scoped, Live, Ahead
<1>7. UnusedEmpty'
    BY <1>1 DEF BusInv, UnusedEmpty
<1> QED BY <1>4, <1>5, <1>6, <1>7 DEF BusInv

\* Every step of the bus keeps the invariant.
LEMMA StepInv == BusInv /\ [BusNext]_busVars => BusInv'
<1> SUFFICES ASSUME BusInv, [BusNext]_busVars PROVE BusInv'
    OBVIOUS
<1>0. BusTypeOK /\ BusTypeOK'
    BY StepTypeOK DEF BusInv
<1>1. ASSUME NEW raw \in RawSKI, NEW type \in EventType, Publish(raw, type)
      PROVE  BusInv'
    <2>1. CASE PublishUnresolved(raw, type)
        BY <1>0, <2>1 DEF PublishUnresolved, BusInv, QueueOrdered, HandedOutPublished,
                          NoSilentLoss, UnusedEmpty, Scoped, Live, Ahead
    <2>2. CASE PublishResolved(raw, type)
        BY <2>2, PublishInv
    <2> QED BY <1>1, <2>1, <2>2 DEF Publish
<1>2. ASSUME NEW s \in Sub, Subscribe(s) PROVE BusInv'
    BY <1>0, <1>2, RegisterInv DEF Subscribe, Scope
<1>3. ASSUME NEW s \in Sub, NEW raw \in RawSKI, SubscribeWithRevision(s, raw)
      PROVE  BusInv'
    BY <1>0, <1>3, RegisterInv, NormalizeInScope DEF SubscribeWithRevision
<1>4. ASSUME NEW s \in Sub, Unsubscribe(s) PROVE BusInv'
    <2>1. /\ queue'[s] = <<>> /\ status'[s] = "gone"
          /\ \A t \in Sub \ {s} : queue'[t] = queue[t] /\ status'[t] = status[t]
          /\ UNCHANGED <<revisions, scope, pendingDropped, handedOut>>
        BY <1>0, <1>4 DEF Unsubscribe, BusTypeOK
    <2> QED BY <1>0, <2>1 DEF BusInv, QueueOrdered, HandedOutPublished, NoSilentLoss,
                              UnusedEmpty, Scoped, Live, Ahead
<1>5. ASSUME NEW s \in Sub, Receive(s) PROVE BusInv'
    BY <1>5, ReceiveInv
<1>6. ASSUME NEW s \in Sub, TakePendingResync(s) PROVE BusInv'
    <2>1. /\ status[s] = "live"
          /\ handedOut'[s] = revisions[scope[s]] /\ revisions[scope[s]] \in Nat
          /\ \A t \in Sub \ {s} : handedOut'[t] = handedOut[t]
                                  /\ pendingDropped'[t] = pendingDropped[t]
          /\ UNCHANGED <<revisions, status, scope, queue>>
        BY <1>0, <1>6 DEF TakePendingResync, ResyncOwed, BusTypeOK
    <2> QED BY <1>0, <2>1 DEF BusInv, QueueOrdered, HandedOutPublished, NoSilentLoss,
                              UnusedEmpty, Scoped, Live, Ahead
<1>7. ASSUME NEW s \in Sub, PostponeResync(s) PROVE BusInv'
    BY <1>0, <1>7 DEF PostponeResync, BusInv, QueueOrdered, HandedOutPublished,
                      NoSilentLoss, UnusedEmpty, Scoped, Live, Ahead
<1>8. CASE UNCHANGED busVars
    BY <1>0, <1>8 DEF busVars, BusInv, QueueOrdered, HandedOutPublished,
                      NoSilentLoss, UnusedEmpty, Scoped, Live, Ahead
<1> QED BY <1>1, <1>2, <1>3, <1>4, <1>5, <1>6, <1>7, <1>8 DEF BusNext

-----------------------------------------------------------------------------

\* The invariant holds of every behaviour of the bus.
THEOREM BusInvariant == BusSpec => []BusInv
<1> QED BY InitInv, StepInv, PTL DEF BusSpec

\* Every channel stays within its buffer, and every variable in its type.
THEOREM BusTypeCorrect == BusSpec => []BusTypeOK
<1> QED BY BusInvariant, PTL DEF BusInv

\* Every channel holds its events in publication order and only events its
\* subscriber asked for.
THEOREM BusOrdered == BusSpec => []QueueOrdered
<1> QED BY BusInvariant, PTL DEF BusInv

\* No event is lost to a subscriber without a resync marker being owed to it,
\* whatever the number of devices and subscribers and the size of the channels.
THEOREM BusNoSilentLoss == BusSpec => []NoSilentLoss
<1> QED BY BusInvariant, PTL DEF BusInv

\* The head of an ordered, complete channel is the very next revision.
LEMMA GapNeedsDrop ==
    ASSUME BusInv, NEW s \in Sub, Scoped(s), queue[s] # <<>>,
           Head(queue[s]).rev > handedOut[s] + 1
    PROVE  pendingDropped[s] > 0
<1>1. /\ queue[s] \in Seq(Event) /\ handedOut[s] \in Nat /\ pendingDropped[s] \in Nat
      /\ revisions \in [Scope -> Nat] /\ scope[s] \in Scope
    BY DEF BusInv, BusTypeOK
<1>2. /\ 1 \in DOMAIN queue[s] /\ DOMAIN queue[s] = 1..Len(queue[s])
      /\ Head(queue[s]) = queue[s][1]
      /\ \A i \in DOMAIN queue[s] : queue[s][i].rev \in Nat
    <2>1. \A i \in DOMAIN queue[s] : queue[s][i] \in Event
        BY <1>1
    <2> QED BY <1>1, <2>1 DEF Event
<1>3. /\ \A i \in DOMAIN queue[s] : queue[s][i].ski = scope[s]
      /\ queue[s][1].rev <= revisions[scope[s]]
    BY <1>2 DEF BusInv, QueueOrdered, Scoped
<1>4. \A i \in DOMAIN queue[s] : i # 1 => queue[s][1].rev < queue[s][i].rev
    BY <1>2, <1>3 DEF BusInv, QueueOrdered
<1>5. ASSUME pendingDropped[s] = 0 PROVE FALSE
    <2>1. handedOut[s] + 1 \in (handedOut[s] + 1)..revisions[scope[s]]
        BY <1>1, <1>2, <1>3
    <2>2. PICK i \in DOMAIN queue[s] : queue[s][i].rev = handedOut[s] + 1
        BY <1>5, <2>1 DEF BusInv, NoSilentLoss, Ahead
    <2> QED BY <1>1, <1>2, <1>4, <2>2
<1> QED BY <1>1, <1>5

\* A consumer never meets a gap in the revisions without being owed a marker.
THEOREM BusGapAnnounced == BusSpec => GapIsAnnounced
<1>1. BusInv => \A s \in Sub :
            Scoped(s) /\ queue[s] # <<>> /\ queue'[s] = Tail(queue[s])
                /\ Head(queue[s]).rev > handedOut[s] + 1
            => pendingDropped[s] > 0
    BY GapNeedsDrop
<1> QED BY BusInvariant, <1>1, PTL DEF BusSpec, GapIsAnnounced

-----------------------------------------------------------------------------
(* The bus implements the feed contract.  Each operation on a scoped        *)
(* subscriber is the feed's action of that kind; what concerns unscoped     *)
(* ones, refused events and postponed markers leaves the feeds alone.       *)

\* Before anyone has subscribed there is no feed.
LEMMA FeedInitial == BusInit => Feeds!Init
<1> SUFFICES ASSUME BusInit PROVE Feeds!Init
    OBVIOUS
<1>1. FeedNewest = [d \in SKI |-> 0]
    BY DEF BusInit, FeedNewest, Scope
<1>2. FeedTopic = [s \in Sub |-> NoSKI] /\ FeedComing = [s \in Sub |-> {}]
    BY DEF BusInit, FeedTopic, FeedComing, Live
<1>3. FeedOwed = {}
    BY DEF BusInit, FeedOwed
<1> QED BY <1>1, <1>2, <1>3 DEF BusInit, Feeds!Init

\* A scoped subscription opens a feed, an unscoped one opens none.
LEMMA FeedRegister ==
    ASSUME BusInv, NEW s \in Sub, NEW ski \in Scope, Register(s, ski),
           handedOut' = [handedOut EXCEPT ![s] = IF ski = NoSKI THEN @ ELSE revisions[ski]]
    PROVE  [Feeds!Next]_(Feeds!vars)
<1>1. /\ BusTypeOK /\ status[s] = "new" /\ queue[s] = <<>> /\ pendingDropped[s] = 0
      /\ UNCHANGED <<revisions, queue, pendingDropped>>
      /\ scope' = [scope EXCEPT ![s] = ski] /\ status' = [status EXCEPT ![s] = "live"]
    BY DEF BusInv, UnusedEmpty, Register
<1>2. FeedNewest' = FeedNewest
    BY <1>1 DEF FeedNewest
<1>3. Ahead(s) = {} /\ \A t \in Sub : Ahead(t)' = Ahead(t)
    BY <1>1 DEF Ahead
<1>4. FeedComing' = FeedComing
    BY <1>1, <1>3 DEF FeedComing, BusTypeOK
<1>5. FeedOwed' = FeedOwed
    BY <1>1 DEF FeedOwed, BusTypeOK
<1>6. FeedTopic[s] = NoSKI /\ FeedTopic' = [FeedTopic EXCEPT ![s] = ski]
    BY <1>1 DEF FeedTopic, Live, BusTypeOK
<1>7. CASE ski = NoSKI
    <2>1. FeedTopic' = FeedTopic /\ handedOut' = handedOut
        BY <1>1, <1>6, <1>7 DEF BusTypeOK, FeedTopic
    <2> QED BY <1>2, <1>4, <1>5, <2>1 DEF Feeds!vars
<1>8. CASE ski # NoSKI
    <2>1. ski \in SKI /\ FeedNewest[ski] = revisions[ski]
        BY <1>8 DEF Scope, FeedNewest
    <2>2. Feeds!Open(s, ski)
        BY <1>2, <1>4, <1>5, <1>6, <1>8, <2>1 DEF Feeds!Open
    <2> QED BY <2>1, <2>2 DEF Feeds!Next
<1> QED BY <1>7, <1>8

\* Unsubscribing closes the feed if there is one.
LEMMA FeedUnsubscribe ==
    ASSUME BusInv, NEW s \in Sub, Unsubscribe(s) PROVE [Feeds!Next]_(Feeds!vars)
<1>1. /\ BusTypeOK /\ status[s] = "live"
      /\ UNCHANGED <<revisions, scope, pendingDropped, handedOut>>
      /\ queue' = [queue EXCEPT ![s] = <<>>] /\ status' = [status EXCEPT ![s] = "gone"]
    BY DEF BusInv, Unsubscribe
<1>2. FeedNewest' = FeedNewest /\ FeedOwed' = FeedOwed
    BY <1>1 DEF FeedNewest, FeedOwed
<1>3. Ahead(s)' = {} /\ \A t \in Sub \ {s} : Ahead(t)' = Ahead(t)
    BY <1>1 DEF Ahead, BusTypeOK
<1>4. FeedComing' = [FeedComing EXCEPT ![s] = {}]
    BY <1>1, <1>3 DEF FeedComing, BusTypeOK
<1>5. FeedTopic[s] = scope[s] /\ FeedTopic' = [FeedTopic EXCEPT ![s] = NoSKI]
    BY <1>1 DEF FeedTopic, Live, BusTypeOK
<1>6. CASE scope[s] = NoSKI
    <2>1. FeedTopic' = FeedTopic /\ FeedComing' = FeedComing
        BY <1>4, <1>5, <1>6 DEF FeedTopic, FeedComing
    <2> QED BY <1>1, <1>2, <2>1 DEF Feeds!vars
<1>7. CASE scope[s] # NoSKI
    <2>1. Feeds!Close(s)
        BY <1>1, <1>2, <1>4, <1>5, <1>7 DEF Feeds!Close
    <2> QED BY <2>1 DEF Feeds!Next
<1> QED BY <1>6, <1>7

\* A published event is a change of its device; the feeds whose channel is full
\* are left out, and owed word of it.
LEMMA FeedPublish ==
    ASSUME BusInv, NEW raw \in RawSKI, NEW type \in EventType, PublishResolved(raw, type)
    PROVE  [Feeds!Next]_(Feeds!vars)
<1> DEFINE ski == NormalizeSKI(raw)
           evt == [ski |-> ski, type |-> type, rev |-> revisions[ski] + 1]
           leftOut == {s \in Missed(ski) : scope[s] = ski}
           take(s) == s \in Audience(ski) /\ ~Full(s)
<1>1. BusTypeOK /\ ski \in Scope
    BY NormalizeInScope DEF BusInv
<1>2. /\ revisions' = [revisions EXCEPT ![ski] = @ + 1]
      /\ queue' = [s \in Sub |-> IF take(s) THEN Append(queue[s], evt) ELSE queue[s]]
      /\ pendingDropped' = [s \in Sub |-> IF s \in Missed(ski)
                                THEN pendingDropped[s] + 1 ELSE pendingDropped[s]]
      /\ UNCHANGED <<status, scope, handedOut>>
    BY DEF PublishResolved
<1> HIDE DEF ski, evt, leftOut, take
<1>3. /\ FeedTopic' = FeedTopic
      /\ FeedNewest' = IF ski = NoSKI THEN FeedNewest
                       ELSE [FeedNewest EXCEPT ![ski] = @ + 1]
    <2>1. FeedTopic' = FeedTopic
        BY <1>2 DEF FeedTopic, Live
    <2>2. /\ revisions \in [Scope -> Nat] /\ SKI \subseteq Scope
          /\ FeedNewest = [k \in SKI |-> revisions[k]]
          /\ FeedNewest' = [k \in SKI |-> revisions'[k]]
        BY <1>1 DEF FeedNewest, BusTypeOK, Scope
    <2>3. \A k \in SKI : revisions'[k] = IF k = ski THEN revisions[k] + 1 ELSE revisions[k]
        BY <1>1, <1>2, <2>2
    <2>4. CASE ski = NoSKI
        BY <2>1, <2>2, <2>3, <2>4, SKIAssumption
    <2>5. CASE ski # NoSKI
        <3>1. ski \in SKI
            BY <1>1, <2>5 DEF Scope
        <3>2. FeedNewest' = [FeedNewest EXCEPT ![ski] = @ + 1]
            BY <2>2, <2>3, <3>1
        <3> QED BY <2>1, <2>5, <3>2
    <2> QED BY <2>4, <2>5
<1>4. ASSUME NEW s \in Sub
      PROVE  Ahead(s)' = IF take(s) THEN Ahead(s) \cup {revisions[ski] + 1} ELSE Ahead(s)
    <2>1. CASE take(s)
        <3>1. queue[s] \in Seq(Event) /\ queue'[s] = Append(queue[s], evt)
            BY <1>1, <1>2, <2>1 DEF BusTypeOK
        <3>2. evt.rev = revisions[ski] + 1
            BY DEF evt
        <3>3. /\ Len(queue[s]) \in Nat
              /\ DOMAIN queue[s] = 1..Len(queue[s])
              /\ DOMAIN queue'[s] = 1..(Len(queue[s]) + 1)
              /\ \A i \in 1..Len(queue[s]) : queue'[s][i] = queue[s][i]
              /\ queue'[s][Len(queue[s]) + 1] = evt
            BY <3>1
        <3>4. ASSUME NEW r PROVE r \in Ahead(s)' <=> r \in Ahead(s) \cup {evt.rev}
            BY <3>3 DEF Ahead
        <3> QED BY <2>1, <3>2, <3>4
    <2>2. CASE ~take(s)
        BY <1>2, <2>2 DEF Ahead
    <2> QED BY <2>1, <2>2
<1>5. CASE ski = NoSKI
    <2>1. \A s \in Sub : scope[s] # NoSKI => ~take(s) /\ s \notin Missed(ski)
        BY <1>5 DEF take, Missed, Audience
    <2>2. FeedComing' = FeedComing
        BY <1>2, <1>4, <2>1 DEF FeedComing
    <2>3. FeedOwed' = FeedOwed
        BY <1>2, <2>1 DEF FeedOwed
    <2> QED BY <1>2, <1>3, <1>5, <2>2, <2>3 DEF Feeds!vars
<1>6. CASE ski # NoSKI
    <2>1. ski \in SKI /\ revisions[ski] = FeedNewest[ski]
        BY <1>1, <1>6 DEF Scope, FeedNewest
    <2>2. leftOut \in SUBSET {f \in Sub : FeedTopic[f] = ski}
        BY DEF leftOut, Missed, Audience, FeedTopic, Live
    <2>3. \A s \in Sub : scope[s] # NoSKI =>
              (take(s) <=> FeedTopic[s] = ski /\ s \notin leftOut)
        BY <1>6 DEF take, leftOut, Missed, Audience, FeedTopic, Live
    <2>4. \A s \in Sub : FeedTopic[s] = ski => scope[s] # NoSKI
        BY <1>6 DEF FeedTopic
    <2>5. FeedComing' = [f \in Sub |-> IF FeedTopic[f] = ski /\ f \notin leftOut
                             THEN FeedComing[f] \cup {FeedNewest[ski] + 1} ELSE FeedComing[f]]
        BY <1>2, <1>4, <2>1, <2>3, <2>4 DEF FeedComing
    <2>6. \A s \in Sub : scope[s] # NoSKI => (s \in Missed(ski) <=> s \in leftOut)
        BY DEF leftOut, Missed, Audience
    <2>7. FeedOwed' = FeedOwed \cup leftOut
        <3>1. leftOut \subseteq Sub /\ \A s \in leftOut : scope[s] # NoSKI
            BY <1>6 DEF leftOut, Missed, Audience
        <3>2. \A s \in Sub : pendingDropped[s] \in Nat
            BY <1>1 DEF BusTypeOK
        <3> QED BY <1>2, <2>6, <3>1, <3>2 DEF FeedOwed
    <2>8. Feeds!Change(ski, leftOut)
        BY <1>2, <1>3, <1>6, <2>5, <2>7 DEF Feeds!Change
    <2> QED BY <2>1, <2>2, <2>8 DEF Feeds!Next
<1> QED BY <1>5, <1>6

\* Receiving hands out the oldest of the feed's changes; GapNeedsDrop is the
\* contract's condition on it.
LEMMA FeedReceive ==
    ASSUME BusInv, NEW s \in Sub, Receive(s) PROVE [Feeds!Next]_(Feeds!vars)
<1>1. /\ BusTypeOK /\ status[s] = "live" /\ queue[s] # <<>>
      /\ UNCHANGED <<revisions, status, scope, pendingDropped>>
      /\ queue' = [queue EXCEPT ![s] = Tail(@)]
      /\ handedOut' = [handedOut EXCEPT ![s] =
                          IF scope[s] = NoSKI THEN @ ELSE Newest(@, Head(queue[s]).rev)]
    BY DEF BusInv, Receive
<1>2. FeedNewest' = FeedNewest /\ FeedOwed' = FeedOwed /\ FeedTopic' = FeedTopic
    BY <1>1 DEF FeedNewest, FeedOwed, FeedTopic, Live
<1>3. \A t \in Sub \ {s} : Ahead(t)' = Ahead(t)
    BY <1>1 DEF Ahead, BusTypeOK
<1>4. CASE scope[s] = NoSKI
    <2>1. handedOut' = handedOut
        BY <1>1, <1>4 DEF BusTypeOK
    <2>2. FeedComing' = FeedComing
        BY <1>1, <1>3, <1>4 DEF FeedComing
    <2> QED BY <1>2, <2>1, <2>2 DEF Feeds!vars
<1>5. CASE scope[s] # NoSKI
    <2> DEFINE r == Head(queue[s]).rev
    <2>1. /\ queue[s] \in Seq(Event) /\ queue'[s] = Tail(queue[s])
          /\ Len(queue[s]) \in Nat \ {0}
          /\ DOMAIN queue[s] = 1..Len(queue[s])
          /\ DOMAIN queue'[s] = 1..(Len(queue[s]) - 1)
          /\ \A i \in DOMAIN queue'[s] : queue'[s][i] = queue[s][i + 1]
          /\ r = queue[s][1].rev
        BY <1>1 DEF BusTypeOK
    <2>2. \A i \in DOMAIN queue[s] : queue[s][i].rev \in Nat
        <3>1. \A i \in DOMAIN queue[s] : queue[s][i] \in Event
            BY <2>1
        <3> QED BY <3>1 DEF Event
    <2> HIDE DEF r
    <2>3. \A i \in DOMAIN queue[s] : i # 1 => r < queue[s][i].rev
        BY <1>5, <2>1 DEF BusInv, QueueOrdered
    <2>4. r \in Ahead(s) /\ \A q \in Ahead(s) : r <= q
        BY <2>1, <2>2, <2>3 DEF Ahead
    <2>5. Ahead(s)' = Ahead(s) \ {r}
        <3>1. ASSUME NEW q \in Ahead(s) \ {r} PROVE q \in Ahead(s)'
            <4>1. PICK i \in DOMAIN queue[s] : queue[s][i].rev = q
                BY DEF Ahead
            <4>2. i - 1 \in DOMAIN queue'[s] /\ queue'[s][i - 1] = queue[s][i]
                BY <2>1, <3>1, <4>1
            <4> QED BY <4>1, <4>2 DEF Ahead
        <3>2. ASSUME NEW q \in Ahead(s)' PROVE q \in Ahead(s) \ {r}
            <4>1. PICK i \in DOMAIN queue'[s] : queue'[s][i].rev = q
                BY DEF Ahead
            <4>2. /\ i + 1 \in DOMAIN queue[s] /\ i + 1 # 1
                  /\ queue[s][i + 1].rev = q
                BY <2>1, <4>1
            <4> QED BY <2>1, <2>2, <2>3, <4>2 DEF Ahead
        <3> QED BY <3>1, <3>2
    <2>6. FeedComing[s] = Ahead(s) /\ FeedComing' = [FeedComing EXCEPT ![s] = @ \ {r}]
        BY <1>1, <1>3, <1>5, <2>5 DEF FeedComing
    <2>7. r <= handedOut[s] + 1 \/ s \in FeedOwed
        <3>1. Scoped(s) /\ (Head(queue[s]).rev > handedOut[s] + 1 => pendingDropped[s] > 0)
            BY <1>1, <1>5, GapNeedsDrop DEF Scoped, Live
        <3>2. r \in Nat /\ handedOut[s] \in Nat /\ pendingDropped[s] \in Nat
            <4>1. 1 \in DOMAIN queue[s]
                BY <2>1
            <4>2. r \in Nat
                BY <2>1, <2>2, <4>1
            <4> QED BY <1>1, <4>2 DEF BusTypeOK
        <3>3. r = Head(queue[s]).rev
            BY DEF r
        <3> QED BY <1>5, <3>1, <3>2, <3>3 DEF FeedOwed
    <2>8. handedOut' = [handedOut EXCEPT ![s] = Feeds!Later(@, r)]
        BY <1>1, <1>5 DEF Feeds!Later, Newest, r
    <2>9. FeedTopic[s] # NoSKI
        BY <1>1, <1>5 DEF FeedTopic, Live
    <2>10. Feeds!HandOut(s)
        BY <1>2, <2>4, <2>6, <2>7, <2>8, <2>9 DEF Feeds!HandOut
    <2> QED BY <2>10 DEF Feeds!Next
<1> QED BY <1>4, <1>5

\* The marker is the word the feed is owed.
LEMMA FeedTake ==
    ASSUME BusInv, NEW s \in Sub, TakePendingResync(s) PROVE [Feeds!Next]_(Feeds!vars)
<1>1. /\ BusTypeOK /\ status[s] = "live" /\ scope[s] # NoSKI /\ pendingDropped[s] # 0
      /\ UNCHANGED <<revisions, status, scope, queue>>
      /\ handedOut' = [handedOut EXCEPT ![s] = revisions[scope[s]]]
      /\ pendingDropped' = [pendingDropped EXCEPT ![s] = 0]
    BY DEF BusInv, TakePendingResync, ResyncOwed, PendingCleared
<1>2. FeedNewest' = FeedNewest /\ FeedTopic' = FeedTopic /\ FeedComing' = FeedComing
    BY <1>1 DEF FeedNewest, FeedTopic, FeedComing, Live, Ahead
<1>3. s \in FeedOwed /\ FeedOwed' = FeedOwed \ {s}
    BY <1>1 DEF FeedOwed, BusTypeOK
<1>4. FeedTopic[s] = scope[s] /\ FeedNewest[scope[s]] = revisions[scope[s]]
    BY <1>1 DEF FeedTopic, FeedNewest, Live, BusTypeOK, Scope
<1>5. Feeds!Tell(s)
    BY <1>1, <1>2, <1>3, <1>4 DEF Feeds!Tell
<1> QED BY <1>5 DEF Feeds!Next

\* Refused events, postponed markers and steps outside the bus.
LEMMA FeedStutters ==
    ASSUME UNCHANGED <<revisions, status, scope, queue, pendingDropped, handedOut>>
    PROVE  UNCHANGED Feeds!vars
BY DEF Feeds!vars, FeedNewest, FeedTopic, FeedComing, FeedOwed, Live, Ahead

\* Every step of the bus is one of the contract's or changes none of its variables.
LEMMA FeedStep == BusInv /\ [BusNext]_busVars => [Feeds!Next]_(Feeds!vars)
<1> SUFFICES ASSUME BusInv, [BusNext]_busVars PROVE [Feeds!Next]_(Feeds!vars)
    OBVIOUS
<1>1. ASSUME NEW raw \in RawSKI, NEW type \in EventType, Publish(raw, type)
      PROVE  [Feeds!Next]_(Feeds!vars)
    <2>1. CASE PublishUnresolved(raw, type)
        BY <2>1, FeedStutters DEF PublishUnresolved
    <2>2. CASE PublishResolved(raw, type)
        BY <2>2, FeedPublish
    <2> QED BY <1>1, <2>1, <2>2 DEF Publish
<1>2. ASSUME NEW s \in Sub, Subscribe(s) PROVE [Feeds!Next]_(Feeds!vars)
    <2>1. handedOut' = [handedOut EXCEPT ![s] =
                            IF NoSKI = NoSKI THEN @ ELSE revisions[NoSKI]]
        BY <1>2 DEF Subscribe, BusInv, BusTypeOK
    <2> QED BY <1>2, <2>1, FeedRegister DEF Subscribe, Scope
<1>3. ASSUME NEW s \in Sub, NEW raw \in RawSKI, NormalizeSKI(raw) # NoSKI,
             SubscribeWithRevision(s, raw)
      PROVE  [Feeds!Next]_(Feeds!vars)
    BY <1>3, FeedRegister, NormalizeInScope DEF SubscribeWithRevision
<1>4. ASSUME NEW s \in Sub, PostponeResync(s) PROVE [Feeds!Next]_(Feeds!vars)
    BY <1>4, FeedStutters DEF PostponeResync
<1>5. CASE UNCHANGED busVars
    BY <1>5, FeedStutters DEF busVars
<1> QED
    BY <1>1, <1>2, <1>3, <1>4, <1>5, FeedUnsubscribe, FeedReceive, FeedTake DEF BusNext

\* The bus keeps the feed contract, whatever the number of devices and subscribers
\* and the size of the channels: a client is handed the changes of its device in order,
\* and never left with a gap it is not told of.
THEOREM BusKeepsFeeds == BusSpec => FeedKept
<1> QED BY BusInvariant, FeedInitial, FeedStep, PTL DEF BusSpec, FeedKept, Feeds!Spec

-----------------------------------------------------------------------------
(* Counting drops.  A counter that grows by n is the set of what it has    *)
(* counted with n elements more; a publication adds one for each of the    *)
(* subscribers that missed it, and takes a number that grows by as much.   *)

LEMMA CountedElements ==
    ASSUME NEW K, NEW count, NEW p
    PROVE  p \in Counted(count, K) <=> \E k \in K : \E i \in 1 .. count[k] : p = <<k, i>>
<1>1. p \in Counted(count, K) <=> \E k \in K : p \in {k} \X (1 .. count[k])
    BY DEF Counted
<1> QED BY <1>1

\* One counter grows by n.
LEMMA CountedMore ==
    ASSUME NEW K, NEW f \in [K -> Nat], NEW g \in [K -> Nat], NEW k \in K, NEW n \in Nat,
           g[k] = f[k] + n, \A j \in K \ {k} : g[j] = f[j], IsFiniteSet(Counted(f, K))
    PROVE  IsFiniteSet(Counted(g, K)) /\ Cardinality(Counted(g, K)) = Cardinality(Counted(f, K)) + n
<1> DEFINE New == {<<k, i>> : i \in f[k] + 1 .. f[k] + n}
           b == [i \in 1 .. n |-> <<k, f[k] + i>>]
<1>1. f[k] \in Nat /\ g \in [K -> Nat] /\ g[k] = f[k] + n /\ \A j \in K \ {k} : g[j] = f[j]
    OBVIOUS
<1>2. Counted(g, K) = Counted(f, K) \cup New
    <2>1. \A i : i \in 1 .. f[k] + n <=> i \in 1 .. f[k] \/ i \in f[k] + 1 .. f[k] + n
        BY <1>1
    <2>2. ASSUME NEW p PROVE p \in Counted(g, K) <=> p \in Counted(f, K) \/ p \in New
        <3>1. p \in Counted(g, K) <=> \E j \in K : \E i \in 1 .. g[j] : p = <<j, i>>
            BY CountedElements
        <3>2. p \in Counted(f, K) <=> \E j \in K : \E i \in 1 .. f[j] : p = <<j, i>>
            BY CountedElements
        <3>3. ASSUME NEW j \in K \ {k}
              PROVE  (\E i \in 1 .. g[j] : p = <<j, i>>) <=> (\E i \in 1 .. f[j] : p = <<j, i>>)
            BY <1>1
        <3>4. (\E i \in 1 .. g[k] : p = <<k, i>>) <=> (\E i \in 1 .. f[k] : p = <<k, i>>) \/ p \in New
            BY <1>1, <2>1
        <3>5. p \in New => \E i \in 1 .. g[k] : p = <<k, i>>
            BY <3>4
        <3> HIDE DEF New
        <3> QED BY <3>1, <3>2, <3>3, <3>4, <3>5
    <2> QED BY <2>2
<1>3. Counted(f, K) \cap New = {}
    <2>1. ASSUME NEW i \in f[k] + 1 .. f[k] + n PROVE <<k, i>> \notin Counted(f, K)
        <3>1. <<k, i>> \in Counted(f, K) => \E j \in K : \E m \in 1 .. f[j] : <<k, i>> = <<j, m>>
            BY CountedElements
        <3> QED BY <1>1, <3>1
    <2> QED BY <2>1
<1>4. IsFiniteSet(New) /\ Cardinality(New) = n
    <2>1. \A i \in 1 .. n : f[k] + i \in f[k] + 1 .. f[k] + n
        BY <1>1
    <2>2. \A i \in f[k] + 1 .. f[k] + n : i - f[k] \in 1 .. n /\ f[k] + (i - f[k]) = i
        BY <1>1
    <2>3. b \in [1 .. n -> New]
        BY <2>1
    <2>4. \A i, j \in 1 .. n : b[i] = b[j] => i = j
        BY <1>1
    <2>5. \A p \in New : \E i \in 1 .. n : b[i] = p
        BY <2>2
    <2> HIDE DEF b, New
    <2>6. b \in Bijection(1 .. n, New)
        BY <2>3, <2>4, <2>5, Fun_IsBij
    <2>7. ExistsBijection(1 .. n, New)
        BY <2>6, Fun_ExistsBij
    <2> QED BY <2>7, FS_NatBijection, FS_CountingElements
<1> HIDE DEF New
<1>5. Cardinality(Counted(f, K) \cap New) = 0
    BY <1>3, FS_EmptySet
<1>6. Cardinality(Counted(f, K)) \in Nat
    BY FS_CardinalityType
<1> QED BY <1>2, <1>4, <1>5, <1>6, FS_Union

\* The counters of M grow by one.
LEMMA CountedEach ==
    ASSUME NEW K, NEW f \in [K -> Nat], NEW M \in SUBSET K, IsFiniteSet(M),
           NEW g, g = [j \in K |-> IF j \in M THEN f[j] + 1 ELSE f[j]], IsFiniteSet(Counted(f, K))
    PROVE  /\ IsFiniteSet(Counted(g, K))
           /\ Cardinality(Counted(g, K)) = Cardinality(Counted(f, K)) + Cardinality(M)
<1> DEFINE New == {<<j, f[j] + 1>> : j \in M}
           b == [j \in M |-> <<j, f[j] + 1>>]
<1>2. Counted(g, K) = Counted(f, K) \cup New
    <2>1. \A m \in Nat : \A i : i \in 1 .. m + 1 <=> i \in 1 .. m \/ i = m + 1
        OBVIOUS
    <2>2. ASSUME NEW p PROVE p \in Counted(g, K) <=> p \in Counted(f, K) \/ p \in New
        <3>1. p \in Counted(g, K) <=> \E j \in K : \E i \in 1 .. g[j] : p = <<j, i>>
            BY CountedElements
        <3>2. p \in Counted(f, K) <=> \E j \in K : \E i \in 1 .. f[j] : p = <<j, i>>
            BY CountedElements
        <3>3. ASSUME NEW j \in K \ M
              PROVE  (\E i \in 1 .. g[j] : p = <<j, i>>) <=> (\E i \in 1 .. f[j] : p = <<j, i>>)
            OBVIOUS
        <3>4. ASSUME NEW j \in M
              PROVE  (\E i \in 1 .. g[j] : p = <<j, i>>)
                         <=> (\E i \in 1 .. f[j] : p = <<j, i>>) \/ p = <<j, f[j] + 1>>
            <4>1. j \in K /\ f[j] \in Nat /\ g[j] = f[j] + 1
                OBVIOUS
            <4>2. \A i : i \in 1 .. f[j] + 1 <=> i \in 1 .. f[j] \/ i = f[j] + 1
                BY <2>1, <4>1
            <4> QED BY <4>1, <4>2
        <3>5. p \in New <=> \E j \in M : p = <<j, f[j] + 1>>
            OBVIOUS
        <3> HIDE DEF New
        <3> QED BY <3>1, <3>2, <3>3, <3>4, <3>5
    <2> QED BY <2>2
<1>3. Counted(f, K) \cap New = {}
    <2>1. ASSUME NEW j \in M PROVE <<j, f[j] + 1>> \notin Counted(f, K)
        <3>1. <<j, f[j] + 1>> \in Counted(f, K) => \E k \in K : \E m \in 1 .. f[k] : <<j, f[j] + 1>> = <<k, m>>
            BY CountedElements
        <3>2. f[j] \in Nat
            OBVIOUS
        <3> QED BY <3>1, <3>2
    <2> QED BY <2>1
<1>4. IsFiniteSet(New) /\ Cardinality(New) = Cardinality(M)
    <2>1. b \in [M -> New] /\ (\A i, j \in M : b[i] = b[j] => i = j) /\ (\A p \in New : \E i \in M : b[i] = p)
        OBVIOUS
    <2> HIDE DEF b, New
    <2>2. b \in Bijection(M, New)
        BY <2>1, Fun_IsBij
    <2>3. ExistsBijection(M, New)
        BY <2>2, Fun_ExistsBij
    <2> QED BY <2>3, FS_Bijection
<1> HIDE DEF New
<1>5. Cardinality(Counted(f, K) \cap New) = 0
    BY <1>3, FS_EmptySet
<1>6. Cardinality(Counted(f, K)) \in Nat /\ Cardinality(M) \in Nat
    BY FS_CardinalityType
<1> QED BY <1>2, <1>4, <1>5, <1>6, FS_Union

LEMMA CountedNone ==
    ASSUME NEW K, NEW f, f = [k \in K |-> 0]
    PROVE  IsFiniteSet(Counted(f, K)) /\ Cardinality(Counted(f, K)) = 0
<1>1. Counted(f, K) = {}
    <2>1. \A k \in K : 1 .. f[k] = {}
        OBVIOUS
    <2> QED BY <2>1, CountedElements
<1> QED BY <1>1, FS_EmptySet

DropInv ==
    /\ DropsAccounted
    /\ IsFiniteSet(Counted(droppedByDevice, Scope))
    /\ IsFiniteSet(Counted(pendingDropped, Sub)) /\ IsFiniteSet(Counted(announced, Sub))

LEMMA DropInvStep == BusInv /\ DropInv /\ [BusNext]_busVars => DropInv'
<1> SUFFICES ASSUME BusInv, DropInv, [BusNext]_busVars PROVE DropInv'
    OBVIOUS
<1>0. /\ pendingDropped \in [Sub -> Nat] /\ announced \in [Sub -> Nat]
      /\ droppedByDevice \in [Scope -> Nat]
    BY DEF BusInv, BusTypeOK
<1> DEFINE D == Cardinality(Counted(droppedByDevice, Scope))
           P == Cardinality(Counted(pendingDropped, Sub))
           A == Cardinality(Counted(announced, Sub))
<1>1. D \in Nat /\ P \in Nat /\ A \in Nat /\ D = P + A
    BY FS_CardinalityType DEF DropInv, DropsAccounted
<1>2. CASE UNCHANGED <<pendingDropped, announced, droppedByDevice>>
    BY <1>2 DEF DropInv, DropsAccounted
<1>3. ASSUME NEW raw \in RawSKI, NEW type \in EventType, PublishResolved(raw, type)
      PROVE  DropInv'
    <2> PICK ski : ski = NormalizeSKI(raw)
        OBVIOUS
    <2>1. ski \in Scope
        BY NormalizeInScope
    <2>2. /\ pendingDropped' = [s \in Sub |-> IF s \in Missed(ski) THEN pendingDropped[s] + 1
                                                                   ELSE pendingDropped[s]]
          /\ droppedByDevice' = [droppedByDevice EXCEPT ![ski] = @ + Cardinality(Missed(ski))]
          /\ announced' = announced
        BY <1>3 DEF PublishResolved
    <2>3. Missed(ski) \in SUBSET Sub /\ IsFiniteSet(Missed(ski)) /\ Cardinality(Missed(ski)) \in Nat
        BY MissedCount, SubAssumption, FS_Subset DEF Missed, Audience
    <2>7. /\ droppedByDevice' \in [Scope -> Nat]
          /\ droppedByDevice'[ski] = droppedByDevice[ski] + Cardinality(Missed(ski))
          /\ \A j \in Scope \ {ski} : droppedByDevice'[j] = droppedByDevice[j]
        BY <1>0, <2>1, <2>2, <2>3
    <2>4. /\ IsFiniteSet(Counted(droppedByDevice', Scope))
          /\ Cardinality(Counted(droppedByDevice', Scope)) = D + Cardinality(Missed(ski))
        BY <1>0, <2>1, <2>3, <2>7, CountedMore DEF DropInv
    <2>5. /\ IsFiniteSet(Counted(pendingDropped', Sub))
          /\ Cardinality(Counted(pendingDropped', Sub)) = P + Cardinality(Missed(ski))
        BY <1>0, <2>2, <2>3, CountedEach DEF DropInv
    <2>6. Counted(announced', Sub) = Counted(announced, Sub)
        BY <2>2
    <2> QED BY <1>1, <2>3, <2>4, <2>5, <2>6 DEF DropInv, DropsAccounted
<1>4. ASSUME NEW s \in Sub, TakePendingResync(s) PROVE DropInv'
    <2> PICK n : n = pendingDropped[s]
        OBVIOUS
    <2>0. n \in Nat
        BY <1>0
    <2>1. /\ pendingDropped' = [pendingDropped EXCEPT ![s] = 0]
          /\ announced' = [announced EXCEPT ![s] = @ + n]
          /\ droppedByDevice' = droppedByDevice
        BY <1>0, <1>4 DEF TakePendingResync, PendingCleared
    <2>2. /\ pendingDropped' \in [Sub -> Nat] /\ pendingDropped[s] = pendingDropped'[s] + n
          /\ \A j \in Sub \ {s} : pendingDropped[j] = pendingDropped'[j]
        BY <1>0, <2>0, <2>1
    <2>8. /\ announced' \in [Sub -> Nat] /\ announced'[s] = announced[s] + n
          /\ \A j \in Sub \ {s} : announced'[j] = announced[j]
        BY <1>0, <2>0, <2>1
    <2>3. /\ IsFiniteSet(Counted(announced', Sub))
          /\ Cardinality(Counted(announced', Sub)) = A + n
        BY <1>0, <2>0, <2>8, CountedMore DEF DropInv
    <2>4. IsFiniteSet(Counted(pendingDropped', Sub))
        <3>1. Counted(pendingDropped', Sub) \subseteq Counted(pendingDropped, Sub)
            <4>1. \A t \in Sub : 1 .. pendingDropped'[t] \subseteq 1 .. pendingDropped[t]
                BY <1>0, <2>1
            <4> QED BY <4>1, CountedElements
        <3> QED BY <3>1, FS_Subset DEF DropInv
    <2>5. P = Cardinality(Counted(pendingDropped', Sub)) + n
        <3>1. PICK f, g : f = pendingDropped' /\ g = pendingDropped
            OBVIOUS
        <3>2. /\ f \in [Sub -> Nat] /\ g \in [Sub -> Nat] /\ g[s] = f[s] + n
              /\ \A j \in Sub \ {s} : g[j] = f[j]
            BY <1>0, <2>2, <3>1
        <3>3. Cardinality(Counted(g, Sub)) = Cardinality(Counted(f, Sub)) + n
            BY <2>0, <2>4, <3>1, <3>2, CountedMore
        <3> QED BY <3>1, <3>3
    <2>6. Counted(droppedByDevice', Scope) = Counted(droppedByDevice, Scope)
        BY <2>1
    <2>7. Cardinality(Counted(pendingDropped', Sub)) \in Nat
        BY <2>4, FS_CardinalityType
    <2> QED BY <1>1, <2>0, <2>1, <2>3, <2>4, <2>5, <2>6, <2>7 DEF DropInv, DropsAccounted
<1>5. \/ UNCHANGED <<pendingDropped, announced, droppedByDevice>>
      \/ \E raw \in RawSKI, type \in EventType : PublishResolved(raw, type)
      \/ \E s \in Sub : TakePendingResync(s)
    BY DEF BusNext, busVars, Publish, PublishUnresolved, Subscribe, SubscribeWithRevision, Register,
           Unsubscribe, Receive, PostponeResync
<1> QED BY <1>2, <1>3, <1>4, <1>5

\* Every drop is reported by exactly one marker or is still pending: none is lost between
\* the bus's two sets of counters, and none is reported twice (Publish, TakePendingResync).
THEOREM BusDropsAccounted == BusSpec => []DropsAccounted
<1>1. BusInit => DropInv
    BY CountedNone DEF BusInit, DropInv, DropsAccounted
<1> QED BY <1>1, InitInv, StepInv, DropInvStep, PTL DEF BusSpec, DropInv

-----------------------------------------------------------------------------
(* The device stream.                                                      *)

StreamTypes ==
    /\ unpublished \in Nat
    /\ server \in [Sub -> {"new", "initial", "take", "select", "done"}]
    /\ wire \in [Sub -> Seq(Envelope)]
    /\ stream \in Sub \cup {NoStream}
    /\ lastRevision \in Nat \cup {NoRevision}
    /\ fresh \in BOOLEAN /\ trailing \in BOOLEAN /\ revised \in BOOLEAN /\ queued \in BOOLEAN
    /\ absorbed \in BOOLEAN
    /\ refresh \in {"idle", "start", "await"} /\ poll \in {"idle", "sent", "answered"}

Serving(s) == stream = s /\ server[s] \in {"take", "select"}

\* What a goroutine and its client have in common: nothing is newer than handedOut.
Attached ==
    /\ \A s \in Sub : server[s] = "new" => wire[s] = <<>>
    /\ \A s \in Sub : stream = s => /\ server[s] # "done"
                                    /\ server[s] # "new" => Live(s) /\ scope[s] = Device
                                    /\ server[s] \in {"new", "initial"} => wire[s] = <<>> /\ lastRevision = NoRevision
    /\ \A s \in Sub : Serving(s) =>
        /\ lastRevision # NoRevision \/ wire[s] # <<>>
        /\ lastRevision # NoRevision => lastRevision <= handedOut[s]
        /\ \A i \in DOMAIN wire[s] : wire[s][i].rev <= handedOut[s]

\* The client shows the leaf as it is, or as unavailable, and no poll in flight will undo it.
UpToDate(v) == v \in {live, Absent}
Sound ==
    /\ fresh => value = live
    /\ poll = "answered" /\ ~revised => UpToDate(polled)

\* A poll will read the leaf, or has, and will not be held against the stream; or the request
\* for it was dropped.
PollComes ==
    \/ refresh = "start" \/ (refresh = "await" /\ trailing)
    \/ queued \/ absorbed
    \/ poll = "sent" /\ ~revised
    \/ poll = "answered" /\ ~revised /\ UpToDate(polled)

\* What the envelopes behind the first i carry is up to date.
Carries(e) == e.kind \in {"snapshot", "delta"}
Fresher(s, i) == \A j \in DOMAIN wire[s] : i < j /\ Carries(wire[s][j]) => UpToDate(wire[s][j].val)

\* The client will not take the envelope for a stale one, and will miss a revision before it.
Unseen(s, i) ==
    /\ lastRevision # NoRevision => lastRevision < wire[s][i].rev
    /\ \A j \in DOMAIN wire[s] : j < i => wire[s][j].rev < wire[s][i].rev
Skips(s, i) ==
    /\ lastRevision # NoRevision \/ i > 1
    /\ \E r \in Nat : /\ r < wire[s][i].rev
                      /\ lastRevision # NoRevision => lastRevision < r
                      /\ \A j \in DOMAIN wire[s] : j < i => wire[s][j].rev < r
Repairs(s, i) ==
    /\ Unseen(s, i)
    /\ \/ wire[s][i].kind \in {"resync", "device"}
       \/ Skips(s, i)
       \/ Carries(wire[s][i]) /\ UpToDate(wire[s][i].val)

\* Where the latest change of the leaf is, on its way to the client.
InChannel(s) == \E i \in DOMAIN queue[s] : queue[s][i].type = "delta" /\ handedOut[s] < queue[s][i].rev
Dropped(s) == \E r \in Nat : handedOut[s] < r /\ r <= revisions[Device] /\ r \notin Ahead(s)
OnWire(s) == \E i \in DOMAIN wire[s] : Repairs(s, i) /\ Fresher(s, i)
Arrived(s) == Fresher(s, 0) /\ (PollComes \/ Sound)

\* The latest change is on its way, has arrived, or will be polled, unless the request for that
\* poll was dropped.
Mirrors == unpublished = 0 =>
    \A s \in Sub : Serving(s) => InChannel(s) \/ Dropped(s) \/ OnWire(s) \/ Arrived(s)

ClientInv == StreamTypes /\ Attached /\ NoStrandedResync /\ Mirrors
StreamInv == BusInv /\ ClientInv

LEMMA StreamInitial == StreamInit => StreamInv
<1> SUFFICES ASSUME StreamInit PROVE StreamInv
    OBVIOUS
<1>1. BusInv
    BY InitInv DEF StreamInit
<1>2. StreamTypes /\ Attached /\ NoStrandedResync /\ Mirrors
  <2>1. StreamTypes
    <3>1. wire \in [Sub -> Seq(Envelope)] /\ server \in [Sub -> {"new", "initial", "take", "select", "done"}]
        BY DEF StreamInit
    <3>2. QED
        BY <3>1 DEF StreamInit, StreamTypes
  <2>2. Attached /\ NoStrandedResync /\ Mirrors
      BY ClientAssumption DEF StreamInit, Attached, Serving, NoStrandedResync, Mirrors
  <2>3. QED
      BY <2>1, <2>2
<1>3. QED
    BY <1>1, <1>2 DEF StreamInv, ClientInv

\* Every step of the stream is one of the bus, or leaves the bus alone.
LEMMA StreamBus == [StreamNext]_streamVars => [BusNext]_busVars
<1> SUFFICES ASSUME [StreamNext]_streamVars PROVE BusNext \/ UNCHANGED busVars
    OBVIOUS
<1> USE DeviceAssumption, SKIAssumption
<1>1. ASSUME NEW type \in EventType, Publish(Device, type) PROVE BusNext
    BY <1>1 DEF BusNext
<1>2. CASE PublishChange \/ PublishOther
    BY <1>1, <1>2 DEF PublishChange, PublishOther
<1>3. ASSUME NEW s \in Sub, Serve(s) \/ Connect(s) PROVE BusNext \/ UNCHANGED busVars
  <2>1. CASE ServeSubscribe(s)
    <3>1. SubscribeWithRevision(s, Device) /\ NormalizeSKI(Device) # NoSKI
        BY <2>1 DEF ServeSubscribe
    <3>2. QED
        BY <3>1 DEF BusNext
  <2>2. CASE ServeResync(s) \/ ServeNoResync(s) \/ ServeEvent(s) \/ ServeEnd(s)
      BY <2>2 DEF ServeResync, ServeNoResync, ServeEvent, ServeEnd, BusNext
  <2>3. CASE ServeInitial(s) \/ Connect(s)
      BY <2>3 DEF ServeInitial, Connect
  <2>4. QED
      BY <1>3, <2>1, <2>2, <2>3 DEF Serve
<1>4. CASE Change \/ Break \/ HandleEnvelope \/ RefreshCall \/ RefreshReturn \/ TimedPoll
           \/ PeriodicPoll \/ PollRead \/ PollApply \/ PollFail
    BY <1>4 DEF Change, Break, HandleEnvelope, RefreshCall, RefreshReturn, TimedPoll, PeriodicPoll,
                PollRead, PollApply, PollFail
<1>5. QED
    BY <1>2, <1>3, <1>4 DEF StreamNext, streamVars

\* While the stream's end of the bus stays, so does what the goroutine and its client share.
LEMMA AttachedSame ==
    ASSUME Attached, UNCHANGED <<server, wire, stream, lastRevision, status, scope, handedOut>>
    PROVE  Attached'
BY DEF Attached, Serving, Live

\* A publication reaches the channel of a stream, or finds it full.
LEMMA Published ==
    ASSUME BusInv, NEW type \in EventType, Publish(Device, type), NEW s \in Sub, Live(s), scope[s] = Device
    PROVE  /\ UNCHANGED <<status, scope, handedOut>>
           /\ revisions[Device] \in Nat /\ revisions'[Device] = revisions[Device] + 1
           /\ \/ /\ queue'[s] = Append(queue[s], [ski |-> Device, type |-> type, rev |-> revisions[Device] + 1])
                 /\ pendingDropped'[s] = pendingDropped[s]
              \/ queue'[s] = queue[s] /\ queue[s] # <<>>
<1> USE DeviceAssumption, SKIAssumption
<1>1. PublishResolved(Device, type)
    BY DEF Publish, PublishUnresolved
<1>2. s \in Audience(Device)
    BY DEF Audience, Live
<1>3. Device \in Scope
    BY DEF Scope
<1>4. queue[s] = <<>> => ~Full(s)
    BY BoundAssumption DEF Full
<1>5. revisions[Device] \in Nat /\ revisions'[Device] = revisions[Device] + 1
    BY <1>1, <1>3 DEF PublishResolved, BusInv, BusTypeOK
<1>6. \/ /\ queue'[s] = Append(queue[s], [ski |-> Device, type |-> type, rev |-> revisions[Device] + 1])
         /\ pendingDropped'[s] = pendingDropped[s]
      \/ queue'[s] = queue[s] /\ Full(s)
    BY <1>1, <1>2 DEF PublishResolved, Missed
<1>7. QED
    BY <1>1, <1>4, <1>5, <1>6 DEF PublishResolved

\* Nobody is in the audience who has nothing to do with the device; who has no room is not empty.
LEMMA PublishedElsewhere ==
    ASSUME BusInv, NEW type \in EventType, Publish(Device, type), NEW s \in Sub, queue'[s] = <<>>
    PROVE  queue[s] = <<>> /\ pendingDropped'[s] = pendingDropped[s]
<1> USE DeviceAssumption, SKIAssumption
<1>1. PublishResolved(Device, type)
    BY DEF Publish, PublishUnresolved
<1>2. queue[s] = <<>> => ~Full(s)
    BY BoundAssumption DEF Full
<1> DEFINE evt == [ski |-> Device, type |-> type, rev |-> revisions[Device] + 1]
<1>3. queue'[s] = IF s \in Audience(Device) /\ ~Full(s) THEN Append(queue[s], evt) ELSE queue[s]
    BY <1>1 DEF PublishResolved
<1>4. queue[s] \in Seq(Event) /\ evt \in Event
  <2>1. Device \in Scope
      BY DEF Scope
  <2>2. queue[s] \in Seq(Event) /\ revisions[Device] \in Nat
      BY <2>1 DEF BusInv, BusTypeOK
  <2>3. QED
      BY <2>1, <2>2 DEF Event
<1>5. Append(queue[s], evt) # <<>>
    BY <1>4
<1>6. queue[s] = <<>> /\ s \notin Audience(Device)
    BY <1>2, <1>3, <1>5
<1>7. QED
    BY <1>1, <1>6 DEF PublishResolved, Missed

\* A change that the bus has published is in the stream's channel, or missing from it.
LEMMA ChangePublished ==
    ASSUME BusInv, Publish(Device, "delta"), NEW s \in Sub, Live(s), scope[s] = Device
    PROVE  InChannel(s)' \/ Dropped(s)'
<1> DEFINE evt == [ski |-> Device, type |-> "delta", rev |-> revisions[Device] + 1]
<1>1. /\ UNCHANGED <<status, scope, handedOut>>
      /\ revisions[Device] \in Nat /\ revisions'[Device] = revisions[Device] + 1
      /\ queue'[s] = Append(queue[s], evt) \/ queue'[s] = queue[s]
    BY DeviceAssumption, Published
<1>2. handedOut[s] \in Nat /\ handedOut[s] < revisions'[Device] /\ queue[s] \in Seq(Event)
  <2>1. Device # NoSKI
      BY DeviceAssumption, SKIAssumption
  <2>2. handedOut[s] <= revisions[Device]
      BY <2>1 DEF BusInv, HandedOutPublished, Scoped
  <2>3. handedOut[s] \in Nat /\ queue[s] \in Seq(Event)
      BY DEF BusInv, BusTypeOK
  <2>4. QED
      BY <1>1, <2>2, <2>3
<1>3. CASE queue'[s] = Append(queue[s], evt)
  <2>1. Len(queue[s]) + 1 \in DOMAIN queue'[s] /\ queue'[s][Len(queue[s]) + 1] = evt
      BY <1>2, <1>3
  <2>2. evt.type = "delta" /\ evt.rev = revisions'[Device]
      BY <1>1
  <2>3. QED
      BY <1>1, <1>2, <2>1, <2>2 DEF InChannel
<1>4. CASE queue'[s] = queue[s]
  <2>1. \A i \in DOMAIN queue[s] : queue[s][i].rev <= revisions[Device] /\ queue[s][i].rev \in Nat
    <3>1. \A i \in DOMAIN queue[s] : queue[s][i] \in Event
        BY <1>2
    <3>2. \A i \in DOMAIN queue[s] : queue[s][i].rev <= revisions[queue[s][i].ski] /\ queue[s][i].ski = Device
        BY DeviceAssumption, SKIAssumption DEF BusInv, QueueOrdered
    <3>3. QED
        BY <3>1, <3>2 DEF Event
  <2>2. revisions'[Device] \notin Ahead(s)'
      BY <1>1, <1>4, <2>1 DEF Ahead
  <2>3. QED
      BY <1>1, <1>2, <2>2 DEF Dropped
<1>5. QED
    BY <1>1, <1>3, <1>4

\* Any other publication leaves it there.
LEMMA OtherPublished ==
    ASSUME BusInv, NEW type \in EventType, Publish(Device, type), NEW s \in Sub, Live(s), scope[s] = Device,
           InChannel(s) \/ Dropped(s)
    PROVE  InChannel(s)' \/ Dropped(s)'
<1> DEFINE evt == [ski |-> Device, type |-> type, rev |-> revisions[Device] + 1]
<1>1. /\ UNCHANGED handedOut
      /\ revisions[Device] \in Nat /\ revisions'[Device] = revisions[Device] + 1
      /\ queue'[s] = Append(queue[s], evt) \/ queue'[s] = queue[s]
    BY Published
<1>2. queue[s] \in Seq(Event)
    BY DEF BusInv, BusTypeOK
<1>3. \A i \in DOMAIN queue[s] : i \in DOMAIN queue'[s] /\ queue'[s][i] = queue[s][i]
  <2> HIDE DEF evt
  <2>1. CASE queue'[s] = Append(queue[s], evt)
      BY <1>2, <2>1
  <2>2. QED
      BY <1>1, <2>1
<1>4. CASE InChannel(s)
    BY <1>1, <1>3, <1>4 DEF InChannel
<1>5. CASE Dropped(s)
  <2>1. PICK r \in Nat : handedOut[s] < r /\ r <= revisions[Device] /\ r \notin Ahead(s)
      BY <1>5 DEF Dropped
  <2>2. \A i \in DOMAIN queue'[s] : i \in DOMAIN queue[s] \/ queue'[s][i].rev = revisions[Device] + 1
    <3>1. CASE queue'[s] = queue[s]
        BY <3>1
    <3>2. CASE queue'[s] = Append(queue[s], evt)
      <4>1. \A i \in DOMAIN queue'[s] : i \in DOMAIN queue[s] \/ queue'[s][i] = evt
          BY <1>2, <3>2
      <4>2. QED
          BY <4>1
    <3>3. QED
        BY <1>1, <3>1, <3>2
  <2>3. r \notin Ahead(s)'
      BY <1>1, <1>3, <2>1, <2>2 DEF Ahead
  <2>4. QED
      BY <1>1, <2>1, <2>3 DEF Dropped
<1>6. QED
    BY <1>4, <1>5

\* What the client will make of the wire does not depend on the bus.
LEMMA ClientSame ==
    ASSUME NEW s \in Sub, UNCHANGED <<live, wire, lastRevision, value, fresh, refresh, trailing, pollVars>>
    PROVE  OnWire(s)' = OnWire(s) /\ Arrived(s)' = Arrived(s)
BY DEF OnWire, Repairs, Unseen, Skips, Fresher, Carries, UpToDate, Arrived, PollComes, Sound, pollVars

LEMMA DeviceKeeps ==
    ASSUME StreamInv, Change \/ PublishChange \/ PublishOther
    PROVE  ClientInv'
<1> USE DEF StreamInv, ClientInv
<1>1. CASE Change
  <2>1. unpublished' # 0 /\ unpublished' \in Nat
      BY <1>1 DEF Change, StreamTypes
  <2>2. StreamTypes'
      BY <1>1, <2>1 DEF Change, StreamTypes, busVars, serverVars, clientVars, pollVars
  <2>3. Attached' /\ NoStrandedResync'
      BY <1>1, AttachedSame DEF Change, busVars, serverVars, clientVars, NoStrandedResync
  <2>4. QED
      BY <2>1, <2>2, <2>3 DEF Mirrors
<1>2. ASSUME NEW type \in EventType, Publish(Device, type), UNCHANGED <<live, serverVars, clientVars, pollVars>>,
             unpublished' \in Nat, unpublished' = unpublished \/ type = "delta"
      PROVE  ClientInv'
  <2> USE DEF serverVars, clientVars
  <2>1. StreamTypes'
      BY <1>2 DEF StreamTypes, pollVars
  <2>2. UNCHANGED <<status, scope, handedOut>>
      BY <1>2, DeviceAssumption, SKIAssumption DEF Publish, PublishUnresolved, PublishResolved
  <2>3. Attached'
      BY <1>2, <2>2, AttachedSame
  <2>4. NoStrandedResync'
      BY <1>2, PublishedElsewhere DEF NoStrandedResync
  <2>5. ASSUME NEW s \in Sub, Serving(s)', unpublished' = 0
        PROVE  InChannel(s)' \/ Dropped(s)' \/ OnWire(s)' \/ Arrived(s)'
    <3>1. Serving(s) /\ Live(s) /\ scope[s] = Device
        BY <1>2, <2>5 DEF Serving, Attached
    <3>2. CASE type = "delta"
        BY <1>2, <3>1, <3>2, ChangePublished
    <3>3. CASE type # "delta"
      <4>1. InChannel(s) \/ Dropped(s) \/ OnWire(s) \/ Arrived(s)
          BY <1>2, <2>5, <3>1, <3>3 DEF Mirrors
      <4>2. OnWire(s)' = OnWire(s) /\ Arrived(s)' = Arrived(s)
          BY <1>2, ClientSame
      <4>3. QED
          BY <1>2, <3>1, <4>1, <4>2, OtherPublished
    <3>4. QED
        BY <3>2, <3>3
  <2>6. QED
      BY <2>1, <2>3, <2>4, <2>5 DEF Mirrors
<1>3. CASE PublishChange
  <2>1. unpublished' \in Nat
      BY <1>3 DEF PublishChange, StreamTypes
  <2>2. QED
      BY <1>2, <1>3, <2>1, DeviceAssumption DEF PublishChange
<1>4. CASE PublishOther
    BY <1>2, <1>4 DEF PublishOther, deviceVars, StreamTypes
<1>5. QED
    BY <1>1, <1>3, <1>4

-----------------------------------------------------------------------------
(* The goroutine of a stream.                                              *)

\* What is sent lies behind everything else on the wire.
LEMMA Sent ==
    ASSUME StreamTypes, NEW s \in Sub, NEW e, Send(s, e), e \in Envelope
    PROVE  /\ wire' \in [Sub -> Seq(Envelope)] /\ wire'[s] # <<>>
           /\ \A t \in Sub \ {s} : wire'[t] = wire[t]
           /\ Len(wire[s]) \in Nat /\ DOMAIN wire[s] = 1..Len(wire[s])
           /\ DOMAIN wire'[s] = 1..(Len(wire[s]) + 1)
           /\ wire'[s][Len(wire[s]) + 1] = e
           /\ \A j \in DOMAIN wire[s] : wire'[s][j] = wire[s][j] /\ wire[s][j].rev \in Nat
           /\ wire[s] # <<>> => 1 \in DOMAIN wire[s]
<1>1. wire[s] \in Seq(Envelope) /\ wire' = [wire EXCEPT ![s] = Append(wire[s], e)]
    BY DEF Send, StreamTypes
<1>2. wire'[s] = Append(wire[s], e) /\ \A t \in Sub \ {s} : wire'[t] = wire[t]
    BY <1>1 DEF StreamTypes
<1>3. wire' \in [Sub -> Seq(Envelope)]
    BY <1>1 DEF StreamTypes
<1>4. \A j \in DOMAIN wire[s] : wire[s][j] \in Envelope
    BY <1>1
<1>5. \A j \in DOMAIN wire[s] : wire[s][j].rev \in Nat
    BY <1>4 DEF Envelope
<1>6. QED
    BY <1>1, <1>2, <1>3, <1>5

\* What is sent spoils nothing: its payload has just been read.
LEMMA SendKeeps ==
    ASSUME StreamTypes, NEW s \in Sub, NEW e, Send(s, e), e \in Envelope, Carries(e) => UpToDate(e.val),
           UNCHANGED <<live, lastRevision, value, fresh, refresh, trailing, pollVars>>
    PROVE  /\ OnWire(s) => OnWire(s)'
           /\ Arrived(s) => Arrived(s)'
<1>1. PICK n \in Nat :
          /\ DOMAIN wire[s] = 1..n /\ DOMAIN wire'[s] = 1..(n + 1) /\ wire'[s][n + 1] = e
          /\ \A j \in 1..n : wire'[s][j] = wire[s][j]
    BY Sent
<1>2. ASSUME NEW i \in Nat, Fresher(s, i) PROVE Fresher(s, i)'
  <2> SUFFICES ASSUME NEW j \in 1..(n + 1), i < j, Carries(wire'[s][j])
               PROVE  UpToDate(wire'[s][j].val)
      BY <1>1 DEF Fresher, Carries, UpToDate
  <2>1. CASE j = n + 1
      BY <1>1, <2>1
  <2>2. CASE j # n + 1
    <3>1. j \in 1..n /\ j \in DOMAIN wire[s]
        BY <1>1, <2>2
    <3>2. wire'[s][j] = wire[s][j]
        BY <1>1, <3>1
    <3>3. QED
        BY <1>2, <3>1, <3>2 DEF Fresher
  <2>3. QED
      BY <2>1, <2>2
<1>3. ASSUME NEW i \in 1..n, Repairs(s, i) PROVE Repairs(s, i)'
  <2>1. /\ \A j \in 1..n : wire'[s][j] = wire[s][j]
        /\ \A j \in 1..(n + 1) : j < i => j \in 1..n
      BY <1>1
  <2>2. Unseen(s, i)'
    <3>1. Unseen(s, i)
        BY <1>3 DEF Repairs
    <3>2. ASSUME NEW j \in DOMAIN wire'[s], j < i PROVE wire'[s][j].rev < wire'[s][i].rev
      <4>1. j \in DOMAIN wire[s] /\ wire'[s][j] = wire[s][j] /\ wire'[s][i] = wire[s][i]
          BY <1>1, <2>1, <3>2
      <4>2. QED
          BY <3>1, <3>2, <4>1 DEF Unseen
    <3>3. QED
        BY <2>1, <3>1, <3>2 DEF Unseen
  <2>3. Skips(s, i) => Skips(s, i)'
    <3> SUFFICES ASSUME Skips(s, i) PROVE Skips(s, i)'
        OBVIOUS
    <3>1. PICK r \in Nat : /\ r < wire[s][i].rev
                           /\ lastRevision # NoRevision => lastRevision < r
                           /\ \A j \in DOMAIN wire[s] : j < i => wire[s][j].rev < r
        BY DEF Skips
    <3>2. ASSUME NEW j \in DOMAIN wire'[s], j < i PROVE wire'[s][j].rev < r
        BY <1>1, <2>1, <3>1, <3>2
    <3>3. lastRevision # NoRevision \/ i > 1
        BY DEF Skips
    <3>4. QED
        BY <2>1, <3>1, <3>2, <3>3 DEF Skips
  <2>4. QED
      BY <1>3, <2>1, <2>2, <2>3 DEF Repairs, Carries, UpToDate
<1>4. OnWire(s) => OnWire(s)'
    BY <1>1, <1>2, <1>3 DEF OnWire
<1>5. (PollComes \/ Sound) = (PollComes \/ Sound)'
    BY DEF PollComes, Sound, UpToDate, pollVars
<1>6. QED
    BY <1>2, <1>4, <1>5 DEF Arrived

\* A marker, a payload just read, or a revision after a missing one: each makes the client
\* right when it gets there, unless it is taken for a stale one.
LEMMA SendRepairs ==
    ASSUME StreamTypes, NEW s \in Sub, NEW e, Send(s, e), e \in Envelope,
           UNCHANGED <<live, lastRevision>>, handedOut[s] \in Nat,
           lastRevision # NoRevision => lastRevision <= handedOut[s],
           \A i \in DOMAIN wire[s] : wire[s][i].rev <= handedOut[s],
           handedOut[s] < e.rev,
           \/ e.kind \in {"resync", "device"}
           \/ Carries(e) /\ UpToDate(e.val)
           \/ /\ lastRevision # NoRevision \/ wire[s] # <<>>
              /\ handedOut[s] + 1 < e.rev
    PROVE  OnWire(s)'
<1>1. PICK n \in Nat :
          /\ DOMAIN wire[s] = 1..n /\ DOMAIN wire'[s] = 1..(n + 1) /\ wire'[s][n + 1] = e
          /\ \A j \in 1..n : wire'[s][j] = wire[s][j] /\ wire[s][j].rev \in Nat
          /\ wire[s] # <<>> => n + 1 > 1
  <2>1. /\ Len(wire[s]) \in Nat /\ DOMAIN wire[s] = 1..Len(wire[s]) /\ DOMAIN wire'[s] = 1..(Len(wire[s]) + 1)
        /\ wire'[s][Len(wire[s]) + 1] = e /\ (wire[s] # <<>> => 1 \in DOMAIN wire[s])
        /\ \A j \in DOMAIN wire[s] : wire'[s][j] = wire[s][j] /\ wire[s][j].rev \in Nat
      BY Sent
  <2>2. wire[s] # <<>> => Len(wire[s]) + 1 > 1
      BY <2>1
  <2>3. QED
      BY <2>1, <2>2
<1>2. e.rev \in Nat /\ lastRevision \in Nat \cup {NoRevision}
    BY DEF Envelope, StreamTypes
<1>3. lastRevision # NoRevision => lastRevision < e.rev
    BY <1>2
<1>4. Unseen(s, n + 1)'
  <2>1. ASSUME NEW j \in DOMAIN wire'[s], j < n + 1 PROVE wire'[s][j].rev < e.rev
    <3>1. j \in 1..n
        BY <1>1, <2>1
    <3>2. wire'[s][j] = wire[s][j] /\ wire[s][j].rev \in Nat /\ wire[s][j].rev <= handedOut[s]
        BY <1>1, <3>1
    <3>3. QED
        BY <1>2, <3>2
  <2>2. QED
      BY <1>1, <1>3, <2>1 DEF Unseen
<1>5. Fresher(s, n + 1)'
    BY <1>1 DEF Fresher
<1>6. ASSUME lastRevision # NoRevision \/ wire[s] # <<>>, handedOut[s] + 1 < e.rev
      PROVE  Skips(s, n + 1)'
  <2>1. handedOut[s] + 1 \in Nat
      OBVIOUS
  <2>2. lastRevision # NoRevision => lastRevision < handedOut[s] + 1
      BY <1>2
  <2>3. ASSUME NEW j \in 1..n PROVE wire'[s][j].rev < handedOut[s] + 1
    <3>1. wire'[s][j] = wire[s][j] /\ wire[s][j].rev \in Nat /\ wire[s][j].rev <= handedOut[s]
        BY <1>1
    <3>2. QED
        BY <3>1
  <2>4. \A j \in DOMAIN wire'[s] : j < n + 1 => j \in 1..n
      BY <1>1
  <2>5. lastRevision' # NoRevision \/ n + 1 > 1
      BY <1>1, <1>6
  <2>6. QED
      BY <1>1, <1>6, <2>1, <2>2, <2>3, <2>4, <2>5 DEF Skips
<1>7. Repairs(s, n + 1)'
  <2>1. (Carries(e) /\ UpToDate(e.val)) => (Carries(wire[s][n + 1]) /\ UpToDate(wire[s][n + 1].val))'
      BY <1>1 DEF Carries, UpToDate
  <2>2. QED
      BY <1>1, <1>4, <1>6, <2>1 DEF Repairs
<1>8. n + 1 \in DOMAIN wire'[s]
    BY <1>1
<1>9. QED
    BY <1>5, <1>7, <1>8 DEF OnWire

\* The wire's types and bounds after a sent envelope.
LEMMA SendTypes ==
    ASSUME StreamInv, NEW s \in Sub, NEW e, Send(s, e), e \in Envelope, server[s] # "new",
           server' = [server EXCEPT ![s] = "take"], UNCHANGED <<unpublished, clientVars, pollVars, scope, status>>,
           \A t \in Sub \ {s} : handedOut'[t] = handedOut[t],
           handedOut[s] \in Nat, handedOut'[s] \in Nat, handedOut[s] <= handedOut'[s], e.rev <= handedOut'[s]
    PROVE  StreamTypes' /\ Attached'
<1> USE DEF StreamInv, ClientInv, clientVars
<1>1. /\ wire' \in [Sub -> Seq(Envelope)] /\ wire'[s] # <<>> /\ \A t \in Sub \ {s} : wire'[t] = wire[t]
      /\ DOMAIN wire'[s] = 1..(Len(wire[s]) + 1) /\ DOMAIN wire[s] = 1..Len(wire[s]) /\ Len(wire[s]) \in Nat
      /\ wire'[s][Len(wire[s]) + 1] = e
      /\ \A j \in DOMAIN wire[s] : wire'[s][j] = wire[s][j] /\ wire[s][j].rev \in Nat
    BY Sent
<1>2. stream = s /\ server'[s] = "take" /\ \A t \in Sub \ {s} : server'[t] = server[t]
    BY DEF Send, StreamTypes
<1>3. StreamTypes'
    BY <1>1 DEF StreamTypes, pollVars
<1>4. \A i \in DOMAIN wire[s] : wire[s][i].rev <= handedOut[s]
  <2>1. CASE Serving(s)
      BY <2>1 DEF Attached
  <2>2. CASE ~Serving(s)
    <3>1. wire[s] = <<>>
        BY <1>2, <2>2 DEF Serving, Attached, StreamTypes
    <3>2. QED
        BY <3>1
  <2>3. QED
      BY <2>1, <2>2
<1>5. \A i \in DOMAIN wire'[s] : wire'[s][i].rev <= handedOut'[s]
  <2>1. \A i \in DOMAIN wire'[s] : i \in DOMAIN wire[s] \/ i = Len(wire[s]) + 1
      BY <1>1
  <2>2. \A i \in DOMAIN wire[s] : wire'[s][i].rev <= handedOut'[s]
      BY <1>1, <1>4
  <2>3. QED
      BY <1>1, <2>1, <2>2
<1>6. lastRevision # NoRevision => lastRevision <= handedOut'[s]
  <2>1. lastRevision # NoRevision => lastRevision \in Nat /\ lastRevision <= handedOut[s]
    <3>1. CASE Serving(s)
        BY <3>1 DEF Attached, StreamTypes
    <3>2. CASE ~Serving(s)
        BY <1>2, <3>2 DEF Serving, Attached, StreamTypes
    <3>3. QED
        BY <3>1, <3>2
  <2>2. QED
      BY <2>1
<1>7. Attached'
  <2>1. \A t \in Sub : server'[t] = "new" => wire'[t] = <<>>
      BY <1>1, <1>2 DEF Attached
  <2>2. ASSUME NEW t \in Sub, stream' = t
        PROVE  t = s /\ server'[t] = "take" /\ (Live(t) /\ scope[t] = Device)'
      BY <1>2, <2>2 DEF Attached, Live
  <2>3. QED
      BY <1>1, <1>2, <1>5, <1>6, <2>1, <2>2 DEF Attached, Serving
<1>8. QED
    BY <1>3, <1>7

\* A step of the bus leaves the bus's invariant, and its types.
LEMMA BusStepped ==
    ASSUME StreamInv, [StreamNext]_streamVars
    PROVE  BusInv'
BY StreamBus, StepInv DEF StreamInv

\* Subscribing, and the snapshot that answers it: until it is sent nothing is owed.
LEMMA ServeBeginKeeps ==
    ASSUME StreamInv, BusInv', NEW s \in Sub, ServeSubscribe(s) \/ ServeInitial(s)
    PROVE  ClientInv'
<1> USE DEF StreamInv, ClientInv
<1>1. CASE ServeSubscribe(s)
  <2>1. /\ stream = s /\ server[s] = "new" /\ server' = [server EXCEPT ![s] = "initial"]
        /\ status' = [status EXCEPT ![s] = "live"] /\ scope' = [scope EXCEPT ![s] = Device]
        /\ UNCHANGED <<queue, pendingDropped, unpublished, wire, stream, lastRevision>>
      BY <1>1, DeviceAssumption DEF ServeSubscribe, SubscribeWithRevision, Register, deviceVars, clientVars
  <2>2. StreamTypes'
      BY <1>1, <2>1 DEF ServeSubscribe, StreamTypes, deviceVars, clientVars, pollVars
  <2>3. server'[s] = "initial" /\ status'[s] = "live" /\ scope'[s] = Device
      BY <2>1 DEF StreamTypes, BusInv, BusTypeOK
  <2>4. \A t \in Sub \ {s} : server'[t] = server[t] /\ stream # t
      BY <2>1 DEF StreamTypes
  <2>5. Attached'
      BY <2>1, <2>3, <2>4 DEF Attached, Serving, Live
  <2>6. NoStrandedResync'
      BY <2>1, <2>3, <2>4 DEF NoStrandedResync
  <2>7. Mirrors'
      BY <2>1, <2>3, <2>4 DEF Mirrors, Serving
  <2>8. QED
      BY <2>2, <2>5, <2>6, <2>7
<1>2. CASE ServeInitial(s)
  <2>1. PICK e \in Envelope : Send(s, e) /\ e.rev = handedOut[s]
                              /\ (e.kind = "resync" \/ (Carries(e) /\ UpToDate(e.val)))
    <3>1. handedOut[s] \in Nat
        BY DEF BusInv, BusTypeOK
    <3>2. ASSUME NEW v \in Readings, Read(v), Send(s, [kind |-> "snapshot", rev |-> handedOut[s], val |-> v])
          PROVE  \E e \in Envelope : Send(s, e) /\ e.rev = handedOut[s] /\ Carries(e) /\ UpToDate(e.val)
      <4> DEFINE e == [kind |-> "snapshot", rev |-> handedOut[s], val |-> v]
      <4>1. e \in Envelope /\ Carries(e) /\ UpToDate(e.val)
          BY <3>1, <3>2 DEF Envelope, Carries, UpToDate, Read
      <4>2. Send(s, e) /\ e.rev = handedOut[s]
          BY <3>2
      <4> HIDE DEF e
      <4>3. QED
          BY <4>1, <4>2
    <3>3. ASSUME Send(s, [kind |-> "resync", rev |-> handedOut[s], val |-> Absent])
          PROVE  \E e \in Envelope : Send(s, e) /\ e.rev = handedOut[s] /\ e.kind = "resync"
      <4> DEFINE e == [kind |-> "resync", rev |-> handedOut[s], val |-> Absent]
      <4>1. e \in Envelope /\ e.kind = "resync" /\ e.rev = handedOut[s]
          BY <3>1 DEF Envelope, Readings
      <4>2. Send(s, e)
          BY <3>3
      <4> HIDE DEF e
      <4>3. QED
          BY <4>1, <4>2
    <3>4. QED
        BY <1>2, <3>2, <3>3 DEF ServeInitial
  <2>2. /\ stream = s /\ server[s] = "initial" /\ server' = [server EXCEPT ![s] = "take"]
        /\ UNCHANGED <<busVars, deviceVars, clientVars, pollVars>>
      BY <1>2, <2>1 DEF ServeInitial, Send
  <2>3. wire[s] = <<>> /\ lastRevision = NoRevision /\ handedOut[s] \in Nat
      BY <2>2 DEF Attached, BusInv, BusTypeOK
  <2>4. StreamTypes' /\ Attached'
    <3>1. UNCHANGED <<unpublished, clientVars, pollVars, scope, status>> /\ UNCHANGED handedOut
        BY <2>2 DEF busVars, deviceVars
    <3>2. server[s] # "new" /\ handedOut'[s] \in Nat /\ handedOut[s] <= handedOut'[s] /\ e.rev <= handedOut'[s]
        BY <2>1, <2>2, <2>3, <3>1
    <3>3. \A t \in Sub \ {s} : handedOut'[t] = handedOut[t]
        BY <3>1
    <3>4. QED
        BY <2>1, <2>2, <2>3, <3>1, <3>2, <3>3, SendTypes
  <2>5. server'[s] = "take" /\ stream' = s
      BY <2>2 DEF StreamTypes, clientVars
  <2>6. OnWire(s)'
    <3>1. DOMAIN wire'[s] = 1..1 /\ wire'[s][1] = e
        BY <2>1, <2>3, Sent
    <3>2. Unseen(s, 1)' /\ Fresher(s, 1)'
        BY <2>2, <2>3, <3>1 DEF Unseen, Fresher, clientVars
    <3>3. (Carries(e) /\ UpToDate(e.val)) => (Carries(wire[s][1]) /\ UpToDate(wire[s][1].val))'
        BY <2>2, <3>1 DEF Carries, UpToDate, deviceVars
    <3>4. Repairs(s, 1)'
        BY <2>1, <3>1, <3>2, <3>3 DEF Repairs
    <3>5. QED
        BY <3>1, <3>2, <3>4 DEF OnWire
  <2>7. Mirrors'
      BY <2>5, <2>6 DEF Mirrors, Serving
  <2>8. NoStrandedResync'
      BY <2>2, <2>5 DEF NoStrandedResync, busVars
  <2>9. QED
      BY <2>4, <2>7, <2>8
<1>3. QED
    BY <1>1, <1>2

\* A marker carries the newest revision: whatever was missing is missing before it.
LEMMA ServeResyncKeeps ==
    ASSUME StreamInv, BusInv', NEW s \in Sub, ServeResync(s)
    PROVE  ClientInv'
<1> USE DEF StreamInv, ClientInv
<1> DEFINE e == [kind |-> "resync", rev |-> revisions[Device], val |-> Absent]
<1>1. /\ Send(s, e) /\ TakePendingResync(s) /\ stream = s /\ server[s] = "take"
      /\ UNCHANGED <<server, deviceVars, clientVars, pollVars>>
    BY DEF ServeResync, Send
<1>2. Serving(s) /\ Live(s) /\ scope[s] = Device
    BY <1>1 DEF Serving, Attached
<1>3. Device # NoSKI /\ Device \in Scope
    BY DeviceAssumption, SKIAssumption DEF Scope
<1>4. handedOut[s] \in Nat /\ revisions[Device] \in Nat /\ handedOut[s] <= revisions[Device]
    BY <1>2, <1>3 DEF BusInv, BusTypeOK, HandedOutPublished, Scoped
<1>5. e \in Envelope /\ e.kind = "resync" /\ e.rev = revisions[Device]
    BY <1>4 DEF Envelope, Readings
<1> HIDE DEF e
<1>6. /\ handedOut'[s] = revisions[Device] /\ \A t \in Sub \ {s} : handedOut'[t] = handedOut[t]
      /\ UNCHANGED <<status, scope, queue, revisions>>
    BY <1>1, <1>2 DEF TakePendingResync, BusInv, BusTypeOK
<1>7. server' = [server EXCEPT ![s] = "take"]
    BY <1>1 DEF StreamTypes
<1>8. StreamTypes' /\ Attached'
  <2>1. UNCHANGED <<unpublished, clientVars, pollVars, scope, status>>
      BY <1>1, <1>6 DEF deviceVars
  <2>2. server[s] # "new" /\ handedOut'[s] \in Nat /\ handedOut[s] <= handedOut'[s] /\ e.rev <= handedOut'[s]
      BY <1>1, <1>4, <1>5, <1>6
  <2>3. QED
      BY <1>1, <1>4, <1>5, <1>6, <1>7, <2>1, <2>2, SendTypes
<1>9. NoStrandedResync'
    BY <1>1 DEF NoStrandedResync, clientVars
<1>10. ASSUME unpublished' = 0 PROVE OnWire(s)' \/ Arrived(s)'
  <2>1. InChannel(s) \/ Dropped(s) \/ OnWire(s) \/ Arrived(s)
      BY <1>1, <1>2, <1>10 DEF Mirrors, deviceVars
  <2>2. CASE OnWire(s) \/ Arrived(s)
      BY <1>1, <1>5, <2>2, SendKeeps DEF Carries, deviceVars, clientVars
  <2>3. CASE InChannel(s) \/ Dropped(s)
    <3>1. handedOut[s] < revisions[Device]
      <4>1. CASE Dropped(s)
          BY <1>4, <4>1 DEF Dropped
      <4>2. CASE InChannel(s)
        <5>1. PICK i \in DOMAIN queue[s] : handedOut[s] < queue[s][i].rev
            BY <4>2 DEF InChannel
        <5>2. queue[s] \in Seq(Event)
            BY DEF BusInv, BusTypeOK
        <5>3. queue[s][i] \in Event /\ queue[s][i].rev <= revisions[Device]
            BY <1>2, <1>3, <5>2 DEF BusInv, QueueOrdered
        <5>4. QED
            BY <1>4, <5>1, <5>3 DEF Event
      <4>3. QED
          BY <2>3, <4>1, <4>2
    <3>2. /\ lastRevision # NoRevision => lastRevision <= handedOut[s]
          /\ \A i \in DOMAIN wire[s] : wire[s][i].rev <= handedOut[s]
        BY <1>2 DEF Attached
    <3>3. QED
        BY <1>1, <1>4, <1>5, <3>1, <3>2, SendRepairs DEF deviceVars, clientVars
  <2>4. QED
      BY <2>1, <2>2, <2>3
<1>11. Mirrors'
    BY <1>1, <1>10 DEF Mirrors, Serving, clientVars
<1>12. QED
    BY <1>8, <1>9, <1>11

\* The goroutine goes on to wait only when no marker is due or events are buffered.
LEMMA ServeNoResyncKeeps ==
    ASSUME StreamInv, NEW s \in Sub, ServeNoResync(s)
    PROVE  ClientInv'
<1> USE DEF StreamInv, ClientInv
<1>1. /\ stream = s /\ server[s] = "take" /\ server' = [server EXCEPT ![s] = "select"]
      /\ UNCHANGED <<deviceVars, wire, clientVars, pollVars>>
      /\ UNCHANGED <<revisions, status, scope, queue, pendingDropped, handedOut>>
    BY DEF ServeNoResync, PostponeResync, busVars
<1>2. server'[s] = "select" /\ \A t \in Sub \ {s} : server'[t] = server[t]
    BY <1>1 DEF StreamTypes
<1>3. Serving(s) /\ Live(s) /\ scope[s] = Device /\ Device # NoSKI
    BY <1>1, DeviceAssumption, SKIAssumption DEF Serving, Attached
<1>4. StreamTypes'
    BY <1>1 DEF StreamTypes, deviceVars, clientVars, pollVars
<1>5. Attached'
    BY <1>1, <1>2 DEF Attached, Serving, Live, clientVars
<1>6. NoStrandedResync'
  <2>1. queue[s] # <<>> \/ pendingDropped[s] = 0
      BY <1>3 DEF ServeNoResync, PostponeResync, DeferResync, ResyncOwed, Live
  <2>2. QED
      BY <1>1, <1>2, <2>1 DEF NoStrandedResync, clientVars
<1>7. Mirrors'
  <2>1. OnWire(s)' = OnWire(s) /\ Arrived(s)' = Arrived(s)
      BY <1>1, ClientSame DEF deviceVars, clientVars
  <2>2. InChannel(s)' = InChannel(s) /\ Dropped(s)' = Dropped(s)
      BY <1>1 DEF InChannel, Dropped, Ahead
  <2>3. QED
      BY <1>1, <1>2, <1>3, <2>1, <2>2 DEF Mirrors, Serving, deviceVars, clientVars
<1>8. QED
    BY <1>4, <1>5, <1>6, <1>7

\* An event that is taken is sent with the payload of now.
LEMMA ServeEventKeeps ==
    ASSUME StreamInv, BusInv', NEW s \in Sub, ServeEvent(s)
    PROVE  ClientInv'
<1> USE DEF StreamInv, ClientInv
<1> DEFINE evt == Head(queue[s])
<1>1. PICK e \in Envelope : Send(s, e) /\ Converted(evt, e)
  <2>1. queue[s] \in Seq(Event) /\ queue[s] # <<>>
      BY DEF ServeEvent, Receive, BusInv, BusTypeOK
  <2>2. evt \in Event
      BY <2>1
  <2>3. PICK e \in [kind : {"delta", "ack", "device", "resync"}, rev : {evt.rev}, val : Readings] :
            Converted(evt, e) /\ Send(s, e)
      BY DEF ServeEvent
  <2>4. e \in Envelope
      BY <2>2, <2>3 DEF Envelope, Event
  <2>5. QED
      BY <2>3, <2>4
<1>2. /\ stream = s /\ server[s] = "select" /\ server' = [server EXCEPT ![s] = "take"] /\ Receive(s)
      /\ UNCHANGED <<deviceVars, clientVars, pollVars>>
    BY <1>1 DEF ServeEvent, Send
<1>3. Serving(s) /\ Live(s) /\ scope[s] = Device /\ Device # NoSKI /\ Device \in Scope
    BY <1>2, DeviceAssumption, SKIAssumption DEF Serving, Attached, Scope
<1>4. queue[s] \in Seq(Event) /\ queue[s] # <<>> /\ handedOut[s] \in Nat /\ queue'[s] = Tail(queue[s])
    BY <1>2 DEF Receive, BusInv, BusTypeOK
<1>5. evt \in Event /\ evt.rev \in Nat /\ evt = queue[s][1] /\ 1 \in DOMAIN queue[s]
  <2>1. evt \in Event /\ evt = queue[s][1] /\ 1 \in DOMAIN queue[s]
      BY <1>4
  <2>2. QED
      BY <2>1 DEF Event
<1>6. /\ handedOut'[s] = Newest(handedOut[s], evt.rev) /\ \A t \in Sub \ {s} : handedOut'[t] = handedOut[t]
      /\ UNCHANGED <<status, scope, revisions, pendingDropped>>
    BY <1>2, <1>3 DEF Receive, BusInv, BusTypeOK
<1>7. e.rev = evt.rev /\ (Carries(e) => UpToDate(e.val)) /\ (evt.type = "delta" => Carries(e))
    BY <1>1 DEF Converted, Carries, UpToDate, Read
<1> HIDE DEF evt
<1>8. /\ handedOut'[s] \in Nat /\ handedOut[s] <= handedOut'[s] /\ e.rev <= handedOut'[s]
      /\ handedOut'[s] = handedOut[s] \/ handedOut'[s] = evt.rev
    BY <1>4, <1>5, <1>6, <1>7 DEF Newest
<1>9. StreamTypes' /\ Attached'
  <2>1. UNCHANGED <<unpublished, clientVars, pollVars, scope, status>>
      BY <1>2, <1>6 DEF deviceVars
  <2>2. QED
      BY <1>1, <1>2, <1>4, <1>6, <1>8, <2>1, SendTypes
<1>10. NoStrandedResync'
  <2>1. server'[s] = "take" /\ \A t \in Sub \ {s} : server'[t] = server[t] /\ stream # t
      BY <1>2 DEF StreamTypes
  <2>2. QED
      BY <1>2, <2>1 DEF NoStrandedResync, clientVars
<1>11. ASSUME unpublished' = 0
       PROVE  InChannel(s)' \/ Dropped(s)' \/ OnWire(s)' \/ Arrived(s)'
  <2>1. InChannel(s) \/ Dropped(s) \/ OnWire(s) \/ Arrived(s)
      BY <1>2, <1>3, <1>11 DEF Mirrors, deviceVars
  <2>2. CASE OnWire(s) \/ Arrived(s)
      BY <1>1, <1>2, <1>7, <2>2, SendKeeps DEF deviceVars, clientVars
  <2>3. ASSUME handedOut[s] < e.rev, evt.type = "delta" \/ handedOut[s] + 1 < e.rev
        PROVE  OnWire(s)'
    <3>1. /\ lastRevision # NoRevision \/ wire[s] # <<>>
          /\ lastRevision # NoRevision => lastRevision <= handedOut[s]
          /\ \A i \in DOMAIN wire[s] : wire[s][i].rev <= handedOut[s]
        BY <1>3 DEF Attached
    <3>2. UNCHANGED <<live, lastRevision>>
        BY <1>2 DEF deviceVars, clientVars
    <3>3. CASE evt.type = "delta"
      <4>1. Carries(e) /\ UpToDate(e.val)
          BY <1>7, <3>3
      <4>2. QED
          BY <1>1, <1>4, <2>3, <3>1, <3>2, <4>1, SendRepairs
    <3>4. CASE handedOut[s] + 1 < e.rev
        BY <1>1, <1>4, <2>3, <3>1, <3>2, <3>4, SendRepairs
    <3>5. QED
        BY <2>3, <3>3, <3>4
  <2>4. /\ \A i \in DOMAIN queue[s] : queue[s][i] \in Event /\ queue[s][i].rev \in Nat
        /\ \A i \in DOMAIN queue[s] : i # 1 => i - 1 \in DOMAIN queue'[s] /\ queue'[s][i - 1] = queue[s][i]
        /\ \A i \in DOMAIN queue'[s] : i + 1 \in DOMAIN queue[s] /\ queue'[s][i] = queue[s][i + 1]
        /\ \A i \in DOMAIN queue[s] : i # 1 => 1 < i
    <3>1. \A i \in DOMAIN queue[s] : queue[s][i] \in Event
        BY <1>4
    <3>2. \A i \in DOMAIN queue[s] : queue[s][i].rev \in Nat
        BY <3>1 DEF Event
    <3>3. QED
        BY <1>4, <3>1, <3>2
  <2>5. CASE InChannel(s)
    <3>1. PICK i \in DOMAIN queue[s] : queue[s][i].type = "delta" /\ handedOut[s] < queue[s][i].rev
        BY <2>5 DEF InChannel
    <3>2. CASE i = 1
        BY <1>5, <1>7, <2>3, <3>1, <3>2
    <3>3. CASE i # 1
      <4>1. evt.rev < queue[s][i].rev
        <5>1. queue[s][1].ski = Device /\ queue[s][i].ski = Device /\ 1 < i
            BY <1>3, <1>5, <2>4, <3>3 DEF BusInv, QueueOrdered
        <5>2. queue[s][1].rev < queue[s][i].rev
            BY <1>5, <5>1 DEF BusInv, QueueOrdered
        <5>3. QED
            BY <1>5, <5>2
      <4>2. handedOut'[s] < queue[s][i].rev
          BY <1>8, <3>1, <4>1
      <4>3. i - 1 \in DOMAIN queue'[s] /\ queue'[s][i - 1] = queue[s][i]
          BY <2>4, <3>3
      <4>4. QED
          BY <3>1, <4>2, <4>3 DEF InChannel
    <3>4. QED
        BY <3>2, <3>3
  <2>6. CASE Dropped(s)
    <3>1. PICK r \in Nat : handedOut[s] < r /\ r <= revisions[Device] /\ r \notin Ahead(s)
        BY <2>6 DEF Dropped
    <3>2. evt.rev # r
        BY <1>5, <3>1 DEF Ahead
    <3>3. CASE r < evt.rev
      <4>1. handedOut[s] < e.rev /\ handedOut[s] + 1 < e.rev
          BY <1>4, <1>5, <1>7, <3>1, <3>3
      <4>2. QED
          BY <2>3, <4>1
    <3>4. CASE ~(r < evt.rev)
      <4>1. handedOut'[s] < r
          BY <1>5, <1>8, <3>1, <3>2, <3>4
      <4>2. r \notin Ahead(s)'
          BY <2>4, <3>1 DEF Ahead
      <4>3. QED
          BY <1>6, <3>1, <4>1, <4>2 DEF Dropped
    <3>5. QED
        BY <3>3, <3>4
  <2>7. QED
      BY <2>1, <2>2, <2>5, <2>6
<1>12. Mirrors'
    BY <1>2, <1>11 DEF Mirrors, Serving, clientVars
<1>13. QED
    BY <1>9, <1>10, <1>12

\* A goroutine ends that nobody listens to any more.
LEMMA ServeEndKeeps ==
    ASSUME StreamInv, NEW s \in Sub, ServeEnd(s)
    PROVE  ClientInv'
<1> USE DEF StreamInv, ClientInv
<1>1. /\ stream # s /\ server' = [server EXCEPT ![s] = "done"] /\ UNCHANGED <<deviceVars, wire, clientVars, pollVars>>
      /\ UNCHANGED <<revisions, scope, pendingDropped, handedOut>>
      /\ status' = [status EXCEPT ![s] = "gone"] /\ queue' = [queue EXCEPT ![s] = <<>>]
    BY DEF ServeEnd, Unsubscribe
<1>2. /\ server'[s] = "done"
      /\ \A t \in Sub \ {s} : server'[t] = server[t] /\ status'[t] = status[t] /\ queue'[t] = queue[t]
    BY <1>1 DEF StreamTypes, BusInv, BusTypeOK
<1>3. StreamTypes'
    BY <1>1 DEF StreamTypes, deviceVars, clientVars, pollVars
<1>4. Attached'
    BY <1>1, <1>2 DEF Attached, Serving, Live, clientVars
<1>5. NoStrandedResync'
    BY <1>1, <1>2 DEF NoStrandedResync, clientVars
<1>6. ASSUME NEW t \in Sub, Serving(t)', unpublished' = 0
      PROVE  InChannel(t)' \/ Dropped(t)' \/ OnWire(t)' \/ Arrived(t)'
  <2>1. t # s /\ Serving(t)
      BY <1>1, <1>2, <1>6 DEF Serving, clientVars
  <2>2. OnWire(t)' = OnWire(t) /\ Arrived(t)' = Arrived(t)
      BY <1>1, ClientSame DEF deviceVars, clientVars
  <2>3. InChannel(t)' = InChannel(t) /\ Dropped(t)' = Dropped(t)
      BY <1>1, <1>2, <2>1 DEF InChannel, Dropped, Ahead
  <2>4. QED
      BY <1>1, <1>6, <2>1, <2>2, <2>3 DEF Mirrors, deviceVars
<1>7. QED
    BY <1>3, <1>4, <1>5, <1>6 DEF Mirrors

-----------------------------------------------------------------------------
(* The client, its refreshes and the polls.                                *)

\* Between two calls the client mirrors nothing, and a call begins with nothing.
LEMMA ConnectionKeeps ==
    ASSUME StreamInv, (\E s \in Sub : Connect(s)) \/ Break \/ PollFail
    PROVE  ClientInv'
<1> USE DEF StreamInv, ClientInv
<1>1. ASSUME NEW s \in Sub, Connect(s) PROVE ClientInv'
  <2>1. /\ stream = NoStream /\ server[s] = "new" /\ stream' = s /\ lastRevision' = NoRevision
        /\ UNCHANGED <<busVars, deviceVars, serverVars, value, fresh, refresh, trailing, pollVars>>
      BY <1>1 DEF Connect
  <2> USE DEF busVars, deviceVars, serverVars, pollVars
  <2>2. StreamTypes'
      BY <2>1 DEF StreamTypes
  <2>3. Attached' /\ NoStrandedResync' /\ Mirrors'
      BY <2>1 DEF Attached, Serving, NoStrandedResync, Mirrors
  <2>4. QED
      BY <2>2, <2>3
<1>2. ASSUME BreakStream, UNCHANGED <<busVars, deviceVars, lastRevision, fresh, refresh, trailing, revised, queued, absorbed>>,
             poll' \in {"idle", "sent", "answered"}
      PROVE  ClientInv'
  <2>1. /\ stream \in Sub /\ stream' = NoStream /\ NoStream \notin Sub
        /\ server' = [server EXCEPT ![stream] = IF @ = "new" THEN "done" ELSE @]
        /\ wire' = [wire EXCEPT ![stream] = <<>>]
      BY <1>2, ClientAssumption DEF BreakStream, StreamTypes
  <2>2. /\ server' \in [Sub -> {"new", "initial", "take", "select", "done"}]
        /\ \A s \in Sub : server'[s] = "new" => server[s] = "new"
      BY <2>1 DEF StreamTypes
  <2>3. /\ wire' \in [Sub -> Seq(Envelope)]
        /\ \A s \in Sub : wire[s] = <<>> => wire'[s] = <<>>
      BY <2>1 DEF StreamTypes
  <2>4. StreamTypes'
      BY <1>2, <2>1, <2>2, <2>3 DEF StreamTypes, deviceVars
  <2>5. Attached' /\ NoStrandedResync' /\ Mirrors'
      BY <2>1, <2>2, <2>3 DEF Attached, Serving, NoStrandedResync, Mirrors
  <2>6. QED
      BY <2>4, <2>5
<1>3. CASE Break
  <2>1. poll' \in {"idle", "sent", "answered"}
      BY <1>3 DEF Break, pollVars, StreamTypes
  <2>2. QED
      BY <1>2, <1>3, <2>1 DEF Break, pollVars
<1>4. CASE PollFail
    BY <1>2, <1>4 DEF PollFail
<1>5. QED
    BY <1>1, <1>3, <1>4

\* Where nothing but the client's side moves, only what has arrived is in question.
LEMMA PollKeeps ==
    ASSUME StreamInv, RefreshCall \/ RefreshReturn \/ TimedPoll \/ PeriodicPoll \/ PollRead \/ PollApply
    PROVE  ClientInv'
<1> USE DEF StreamInv, ClientInv
<1>1. UNCHANGED <<busVars, deviceVars, serverVars, stream, lastRevision>>
    BY DEF RefreshCall, RefreshReturn, TimedPoll, PeriodicPoll, PollRead, PollApply, clientVars
<1> USE DEF busVars, deviceVars, serverVars
<1>2. StreamTypes'
  <2>1. refresh' \in {"idle", "start", "await"} /\ poll' \in {"idle", "sent", "answered"}
      BY DEF RefreshCall, RefreshReturn, TimedPoll, PeriodicPoll, PollRead, PollApply, BeginPoll, clientVars, pollVars,
             StreamTypes
  <2>2. trailing' \in BOOLEAN /\ queued' \in BOOLEAN /\ absorbed' \in BOOLEAN
      BY DEF RefreshCall, RefreshReturn, TimedPoll, PeriodicPoll, PollRead, PollApply, BeginPoll, clientVars, pollVars,
             StreamTypes
  <2>3. revised' \in BOOLEAN /\ fresh' \in BOOLEAN
      BY DEF RefreshCall, RefreshReturn, TimedPoll, PeriodicPoll, PollRead, PollApply, BeginPoll, clientVars, pollVars,
             StreamTypes, Observe, ObserveNothing
  <2>4. QED
      BY <1>1, <2>1, <2>2, <2>3 DEF StreamTypes
<1>3. Attached' /\ NoStrandedResync'
    BY <1>1, AttachedSame DEF NoStrandedResync
<1>4. (PollComes \/ Sound) => (PollComes \/ Sound)'
  <2> SUFFICES ASSUME PollComes \/ Sound PROVE (PollComes \/ Sound)'
      OBVIOUS
  <2>1. CASE RefreshCall
    <3>1. queued' \/ absorbed' \/ (poll' = "sent" /\ ~revised')
        BY <2>1 DEF RefreshCall, BeginPoll, StreamTypes
    <3>2. QED
        BY <3>1 DEF PollComes
  <2>2. CASE RefreshReturn
      BY <1>1, <2>2 DEF RefreshReturn, PollComes, Sound, UpToDate, pollVars
  <2>3. CASE TimedPoll \/ PeriodicPoll
    <3>1. poll' = "sent" /\ ~revised'
        BY <2>3 DEF TimedPoll, PeriodicPoll, BeginPoll
    <3>2. QED
        BY <3>1 DEF PollComes
  <2>4. CASE PollRead
    <3>1. /\ UpToDate(polled') /\ live' = live /\ poll = "sent" /\ poll' = "answered"
          /\ UNCHANGED <<clientVars, revised, queued, absorbed>>
        BY <1>1, <2>4 DEF PollRead, Read, UpToDate
    <3>2. UpToDate(polled)'
        BY <3>1 DEF UpToDate
    <3>3. QED
        BY <3>1, <3>2 DEF PollComes, Sound, clientVars
  <2>5. CASE PollApply
    <3>1. /\ poll = "answered" /\ poll' = "idle" /\ live' = live /\ UNCHANGED <<refresh, trailing, queued, absorbed>>
        BY <1>1, <2>5 DEF PollApply
    <3>2. CASE revised
      <4>1. UNCHANGED <<value, fresh>>
          BY <2>5, <3>2 DEF PollApply, Protected, ObserveNothing
      <4>2. QED
          BY <3>1, <3>2, <4>1 DEF PollComes, Sound
    <3>3. CASE ~revised
      <4>1. Observe(polled)
          BY <2>5, <3>3 DEF PollApply, Protected
      <4>2. CASE UpToDate(polled)
        <5>1. CASE polled = Absent
          <6>1. fresh' = FALSE
              BY <4>1, <5>1, Zenon DEF Observe
          <6>2. QED
              BY <3>1, <6>1 DEF Sound
        <5>2. CASE polled # Absent
          <6>1. value' = polled /\ polled = live
              BY <4>1, <4>2, <5>2 DEF Observe, UpToDate
          <6>2. QED
              BY <3>1, <6>1 DEF Sound
        <5>3. QED
            BY <5>1, <5>2
      <4>3. CASE ~UpToDate(polled)
          BY <3>1, <3>3, <4>3 DEF PollComes, Sound
      <4>4. QED
          BY <4>2, <4>3
    <3>4. QED
        BY <3>2, <3>3
  <2>6. QED
      BY <2>1, <2>2, <2>3, <2>4, <2>5
<1>5. Mirrors'
  <2> SUFFICES ASSUME NEW s \in Sub, Serving(s)', unpublished' = 0
               PROVE  InChannel(s)' \/ Dropped(s)' \/ OnWire(s)' \/ Arrived(s)'
      BY DEF Mirrors
  <2>1. InChannel(s) \/ Dropped(s) \/ OnWire(s) \/ Arrived(s)
      BY <1>1 DEF Serving, Mirrors
  <2>2. InChannel(s)' = InChannel(s) /\ Dropped(s)' = Dropped(s) /\ OnWire(s)' = OnWire(s)
      BY <1>1 DEF InChannel, Dropped, Ahead, OnWire, Repairs, Unseen, Skips, Fresher, Carries, UpToDate
  <2>3. Fresher(s, 0)' = Fresher(s, 0)
      BY <1>1 DEF Fresher, Carries, UpToDate
  <2>4. QED
      BY <1>4, <2>1, <2>2, <2>3 DEF Arrived
<1>6. QED
    BY <1>2, <1>3, <1>5

\* The client takes the next envelope.
LEMMA HandleKeeps ==
    ASSUME StreamInv, HandleEnvelope
    PROVE  ClientInv'
<1> USE DEF StreamInv, ClientInv
<1>1. PICK s \in Sub : s = stream
    BY DEF HandleEnvelope, StreamTypes
<1>2. wire[s] \in Seq(Envelope) /\ wire[s] # <<>>
    BY <1>1 DEF HandleEnvelope, StreamTypes
<1>3. PICK n \in Nat, e \in Envelope :
          /\ DOMAIN wire[s] = 1..(n + 1) /\ e = wire[s][1] /\ e = Head(wire[s])
          /\ wire'[s] = Tail(wire[s]) /\ DOMAIN wire'[s] = 1..n
          /\ \A i \in 1..n : wire'[s][i] = wire[s][i + 1]
  <2>1. wire'[s] = Tail(wire[s])
      BY <1>1 DEF HandleEnvelope, StreamTypes
  <2> DEFINE n == Len(wire[s]) - 1
  <2>2. n \in Nat /\ DOMAIN wire[s] = 1..(n + 1) /\ Head(wire[s]) \in Envelope /\ Head(wire[s]) = wire[s][1]
    <3>1. Len(wire[s]) \in Nat /\ Len(wire[s]) > 0 /\ DOMAIN wire[s] = 1..Len(wire[s])
        BY <1>2
    <3>2. Head(wire[s]) \in Envelope /\ Head(wire[s]) = wire[s][1]
        BY <1>2
    <3>3. n \in Nat /\ n + 1 = Len(wire[s])
        BY <3>1
    <3>4. QED
        BY <3>1, <3>2, <3>3
  <2>3. DOMAIN Tail(wire[s]) = 1..n /\ \A i \in 1..n : Tail(wire[s])[i] = wire[s][i + 1]
      BY <1>2
  <2> HIDE DEF n
  <2>4. QED
      BY <2>1, <2>2, <2>3
<1>4. e.rev \in Nat /\ \A i \in 1..n : wire'[s][i].rev \in Nat /\ i + 1 \in 1..(n + 1)
  <2>1. \A i \in 1..n : wire[s][i + 1] \in Envelope /\ i + 1 \in 1..(n + 1)
      BY <1>2, <1>3
  <2>2. QED
      BY <1>3, <2>1 DEF Envelope
<1>5. /\ UNCHANGED <<busVars, deviceVars, server, stream, poll, polled, queued, absorbed>>
      /\ \/ StaleEnvelope(e.rev) /\ UNCHANGED <<lastRevision, value, fresh, revised, refresh, trailing>>
         \/ /\ ~StaleEnvelope(e.rev) /\ lastRevision' = e.rev
            /\ IF Carries(e) THEN Observe(e.val) ELSE ObserveNothing
            /\ IF Gap(e.rev) \/ e.kind \in {"resync", "device"} THEN Refresh ELSE NoRefresh
    BY <1>1, <1>3 DEF HandleEnvelope, Carries
<1>6. server[s] \in {"take", "select"} /\ Serving(s) /\ Serving(s)'
  <2>1. server[s] \notin {"new", "initial", "done"}
      BY <1>1, <1>2 DEF Attached
  <2>2. QED
      BY <1>1, <1>5, <2>1 DEF StreamTypes, Serving
<1>7. wire' = [wire EXCEPT ![s] = Tail(@)] /\ \A t \in Sub \ {s} : wire'[t] = wire[t]
    BY <1>1 DEF HandleEnvelope, StreamTypes
<1>8. StreamTypes'
  <2>1. wire' \in [Sub -> Seq(Envelope)]
      BY <1>2, <1>7 DEF StreamTypes
  <2>2. lastRevision' \in Nat \cup {NoRevision}
      BY <1>4, <1>5 DEF StreamTypes
  <2>3. refresh' \in {"idle", "start", "await"} /\ trailing' \in BOOLEAN
      BY <1>5 DEF StreamTypes, Refresh, NoRefresh
  <2>4. fresh' \in BOOLEAN /\ revised' \in BOOLEAN
      BY <1>5 DEF StreamTypes, Observe, ObserveNothing
  <2>5. QED
      BY <1>5, <2>1, <2>2, <2>3, <2>4 DEF StreamTypes, deviceVars
\* After the first envelope a revision is known, and the head was not beyond handedOut.
<1>9. /\ lastRevision' # NoRevision /\ handedOut[s] \in Nat
      /\ lastRevision' <= handedOut[s] /\ \A i \in 1..n : wire'[s][i].rev <= handedOut[s]
  <2>1. /\ e.rev <= handedOut[s] /\ (lastRevision # NoRevision => lastRevision <= handedOut[s])
        /\ \A i \in 1..(n + 1) : wire[s][i].rev <= handedOut[s]
    <3>1. 1 \in 1..(n + 1)
        OBVIOUS
    <3>2. QED
        BY <1>3, <1>6, <3>1 DEF Attached
  <2>2. StaleEnvelope(e.rev) => lastRevision # NoRevision
      BY DEF StaleEnvelope
  <2>3. \A i \in 1..n : wire'[s][i].rev <= handedOut[s]
      BY <1>3, <1>4, <2>1
  <2>4. handedOut[s] \in Nat
      BY DEF BusInv, BusTypeOK
  <2>5. QED
      BY <1>4, <1>5, <2>1, <2>2, <2>3, <2>4, ClientAssumption
<1>10. Attached'
  <2>1. UNCHANGED <<status, scope, handedOut>>
      BY <1>5 DEF busVars
  <2>2. \A t \in Sub : wire[t] = <<>> => wire'[t] = <<>>
      BY <1>2, <1>7
  <2>3. \A t \in Sub : stream' = t => t = s
      BY <1>1, <1>5
  <2>4. lastRevision' <= handedOut'[s] /\ \A i \in DOMAIN wire'[s] : wire'[s][i].rev <= handedOut'[s]
      BY <1>3, <1>9, <2>1
  <2>5. \A t \in Sub : server'[t] = "new" => wire'[t] = <<>>
      BY <1>5, <2>2 DEF Attached
  <2>6. server'[s] \in {"take", "select"} /\ (Live(s) /\ scope[s] = Device)'
      BY <1>1, <1>5, <1>6, <2>1 DEF Attached, Live
  <2>7. QED
      BY <1>9, <2>3, <2>4, <2>5, <2>6 DEF Attached, Serving
<1>11. NoStrandedResync'
    BY <1>5 DEF NoStrandedResync, busVars
<1>12. ASSUME NEW i \in Nat, Fresher(s, i + 1) PROVE Fresher(s, i)'
  <2> SUFFICES ASSUME NEW j \in 1..n, i < j, Carries(wire'[s][j]) PROVE UpToDate(wire'[s][j].val)
      BY <1>3, <1>5 DEF Fresher, Carries, UpToDate, deviceVars
  <2>1. j + 1 \in 1..(n + 1) /\ i + 1 < j + 1
      BY <1>4
  <2>2. j + 1 \in DOMAIN wire[s] /\ wire'[s][j] = wire[s][j + 1]
      BY <1>3, <2>1
  <2>3. QED
      BY <1>12, <2>1, <2>2 DEF Fresher
<1>13. ASSUME Fresher(s, 1) PROVE Fresher(s, 0)'
    BY <1>12, <1>13
\* An envelope that makes the client right has done so.
<1>14. ASSUME Carries(e), UpToDate(e.val), ~StaleEnvelope(e.rev) PROVE Sound'
  <2>1. revised' /\ value' = (IF e.val = Absent THEN value ELSE e.val) /\ fresh' = (e.val # Absent) /\ live' = live
      BY <1>5, <1>14 DEF Observe, deviceVars
  <2>2. fresh' => value' = live'
      BY <1>14, <2>1 DEF UpToDate
  <2>3. QED
      BY <2>1, <2>2 DEF Sound
<1>15. ASSUME Refresh PROVE PollComes'
    BY <1>15 DEF Refresh, PollComes, StreamTypes
<1>16. ASSUME Arrived(s) PROVE Arrived(s)'
  <2>1. Fresher(s, 0) /\ Fresher(s, 1) /\ (PollComes \/ Sound) /\ (Carries(e) => UpToDate(e.val))
      BY <1>3, <1>16 DEF Arrived, Fresher
  <2>2. CASE StaleEnvelope(e.rev)
    <3>1. UNCHANGED <<live, value, fresh, revised, refresh, trailing, poll, polled, queued, absorbed>>
        BY <1>5, <2>2 DEF deviceVars
    <3>2. (PollComes \/ Sound)'
        BY <2>1, <3>1 DEF PollComes, Sound, UpToDate
    <3>3. QED
        BY <1>13, <2>1, <3>2 DEF Arrived
  <2>3. CASE ~StaleEnvelope(e.rev) /\ Carries(e)
      BY <1>13, <1>14, <2>1, <2>3 DEF Arrived
  <2>4. CASE ~StaleEnvelope(e.rev) /\ ~Carries(e)
    <3>1. UNCHANGED <<live, value, fresh, revised, poll, polled, queued, absorbed>>
        BY <1>5, <2>4 DEF deviceVars, ObserveNothing
    <3>2. Refresh \/ UNCHANGED <<refresh, trailing>>
        BY <1>5, <2>4 DEF NoRefresh
    <3>3. (PollComes \/ Sound)'
      <4>1. CASE Refresh
          BY <1>15, <4>1
      <4>2. CASE UNCHANGED <<refresh, trailing>>
          BY <2>1, <3>1, <4>2 DEF PollComes, Sound, UpToDate
      <4>3. QED
          BY <3>2, <4>1, <4>2
    <3>4. QED
        BY <1>13, <2>1, <3>3 DEF Arrived
  <2>5. QED
      BY <2>2, <2>3, <2>4
\* What is still to come is so yet.
<1>17. ASSUME NEW i \in 1..n, Repairs(s, i + 1) PROVE Repairs(s, i)'
  <2>1. /\ i + 1 \in DOMAIN wire[s] /\ 1 \in DOMAIN wire[s] /\ 1 < i + 1 /\ wire'[s][i] = wire[s][i + 1]
        /\ \A j \in 1..n : j < i => j + 1 \in DOMAIN wire[s] /\ j + 1 < i + 1
    <3>1. 1 \in 1..(n + 1) /\ 1 < i + 1 /\ \A j \in 1..n : j < i => j + 1 < i + 1
        OBVIOUS
    <3>2. \A j \in 1..n : j + 1 \in 1..(n + 1) /\ wire'[s][j] = wire[s][j + 1]
        BY <1>3, <1>4
    <3>3. QED
        BY <1>3, <3>1, <3>2
  <2>2. lastRevision' = e.rev \/ lastRevision' = lastRevision
      BY <1>5
  <2>3. Unseen(s, i + 1)
      BY <1>17 DEF Repairs
  <2>4. Unseen(s, i)'
    <3>1. lastRevision' < wire'[s][i].rev
        BY <1>3, <1>9, <2>1, <2>2, <2>3 DEF Unseen
    <3>2. ASSUME NEW j \in 1..n, j < i PROVE wire'[s][j].rev < wire'[s][i].rev
        BY <1>3, <2>1, <2>3, <3>2 DEF Unseen
    <3>3. QED
        BY <1>3, <3>1, <3>2 DEF Unseen
  <2>5. ASSUME Skips(s, i + 1) PROVE Skips(s, i)'
    <3>1. PICK r \in Nat : /\ r < wire[s][i + 1].rev
                           /\ lastRevision # NoRevision => lastRevision < r
                           /\ \A j \in DOMAIN wire[s] : j < i + 1 => wire[s][j].rev < r
        BY <2>5 DEF Skips
    <3>2. lastRevision' < r
        BY <1>3, <1>9, <2>1, <2>2, <3>1
    <3>3. ASSUME NEW j \in 1..n, j < i PROVE wire'[s][j].rev < r
        BY <1>3, <2>1, <3>1, <3>3
    <3>4. QED
        BY <1>3, <1>9, <2>1, <3>1, <3>2, <3>3 DEF Skips
  <2>6. (Carries(wire[s][i + 1]) /\ UpToDate(wire[s][i + 1].val)) => (Carries(wire[s][i]) /\ UpToDate(wire[s][i].val))'
      BY <1>5, <2>1 DEF Carries, UpToDate, deviceVars
  <2>7. QED
      BY <1>17, <2>1, <2>4, <2>5, <2>6 DEF Repairs
<1>18. ASSUME OnWire(s) PROVE OnWire(s)' \/ Arrived(s)'
  <2>1. PICK i \in 1..(n + 1) : Repairs(s, i) /\ Fresher(s, i)
      BY <1>3, <1>18 DEF OnWire
  <2>2. CASE i # 1
    <3>1. PICK k \in 1..n : i = k + 1
        BY <2>2, i - 1 \in 1..n
    <3>2. Repairs(s, k)' /\ Fresher(s, k)'
        BY <1>12, <1>17, <2>1, <3>1
    <3>3. QED
        BY <1>3, <3>2 DEF OnWire
  <2>3. CASE i = 1
    <3>1. Unseen(s, 1) /\ Fresher(s, 0)'
        BY <1>13, <2>1, <2>3 DEF Repairs
    <3>2. ~StaleEnvelope(e.rev)
        BY <1>3, <1>4, <3>1 DEF Unseen, StaleEnvelope, StreamTypes
    <3>3. CASE Carries(e) /\ UpToDate(e.val)
        BY <1>14, <3>1, <3>2, <3>3 DEF Arrived
    <3>4. CASE e.kind \in {"resync", "device"}
        BY <1>5, <1>15, <3>1, <3>2, <3>4 DEF Arrived
    <3>5. CASE Skips(s, 1)
      <4>1. PICK r \in Nat : r < e.rev /\ lastRevision # NoRevision /\ lastRevision < r
          BY <1>3, <3>5 DEF Skips
      <4>2. Gap(e.rev)
          BY <1>4, <4>1 DEF Gap, StreamTypes
      <4>3. QED
          BY <1>5, <1>15, <3>1, <3>2, <4>2 DEF Arrived
    <3>6. QED
        BY <1>3, <2>1, <2>3, <3>3, <3>4, <3>5 DEF Repairs
  <2>4. QED
      BY <2>2, <2>3
<1>19. Mirrors'
  <2> SUFFICES ASSUME unpublished' = 0
               PROVE  InChannel(s)' \/ Dropped(s)' \/ OnWire(s)' \/ Arrived(s)'
      BY <1>1, <1>5 DEF Mirrors, Serving
  <2>1. InChannel(s) \/ Dropped(s) \/ OnWire(s) \/ Arrived(s)
      BY <1>5, <1>6 DEF Mirrors, deviceVars
  <2>2. InChannel(s)' = InChannel(s) /\ Dropped(s)' = Dropped(s)
      BY <1>5 DEF InChannel, Dropped, Ahead, busVars
  <2>3. QED
      BY <1>16, <1>18, <2>1, <2>2
<1>20. QED
    BY <1>8, <1>10, <1>11, <1>19

\* Every step keeps the invariant.
LEMMA StreamStep ==
    ASSUME StreamInv, [StreamNext]_streamVars
    PROVE  StreamInv'
<1>1. BusInv'
    BY BusStepped
<1>2. CASE UNCHANGED streamVars
  <2> USE DEF streamVars, busVars, deviceVars, serverVars, clientVars
  <2>1. StreamTypes' /\ Attached' /\ NoStrandedResync'
    <3>1. StreamTypes'
        BY <1>2 DEF StreamInv, ClientInv, StreamTypes, pollVars
    <3>2. Attached'
        BY <1>2, AttachedSame DEF StreamInv, ClientInv
    <3>3. NoStrandedResync'
        BY <1>2 DEF StreamInv, ClientInv, NoStrandedResync
    <3>4. QED
        BY <3>1, <3>2, <3>3
  <2>2. \A s \in Sub : OnWire(s)' = OnWire(s) /\ Arrived(s)' = Arrived(s)
      BY <1>2, ClientSame
  <2>3. \A s \in Sub : InChannel(s)' = InChannel(s) /\ Dropped(s)' = Dropped(s)
      BY <1>2 DEF InChannel, Dropped, Ahead
  <2>4. Mirrors'
      BY <1>2, <2>2, <2>3 DEF StreamInv, ClientInv, Mirrors, Serving
  <2>5. QED
      BY <1>1, <2>1, <2>4 DEF StreamInv, ClientInv
<1>3. ASSUME NEW s \in Sub, Serve(s) PROVE ClientInv'
    BY <1>1, <1>3, ServeBeginKeeps, ServeResyncKeeps, ServeNoResyncKeeps, ServeEventKeeps, ServeEndKeeps DEF Serve
<1>4. ASSUME StreamNext PROVE ClientInv'
    BY <1>3, <1>4, DeviceKeeps, ConnectionKeeps, HandleKeeps, PollKeeps DEF StreamNext
<1>5. QED
    BY <1>1, <1>2, <1>4 DEF StreamInv

\* The stream uses the bus by its operations alone (subscribeRevisionedEvents), so
\* that what is proved of the bus holds of the stream as well, no silent loss above all.
THEOREM StreamUsesBus == StreamSpec => BusSpec
<1>1. StreamInit => BusInit
    BY DEF StreamInit
<1> QED BY <1>1, StreamBus, PTL DEF StreamSpec, BusSpec

\* The inductive invariant holds of every reachable state.
THEOREM StreamInvariant == StreamSpec => []StreamInv
<1>1. StreamInit => StreamInv
    BY StreamInitial
<1>2. StreamInv /\ [StreamNext]_streamVars => StreamInv'
    BY StreamStep
<1>3. QED
    BY <1>1, <1>2, PTL DEF StreamSpec

\* Once nothing is in flight a leaf that the client calls fresh is the device's, whatever was
\* dropped from the channel (Publish), announced late (TakePendingResync), taken for stale
\* (handle_device_state_event), overtaken by a poll (poll) or lost with the stream: as long as
\* Home Assistant's debouncer dropped no request for a poll since the last one began.
THEOREM ClientConverges == StreamSpec => []Converged
<1>1. ASSUME StreamInv PROVE Converged
  <2> SUFFICES ASSUME Quiet, ~absorbed PROVE fresh => value = live
      BY DEF Converged
  <2> USE <1>1
  <2>1. PICK s \in Sub : s = stream
      BY DEF StreamInv, ClientInv, StreamTypes, Quiet
  <2>2. Serving(s) /\ unpublished = 0 /\ queue[s] = <<>> /\ pendingDropped[s] = 0 /\ wire[s] = <<>>
      BY <2>1 DEF Quiet, Serving
  <2>3. Scoped(s) /\ scope[s] = Device /\ handedOut[s] \in Nat
      BY <2>1, <2>2, DeviceAssumption, SKIAssumption
      DEF StreamInv, ClientInv, Attached, Serving, Scoped, BusInv, BusTypeOK
  <2>4. ~InChannel(s) /\ ~OnWire(s)
      BY <2>2 DEF InChannel, OnWire
  <2>5. ~Dropped(s)
    <3>1. \A r \in (handedOut[s] + 1)..revisions[Device] : r \in Ahead(s)
        BY <2>2, <2>3 DEF StreamInv, BusInv, NoSilentLoss
    <3>2. Device \in Scope
        BY DeviceAssumption DEF Scope
    <3>3. revisions[Device] \in Nat
        BY <3>2 DEF StreamInv, BusInv, BusTypeOK
    <3>4. QED
        BY <2>3, <3>1, <3>3 DEF Dropped
  <2>6. PollComes \/ Sound
      BY <2>2, <2>4, <2>5 DEF StreamInv, ClientInv, Mirrors, Arrived
  <2>7. QED
      BY <2>6 DEF Quiet, PollComes, Sound
<1>2. QED
    BY <1>1, StreamInvariant, PTL

\* A stream's goroutine does not go to sleep on a drop it has to report: it looks for a due
\* marker before it waits, and a drop needs a full channel (subscribeRevisionedEvents, Publish).
THEOREM DropsAreReported == StreamSpec => []NoStrandedResync
<1>1. StreamInv => NoStrandedResync
    BY DEF StreamInv, ClientInv
<1>2. QED
    BY <1>1, StreamInvariant, PTL
=============================================================================
