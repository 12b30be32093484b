------------------------------ MODULE EventBus ------------------------------
(***************************************************************************)
(* The bridge's in-process event bus: internal/eebus/eventbus.go.           *)
(*                                                                         *)
(* Producers publish device events; every published event takes the next   *)
(* per-device revision and is offered, without blocking, to every matching *)
(* subscriber's bounded channel.  An offer to a full channel is dropped    *)
(* and remembered, so that the subscriber can later be handed one          *)
(* coalesced resync marker.  Each operation runs under the bus mutex, so   *)
(* each is one action.                                                     *)
(*                                                                         *)
(* handedOut and announced are history variables: the newest revision a    *)
(* subscriber has been given (by an event, a marker, or the snapshot taken *)
(* when it subscribed) and the number of drops its markers have reported.  *)
(***************************************************************************)
EXTENDS Naturals, Sequences, FiniteSets

CONSTANTS
    SKI,               \* canonical device identities
    NoSKI,             \* the empty identity (the Go string "")
    RawSKI,            \* identities as producers and clients spell them
    NormalizeSKI(_),   \* spelling -> canonical identity, registry.go:392
    EventType,         \* event types, DiscoveryUpdated among them
    DiscoveryUpdated,
    Sub,               \* subscriber channels, each used once
    Capacity,          \* channel buffer size (64 in the code)
    MaxDeferrals,      \* pendingResyncMaxDeferrals (64 in the code)
    MaxRevision,       \* bound of the model on published events per device
    MaxUnresolved      \* bound of the model on refused events

ASSUME SKIAssumption == NoSKI \notin SKI
ASSUME NormalizeAssumption ==
    \A raw \in RawSKI : NormalizeSKI(raw) \in SKI \cup {NoSKI}
ASSUME SubAssumption == IsFiniteSet(Sub)
ASSUME TypeAssumption == DiscoveryUpdated \in EventType
ASSUME BoundAssumption ==
    /\ Capacity \in Nat \ {0}
    /\ MaxDeferrals \in Nat
    /\ MaxRevision \in Nat
    /\ MaxUnresolved \in Nat

VARIABLES
    revisions,        \* [Scope -> Nat]: latest revision per identity
    status,           \* [Sub -> "new" | "live" | "gone"]: key of b.subscribers
    scope,            \* [Sub -> Scope]: the SKI filter, NoSKI for all devices
    queue,            \* [Sub -> Seq(Event)]: the buffered channel
    pendingDropped,   \* [Sub -> Nat]: drops no marker has reported yet
    deferrals,        \* [Sub -> Nat]: how often the marker was put off
    droppedByDevice,  \* [Scope -> Nat]
    resyncsByDevice,  \* [Scope -> Nat]
    unresolved,       \* Nat: events refused for want of an identity
    handedOut,        \* [Sub -> Nat]
    announced         \* [Sub -> Nat]

busVars == <<revisions, status, scope, queue, pendingDropped, deferrals,
             droppedByDevice, resyncsByDevice, unresolved, handedOut, announced>>

Scope == SKI \cup {NoSKI}
Event == [ski : Scope, type : EventType, rev : Nat]

-----------------------------------------------------------------------------

BusInit ==
    /\ revisions = [k \in Scope |-> 0]
    /\ status = [s \in Sub |-> "new"]
    /\ scope = [s \in Sub |-> NoSKI]
    /\ queue = [s \in Sub |-> <<>>]
    /\ pendingDropped = [s \in Sub |-> 0]
    /\ deferrals = [s \in Sub |-> 0]
    /\ droppedByDevice = [k \in Scope |-> 0]
    /\ resyncsByDevice = [k \in Scope |-> 0]
    /\ unresolved = 0
    /\ handedOut = [s \in Sub |-> 0]
    /\ announced = [s \in Sub |-> 0]

Register(s, ski) ==
    /\ status[s] = "new"
    /\ status' = [status EXCEPT ![s] = "live"]
    /\ scope' = [scope EXCEPT ![s] = ski]
    /\ UNCHANGED <<revisions, queue, pendingDropped, deferrals, droppedByDevice,
                   resyncsByDevice, unresolved, announced>>

\* An unscoped subscription: it sees every device and is never resynchronised.
Subscribe(s) == Register(s, NoSKI) /\ UNCHANGED handedOut

\* The revision the caller is told is the one current at registration.
SubscribeWithRevision(s, raw) ==
    /\ Register(s, NormalizeSKI(raw))
    /\ handedOut' = [handedOut EXCEPT ![s] = revisions[NormalizeSKI(raw)]]

Unsubscribe(s) ==
    /\ status[s] = "live"
    /\ status' = [status EXCEPT ![s] = "gone"]
    /\ queue' = [queue EXCEPT ![s] = <<>>]
    /\ UNCHANGED <<revisions, scope, pendingDropped, deferrals, droppedByDevice,
                   resyncsByDevice, unresolved, handedOut, announced>>

\* The subscribers an event of device ski is offered to, and those of them
\* whose channel has no room for it.
AudienceUnfiltered(ski) == {s \in Sub : status[s] = "live"}  \* mutant: no SKI filter
Audience(ski) == {s \in Sub : status[s] = "live" /\ scope[s] \in {NoSKI, ski}}

Full(s) == Len(queue[s]) >= Capacity

MissedUncounted(ski) == {}  \* mutant: the select's default case counts nothing
Missed(ski) == {s \in Audience(ski) : Full(s)}

\* An event with no identity is counted and goes nowhere.
PublishUnresolved(raw, type) ==
    /\ NormalizeSKI(raw) = NoSKI
    /\ type # DiscoveryUpdated
    /\ unresolved < MaxUnresolved
    /\ unresolved' = unresolved + 1
    /\ UNCHANGED <<revisions, status, scope, queue, pendingDropped, deferrals,
                   droppedByDevice, resyncsByDevice, handedOut, announced>>

PublishResolved(raw, type) ==
    LET ski == NormalizeSKI(raw)
        evt == [ski |-> ski, type |-> type, rev |-> revisions[ski] + 1]
    IN  /\ ski # NoSKI \/ type = DiscoveryUpdated
        /\ revisions[ski] < MaxRevision
        /\ revisions' = [revisions EXCEPT ![ski] = @ + 1]
        /\ queue' = [s \in Sub |-> IF s \in Audience(ski) /\ ~Full(s)
                                   THEN Append(queue[s], evt) ELSE queue[s]]
        /\ pendingDropped' = [s \in Sub |-> IF s \in Missed(ski)
                                   THEN pendingDropped[s] + 1 ELSE pendingDropped[s]]
        /\ droppedByDevice' =
               [droppedByDevice EXCEPT ![ski] = @ + Cardinality(Missed(ski))]
        /\ UNCHANGED <<status, scope, deferrals, resyncsByDevice, unresolved,
                       handedOut, announced>>

\* A discovery update reports on the whole service list and carries no identity.
Publish(raw, type) ==
    /\ type = DiscoveryUpdated => NormalizeSKI(raw) = NoSKI
    /\ PublishUnresolved(raw, type) \/ PublishResolved(raw, type)

Newest(a, b) == IF a > b THEN a ELSE b

\* A consumer takes the oldest buffered event.
Receive(s) ==
    /\ status[s] = "live"
    /\ queue[s] # <<>>
    /\ queue' = [queue EXCEPT ![s] = Tail(@)]
    /\ handedOut' = [handedOut EXCEPT ![s] =
                        IF scope[s] = NoSKI THEN @ ELSE Newest(@, Head(queue[s]).rev)]
    /\ UNCHANGED <<revisions, status, scope, pendingDropped, deferrals,
                   droppedByDevice, resyncsByDevice, unresolved, announced>>

\* TakePendingResync: when it may hand out a marker, when it only counts a
\* deferral, and when it does nothing.
DeferAlways(s) == deferrals[s] < MaxDeferrals  \* mutant: len(ch) is not looked at
ResyncOwed(s) == status[s] = "live" /\ scope[s] # NoSKI /\ pendingDropped[s] # 0
DeferResync(s) == queue[s] # <<>> /\ deferrals[s] < MaxDeferrals

PendingKept(s) == pendingDropped[s]  \* mutant: the count is reported again
PendingCleared(s) == 0

TakePendingResync(s) ==
    /\ ResyncOwed(s) /\ ~DeferResync(s)
    /\ handedOut' = [handedOut EXCEPT ![s] = revisions[scope[s]]]
    /\ announced' = [announced EXCEPT ![s] = @ + pendingDropped[s]]
    /\ pendingDropped' = [pendingDropped EXCEPT ![s] = PendingCleared(s)]
    /\ deferrals' = [deferrals EXCEPT ![s] = 0]
    /\ resyncsByDevice' = [resyncsByDevice EXCEPT ![scope[s]] = @ + 1]
    /\ UNCHANGED <<revisions, status, scope, queue, droppedByDevice, unresolved>>

PostponeResync(s) ==
    /\ ResyncOwed(s) /\ DeferResync(s)
    /\ deferrals' = [deferrals EXCEPT ![s] = @ + 1]
    /\ UNCHANGED <<revisions, status, scope, queue, pendingDropped, droppedByDevice,
                   resyncsByDevice, unresolved, handedOut, announced>>

\* Revision(ski) and Diagnostics(ski).
Diagnostics(ski) ==
    [revision |-> revisions[ski], dropped |-> droppedByDevice[ski],
     resyncs |-> resyncsByDevice[ski], unresolved |-> unresolved]

BusNext ==
    \/ \E raw \in RawSKI, type \in EventType : Publish(raw, type)
    \/ \E s \in Sub :
        \/ Subscribe(s)
        \/ \E raw \in RawSKI : NormalizeSKI(raw) # NoSKI /\ SubscribeWithRevision(s, raw)
        \/ Unsubscribe(s)
        \/ Receive(s)
        \/ TakePendingResync(s)
        \/ PostponeResync(s)

BusSpec == BusInit /\ [][BusNext]_busVars

-----------------------------------------------------------------------------

\* Every variable stays in its type, and a channel in its buffer.
BusTypeOK ==
    /\ revisions \in [Scope -> Nat]
    /\ status \in [Sub -> {"new", "live", "gone"}]
    /\ scope \in [Sub -> Scope]
    /\ queue \in [Sub -> Seq(Event)]
    /\ pendingDropped \in [Sub -> Nat]
    /\ deferrals \in [Sub -> Nat]
    /\ droppedByDevice \in [Scope -> Nat]
    /\ resyncsByDevice \in [Scope -> Nat]
    /\ unresolved \in Nat
    /\ handedOut \in [Sub -> Nat]
    /\ announced \in [Sub -> Nat]
    /\ \A s \in Sub : Len(queue[s]) <= Capacity /\ deferrals[s] <= MaxDeferrals

Live(s) == status[s] = "live"
Scoped(s) == Live(s) /\ scope[s] # NoSKI

\* Buffered events of one device are in publication order, none is newer than
\* the device's revision, and a scoped channel holds its own device only.
QueueOrdered ==
    \A s \in Sub :
        /\ \A i \in DOMAIN queue[s] :
            /\ queue[s][i].rev <= revisions[queue[s][i].ski]
            /\ scope[s] = NoSKI \/ queue[s][i].ski = scope[s]
        /\ \A i, j \in DOMAIN queue[s] :
            i < j /\ queue[s][i].ski = queue[s][j].ski
                => queue[s][i].rev < queue[s][j].rev

\* Revisions still to come to a scoped subscriber that it has not been given.
Ahead(s) == {queue[s][i].rev : i \in DOMAIN queue[s]}

\* No silent loss (Publish, TakePendingResync): unless a drop is pending, the
\* channel of a scoped subscriber holds every revision after the newest one it
\* was given, with no hole.
NoSilentLoss ==
    \A s \in Sub :
        Scoped(s) /\ pendingDropped[s] = 0
            => \A r \in (handedOut[s] + 1)..revisions[scope[s]] : r \in Ahead(s)

\* What reaches a subscriber after it subscribed is newer than the revision it
\* was told then (SubscribeWithRevision: events "cannot overtake a stream's
\* initial envelope"), so handedOut never runs ahead of the bus.
HandedOutPublished ==
    \A s \in Sub : Scoped(s) => handedOut[s] <= revisions[scope[s]]

\* Every drop is reported by exactly one marker or is still pending: there are as many
\* in the durable per-device counters as in those of the subscribers (Publish,
\* TakePendingResync, Diagnostics).  A counter is the set of what it has counted.
Counted(count, K) == UNION {{k} \X (1 .. count[k]) : k \in K}
DropsAccounted ==
    Cardinality(Counted(droppedByDevice, Scope))
        = Cardinality(Counted(pendingDropped, Sub)) + Cardinality(Counted(announced, Sub))

\* A consumer that receives an event leaving a hole behind it is owed a marker
\* (Receive against Publish): a revision gap is never the only sign of a loss.
GapIsAnnounced ==
    [][\A s \in Sub :
        Scoped(s) /\ queue[s] # <<>> /\ queue'[s] = Tail(queue[s])
            /\ Head(queue[s]).rev > handedOut[s] + 1
        => pendingDropped[s] > 0]_busVars

-----------------------------------------------------------------------------
(* The bus as its scoped subscribers see it: a feed per subscriber that    *)
(* follows one device.                                                     *)

FeedNewest == [k \in SKI |-> revisions[k]]
FeedTopic == [s \in Sub |-> IF Live(s) THEN scope[s] ELSE NoSKI]
FeedComing == [s \in Sub |-> IF scope[s] = NoSKI THEN {} ELSE Ahead(s)]
FeedOwed == {s \in Sub : scope[s] # NoSKI /\ pendingDropped[s] > 0}

Feeds == INSTANCE FeedContract WITH
    Feed <- Sub, Device <- SKI, NoDevice <- NoSKI,
    newest <- FeedNewest, topic <- FeedTopic, known <- handedOut,
    coming <- FeedComing, owed <- FeedOwed

\* The bus keeps the feed contract (every operation of eventbus.go): a scoped subscriber
\* is handed its device's revisions oldest first, and with a hole among them only while
\* TakePendingResync still owes it a marker.
FeedKept == Feeds!Spec

=============================================================================
