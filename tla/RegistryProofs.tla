---------------------------- MODULE RegistryProofs ----------------------------
(***************************************************************************)
(* Theorems about the device registry.  A lemma per registry method says   *)
(* what it does to a row; the invariance proof lifts them to the handlers. *)
(* The second half is about trust, when one side decides about it.         *)
(***************************************************************************)
EXTENDS RegistryTrust, SequenceTheorems, TLAPS

\* The device has been removed, or has a health record.
Known(r) == r.removed \/ r.health # "unknown"

Has(r, c, entry) == r.caps # NoEntries /\ r.caps[c] = entry

RowOK(r) ==
    /\ r \in Row
    /\ r.removed => r = RemoveDevice(r)
    /\ r.health = "unknown" => ~r.trusted
    /\ r.health # "connected" => \A c \in Capability : ~Has(r, c, "available")
    /\ r.health = "connected" => \A c \in Capability : ~Has(r, c, "disconnected")

\* What a method may do to a row: a device is not forgotten without being
\* removed, and unsupported is left only for an advertised source.
RowStep(r, s) ==
    /\ RowOK(s)
    /\ Known(r) => Known(s)
    /\ \A c \in Capability :
          /\ r.caps # NoEntries
          /\ r.caps[c] \in Unsupported
          => s.removed \/ (s.caps # NoEntries /\
                (s.caps[c] \in Unsupported \/ (c \notin Disabled /\ s.advertised[c] # {})))

USE DEF Unsupported, Unavailable, Entry, Row, Known, Has, RowOK, RowStep

LEMMA EnsuredEntries ==
  ASSUME NEW r, RowOK(r)
  PROVE  /\ Ensured(r) \in [Capability -> Entry]
         /\ r.caps # NoEntries => Ensured(r) = r.caps
         /\ \A c \in Capability :
               /\ r.health # "connected" => Ensured(r)[c] # "available"
               /\ r.health = "connected" => Ensured(r)[c] # "disconnected"
  BY DEF Ensured, Fresh, Settled

LEMMA AddDeviceStep ==
  ASSUME NEW r, RowOK(r) PROVE RowStep(r, AddDevice(r))
  BY EntriesAssumption DEF AddDevice, Ensured, Fresh, Settled, RemoveDevice, Blank

LEMMA MarkConnectedStep ==
  ASSUME NEW r, RowOK(r)
  PROVE  RowStep(r, MarkConnected(r)) /\ Known(MarkConnected(r))
  <1>1. CASE r.removed \/ r.health = "connected"
    BY <1>1 DEF MarkConnected
  <1>2. CASE ~(r.removed \/ r.health = "connected")
    <2> DEFINE caps == [c \in Capability |-> IF Ensured(r)[c] = "disconnected"
                                             THEN Settled(c, "unknown") ELSE Ensured(r)[c]]
    <2>1. /\ caps \in [Capability -> Entry]
          /\ \A c \in Capability : caps[c] # "disconnected"
          /\ r.caps # NoEntries =>
                \A c \in Capability : r.caps[c] \in Unsupported => caps[c] = r.caps[c]
      BY EnsuredEntries DEF Settled
    <2>2. MarkConnected(r) = [r EXCEPT !.health = "connected", !.trusted = TRUE, !.caps = caps]
      BY <1>2 DEF MarkConnected, Connected
    <2> DEFINE s == [r EXCEPT !.health = "connected", !.trusted = TRUE, !.caps = caps]
    <2> HIDE DEF caps
    <2>3. /\ s \in Row
          /\ s.removed = FALSE /\ s.health = "connected" /\ s.caps = caps
      BY <1>2, <2>1
    <2> HIDE DEF s
    <2>4. s.caps # NoEntries
      BY <2>1, <2>3, EntriesAssumption
    <2> QED
      BY <2>1, <2>2, <2>3, <2>4 DEF s
  <1> QED
    BY <1>1, <1>2

LEMMA MarkTrustedStep ==
  ASSUME NEW r, RowOK(r) PROVE RowStep(r, MarkTrusted(r))
  BY EntriesAssumption DEF MarkTrusted, RemoveDevice, Blank

LEMMA MarkUntrustedStep ==
  ASSUME NEW r, RowOK(r) PROVE RowStep(r, MarkUntrusted(r))
  BY EntriesAssumption DEF MarkUntrusted, Withdrawn, Ensured, Fresh, Settled, RemoveDevice, Blank

LEMMA MarkDisconnectedStep ==
  ASSUME NEW r, RowOK(r) PROVE RowStep(r, MarkDisconnected(r))
  BY EntriesAssumption DEF MarkDisconnected, Withdrawn, Ensured, Fresh, Settled, RemoveDevice, Blank

LEMMA ClearEntitiesStep ==
  ASSUME NEW r, RowOK(r) PROVE RowStep(r, ClearEntities(r))
  BY EntriesAssumption DEF ClearEntities, RemoveDevice, Blank

LEMMA RemoveDeviceStep ==
  ASSUME NEW r, RowOK(r) PROVE RowStep(r, RemoveDevice(r))
  BY EntriesAssumption DEF RemoveDevice, Blank

LEMMA UpsertStep ==
  ASSUME NEW r, RowOK(r), NEW entity \in Nat PROVE RowStep(r, UpsertObservation(r, entity))
  BY EntriesAssumption DEF UpsertObservation, Ensured, Fresh, Settled, RemoveDevice, Blank

LEMMA RemoveEntityStep ==
  ASSUME NEW r, RowOK(r), NEW entity \in Nat PROVE RowStep(r, RemoveEntityObservation(r, entity))
  BY EntriesAssumption DEF RemoveEntityObservation, RemoveDevice, Blank

\* An entry may be recorded if it agrees with the connection and keeps an
\* unsupported capability unsupported.
Recordable(r, c, entry) ==
    /\ entry \in Entry
    /\ r.health # "connected" => entry # "available"
    /\ r.health = "connected" => entry # "disconnected"

LEMMA RecordedEntry ==
  ASSUME NEW r, RowOK(r), Known(r), ~r.removed, NEW c \in Capability,
         NEW entry \in Entry \ {"disconnected"}
  PROVE  /\ Recordable(r, c, Recorded(r, c, entry))
         /\ Ensured(r)[c] \in Unsupported => Recorded(r, c, entry) \in Unsupported
  BY EnsuredEntries DEF Recorded, Recordable, Settled

LEMMA RecordedUnknown ==
  ASSUME NEW r, RowOK(r), NEW c \in Capability,
         NEW entry \in Entry \ {"disconnected", "available"}
  PROVE  /\ Recordable(r, c, Recorded(r, c, entry))
         /\ Ensured(r)[c] \in Unsupported => Recorded(r, c, entry) \in Unsupported
  BY EnsuredEntries DEF Recorded, Recordable, Settled

LEMMA WithEntryStep ==
  ASSUME NEW r, RowOK(r), ~r.removed, NEW c \in Capability, NEW entry, Recordable(r, c, entry),
         Ensured(r)[c] \in Unsupported => entry \in Unsupported
  PROVE  RowStep(r, WithEntry(r, c, entry))
  <1> DEFINE caps == [Ensured(r) EXCEPT ![c] = entry]
  <1>1. /\ caps \in [Capability -> Entry]
        /\ \A b \in Capability : caps[b] = IF b = c THEN entry ELSE Ensured(r)[b]
    BY EnsuredEntries DEF Recordable
  <1>2. /\ \A b \in Capability : /\ r.health # "connected" => caps[b] # "available"
                                 /\ r.health = "connected" => caps[b] # "disconnected"
        /\ r.caps # NoEntries =>
              \A b \in Capability : r.caps[b] \in Unsupported => caps[b] \in Unsupported
    BY <1>1, EnsuredEntries DEF Recordable
  <1>3. WithEntry(r, c, entry) = [r EXCEPT !.caps = caps]
    BY DEF WithEntry
  <1> HIDE DEF caps
  <1> QED
    BY <1>1, <1>2, <1>3, EntriesAssumption

LEMMA ReadStep ==
  ASSUME NEW r, RowOK(r), Known(r), NEW c \in Capability, NEW ok \in BOOLEAN
  PROVE  RowStep(r, RecordCapabilityRead(r, c, ok))
  <1>1. CASE r.removed
    BY <1>1 DEF RecordCapabilityRead
  <1>2. CASE ~r.removed
    <2>1. PICK entry \in {"available", "read_failed"} :
             RecordCapabilityRead(r, c, ok) = WithEntry(r, c, Recorded(r, c, entry))
      BY <1>2 DEF RecordCapabilityRead
    <2> QED
      BY <1>2, <2>1, RecordedEntry, WithEntryStep
  <1> QED
    BY <1>1, <1>2

LEMMA MissingStep ==
  ASSUME NEW r, RowOK(r), NEW c \in Capability, NEW found
  PROVE  RowStep(r, RecordCapabilityMissingEntity(r, c, found))
  <1>1. CASE r.removed
    BY <1>1 DEF RecordCapabilityMissingEntity
  <1>2. CASE ~r.removed
    <2>1. PICK entry \in {"not_advertised", "not_bound"} :
             RecordCapabilityMissingEntity(r, c, found) = WithEntry(r, c, Recorded(r, c, entry))
      BY <1>2 DEF RecordCapabilityMissingEntity
    <2> QED
      BY <1>2, <2>1, RecordedUnknown, WithEntryStep
  <1> QED
    BY <1>1, <1>2

LEMMA SupportStep ==
  ASSUME NEW r, RowOK(r), NEW c \in Capability, NEW source \in Source, NEW supported \in BOOLEAN
  PROVE  RowStep(r, RecordCapabilitySourceSupport(r, c, source, supported))
  <1>1. CASE r.removed
    BY <1>1 DEF RecordCapabilitySourceSupport
  <1>2. CASE ~r.removed
    <2> DEFINE sources == IF supported THEN r.advertised[c] \cup {source}
                          ELSE r.advertised[c] \ {source}
               entry == IF r.health = "disconnected" THEN Recorded(r, c, "disconnected")
                        ELSE Settled(c, IF sources # {} THEN "unknown" ELSE "not_advertised")
               caps == [Ensured(r) EXCEPT ![c] = entry]
               s == [r EXCEPT !.caps = caps, !.advertised[c] = sources]
    <2>1. RecordCapabilitySourceSupport(r, c, source, supported) = s
      BY <1>2 DEF RecordCapabilitySourceSupport, WithEntry
    <2>2. sources \in SUBSET Source
      OBVIOUS
    <2>3. /\ Recordable(r, c, entry)
          /\ Ensured(r)[c] \in Unsupported =>
                entry \in Unsupported \/ (c \notin Disabled /\ sources # {})
      BY EnsuredEntries DEF Recorded, Recordable, Settled
    <2> HIDE DEF sources, entry
    <2>4. /\ caps \in [Capability -> Entry]
          /\ \A b \in Capability : caps[b] = IF b = c THEN entry ELSE Ensured(r)[b]
      BY <2>3, EnsuredEntries DEF Recordable
    <2>5. /\ \A b \in Capability : /\ r.health # "connected" => caps[b] # "available"
                                   /\ r.health = "connected" => caps[b] # "disconnected"
          /\ r.caps # NoEntries =>
                \A b \in Capability : r.caps[b] \in Unsupported =>
                   caps[b] \in Unsupported \/ (b = c /\ c \notin Disabled /\ sources # {})
      BY <2>3, <2>4, EnsuredEntries DEF Recordable
    <2> HIDE DEF caps
    <2>6. /\ s \in Row
          /\ s.removed = FALSE /\ s.health = r.health /\ s.trusted = r.trusted /\ s.caps = caps
          /\ s.advertised[c] = sources
      BY <1>2, <2>2, <2>4
    <2> HIDE DEF s
    <2> QED
      BY <1>2, <2>1, <2>4, <2>5, <2>6, EntriesAssumption
  <1> QED
    BY <1>1, <1>2

-----------------------------------------------------------------------------
(* The inductive invariant: rows are as the methods leave them, a read has *)
(* resolved an entity only of a device the registry knows, and a link the  *)
(* registry does not know of yet has its callback waiting.                 *)

Callee ==
    {Idle}
    \cup [kind : {"support"}, step : Nat, source : Source, supported : BOOLEAN,
          entity : Nat, offline : BOOLEAN]
    \cup [kind : {"data"}, step : Nat, entity : Nat]

Command == {Idle} \cup [kind : {"register", "unregister", "reconnect"}, step : Nat, ski : SKI]

Callback == {"connected", "disconnected", "auto_trusted", "auto_trust_failed", "trust_removed"}

Announced(d) == \E i \in 1 .. Len(pending[d]) : pending[d][i] = "connected"

Shape ==
    /\ stackTrust \subseteq SKI /\ link \subseteq stackTrust
    /\ epoch \in [SKI -> 0 .. MaxEpoch]
    /\ pending \in [SKI -> Seq(Callback)]
    /\ callback \in [SKI -> 1 .. 2]
    /\ useCase \in [SKI -> Callee]
    /\ reading \in [SKI -> {"none", "resolved", "bound", "unbound"}]
    /\ command \in [Client -> Command]

Rows == reg \in [SKI -> Row] /\ \A d \in SKI : RowOK(reg[d])

ReadsKnown == \A d \in SKI : reading[d] = "resolved" => Known(reg[d])

LinksKnown == \A d \in link : Known(reg[d]) \/ Announced(d)

RegInv == Shape /\ Rows /\ ReadsKnown /\ LinksKnown

HIDE DEF Unsupported, Unavailable, Entry, Row, Known, Has, RowOK, RowStep
USE DEF Shape, Rows, ReadsKnown, Callee, Command, stackVars

\* What every step does to the rows.
RowsStep == Rows' /\ \A d \in SKI : RowStep(reg[d], reg'[d])

LEMMA UpdateStep ==
  ASSUME Rows, NEW d \in SKI, NEW s, RowStep(reg[d], s), Update(d, s)
  PROVE  RowsStep /\ reg'[d] = s
  <1>1. \A e \in SKI : RowStep(reg[e], reg[e])
    BY DEF RowStep, RowOK
  <1>2. s \in Row /\ RowOK(s)
    BY DEF RowStep, RowOK
  <1> QED
    BY <1>1, <1>2 DEF RowsStep, Update, RowStep

LEMMA NoUpdateStep ==
  ASSUME Rows, UNCHANGED reg
  PROVE  RowsStep
  BY DEF RowsStep, RowStep, RowOK

LEMMA InitInv == Init => RegInv
  BY RegistryBoundAssumption, ConfiguredAssumption, EntriesAssumption
  DEF Init, RegInv, LinksKnown, Announced, Blank, Idle, RemoveDevice, Row, RowOK, Has

\* A step that changes neither reads, links nor callbacks.
LEMMA RowsOnly ==
  ASSUME RegInv, RowsStep, UNCHANGED <<link, pending>>,
         \A d \in SKI : reading'[d] = "resolved" => Known(reg[d])
  PROVE  Rows' /\ ReadsKnown' /\ LinksKnown'
  <1>1. \A d \in SKI : Known(reg[d]) => Known(reg'[d])
    BY DEF RowsStep, RowStep
  <1>2. ReadsKnown'
    BY <1>1
  <1>3. LinksKnown'
    BY <1>1 DEF LinksKnown, Announced, RegInv
  <1> QED
    BY <1>2, <1>3 DEF RowsStep

LEMMA LinkUpStep ==
  ASSUME RegInv, NEW d \in SKI, LinkUp(d)
  PROVE  RegInv' /\ RowsStep
  <1>1. RowsStep
    BY NoUpdateStep DEF LinkUp, RegInv
  <1>2. pending'[d] = pending[d] \o <<"connected">>
    BY DEF LinkUp, Deliver, RegInv
  <1>3. pending' \in [SKI -> Seq(Callback)] /\ \A e \in SKI \ {d} : pending'[e] = pending[e]
    <2>1. pending[d] \o <<"connected">> \in Seq(Callback)
      <3>1. pending[d] \in Seq(Callback)
        BY DEF RegInv
      <3>2. "connected" \in Callback
        BY DEF Callback
      <3> QED
        BY <3>1, <3>2, AppendProperties, AppendIsConcat
    <2>2. pending' = [pending EXCEPT ![d] = pending[d] \o <<"connected">>]
      BY DEF LinkUp, Deliver, RegInv
    <2> QED
      BY <2>1, <2>2 DEF RegInv
  <1>4. Shape'
    <2>1. link' \subseteq stackTrust' /\ stackTrust' \subseteq SKI
      BY DEF LinkUp, RegInv
    <2>2. epoch' \in [SKI -> 0 .. MaxEpoch]
      BY RegistryBoundAssumption DEF LinkUp, RegInv
    <2> QED
      BY <1>3, <2>1, <2>2 DEF LinkUp, RegInv
  <1>5. Announced(d)'
    <2>1. Len(pending'[d]) = Len(pending[d]) + 1 /\ pending'[d][Len(pending[d]) + 1] = "connected"
      BY <1>2 DEF RegInv
    <2> QED
      BY <2>1 DEF Announced, RegInv
  <1>6. LinksKnown'
    <2> SUFFICES ASSUME NEW e \in link', e # d
                 PROVE  Known(reg'[e]) \/ Announced(e)'
      BY <1>5 DEF LinksKnown
    <2>1. e \in link /\ e \in SKI \ {d} /\ UNCHANGED reg
      BY DEF LinkUp, RegInv
    <2>2. pending'[e] = pending[e]
      BY <1>3, <2>1
    <2> QED
      BY <2>1, <2>2 DEF LinksKnown, Announced, RegInv
  <1> QED
    BY <1>1, <1>4, <1>6 DEF RegInv, LinkUp, RowsStep

\* The stack closes the link, if there is one, and delivers callbacks.
LEMMA UnlinkStep ==
  ASSUME RegInv, NEW d \in SKI, NEW callbacks \in Seq(Callback),
         Deliver(d, callbacks), link' = link \ {d}, stackTrust' \in {stackTrust, stackTrust \ {d}},
         link' \subseteq stackTrust',
         UNCHANGED <<reg, epoch, callback, useCase, reading>>, command' \in [Client -> Command]
  PROVE  RegInv' /\ RowsStep
  <1>1. RowsStep
    BY NoUpdateStep DEF RegInv
  <1>2. pending' \in [SKI -> Seq(Callback)] /\ \A e \in SKI \ {d} : pending'[e] = pending[e]
    BY DEF Deliver, RegInv
  <1>3. Shape'
    BY <1>2 DEF RegInv
  <1>4. LinksKnown'
    <2> SUFFICES ASSUME NEW e \in link'
                 PROVE  Known(reg'[e]) \/ Announced(e)'
      BY DEF LinksKnown
    <2>1. e \in link /\ e \in SKI \ {d} /\ pending'[e] = pending[e]
      BY <1>2 DEF RegInv
    <2> QED
      BY <2>1 DEF LinksKnown, Announced, RegInv
  <1> QED
    BY <1>1, <1>3, <1>4 DEF RegInv, RowsStep

LEMMA CallbackStepStep ==
  ASSUME RegInv, NEW d \in SKI, CallbackStep(d)
  PROVE  RegInv' /\ RowsStep
  <1> DEFINE kind == Head(pending[d])
             n == callback[d]
  <1>1. pending[d] \in Seq(Callback) /\ pending[d] # <<>> /\ kind = pending[d][1]
    BY DEF CallbackStep, RegInv
  <1>2. PICK s : /\ Update(d, s)
                 /\ RowStep(reg[d], s)
                 /\ kind = "connected" /\ n = 2 => Known(s)
    <2> DEFINE s == CASE kind = "connected" /\ n = 1 -> AddDevice(reg[d])
                      [] kind = "connected" /\ n = 2 -> MarkConnected(reg[d])
                      [] kind = "disconnected" /\ n = 1 -> MarkDisconnected(reg[d])
                      [] kind = "auto_trusted" -> MarkTrusted(reg[d])
                      [] kind = "auto_trust_failed" -> MarkUntrusted(reg[d])
                      [] kind = "trust_removed" /\ n = 1 -> MarkUntrusted(reg[d])
                      [] OTHER -> ClearEntities(reg[d])
    <2>1. Update(d, s)
      BY DEF CallbackStep
    <2>2. RowOK(reg[d])
      BY DEF RegInv
    <2>3. /\ RowStep(reg[d], s)
          /\ kind = "connected" /\ n = 2 => Known(s)
      <3> HIDE DEF kind, n
      <3> QED
        BY <2>2, AddDeviceStep, MarkConnectedStep, MarkDisconnectedStep, MarkTrustedStep,
           MarkUntrustedStep, ClearEntitiesStep
    <2> QED
      BY <2>1, <2>3
  <1>3. RowsStep /\ reg'[d] = s
    BY <1>2, UpdateStep DEF RegInv
  <1>4. /\ pending'[d] = pending[d] \/ pending'[d] = Tail(pending[d])
        /\ kind = "connected" /\ n # 2 => pending'[d] = pending[d]
        /\ \A e \in SKI \ {d} : pending'[e] = pending[e]
    BY DEF CallbackStep, RegInv
  <1>5. pending' \in [SKI -> Seq(Callback)]
    <2>1. Tail(pending[d]) \in Seq(Callback)
      BY <1>1, HeadTailProperties
    <2> QED
      BY <1>1, <2>1 DEF CallbackStep, RegInv
  <1>6. Shape'
    BY <1>5 DEF CallbackStep, RegInv
  <1>7. ASSUME Announced(d) PROVE Known(reg'[d]) \/ Announced(d)'
    <2>1. PICK i \in 1 .. Len(pending[d]) : pending[d][i] = "connected"
      BY <1>7 DEF Announced
    <2>2. CASE pending'[d] = pending[d]
      BY <2>1, <2>2 DEF Announced
    <2>3. CASE pending'[d] # pending[d] /\ i = 1
      BY <1>1, <1>2, <1>3, <1>4, <2>1, <2>3
    <2>4. CASE pending'[d] # pending[d] /\ i # 1
      <3>1. pending'[d] = Tail(pending[d])
        BY <1>4, <2>4
      <3>2. Len(pending[d]) \in Nat /\ i \in 2 .. Len(pending[d])
        BY <1>1, <2>1, <2>4
      <3>3. i - 1 \in 1 .. Len(Tail(pending[d])) /\ Tail(pending[d])[i - 1] = pending[d][i]
        BY <1>1, <3>2
      <3> QED
        BY <2>1, <3>1, <3>3 DEF Announced
    <2> QED
      BY <2>2, <2>3, <2>4
  <1>8. \A e \in SKI : Known(reg[e]) => Known(reg'[e])
    BY <1>3 DEF RowsStep, RowStep
  <1>9. LinksKnown'
    <2>1. UNCHANGED link
      BY DEF CallbackStep
    <2> SUFFICES ASSUME NEW e \in link
                 PROVE  Known(reg'[e]) \/ Announced(e)'
      BY <2>1 DEF LinksKnown
    <2>2. e \in SKI /\ (Known(reg[e]) \/ Announced(e))
      BY DEF RegInv, LinksKnown
    <2>3. CASE e = d
      BY <1>7, <1>8, <2>2, <2>3
    <2>4. CASE e # d
      <3>1. pending'[e] = pending[e]
        BY <1>4, <2>2, <2>4
      <3> QED
        BY <1>8, <2>2, <3>1 DEF Announced
    <2> QED
      BY <2>3, <2>4
  <1>10. ReadsKnown'
    BY <1>8 DEF CallbackStep, RegInv
  <1> QED
    BY <1>3, <1>6, <1>9, <1>10 DEF RegInv, RowsStep

\* A step of a handler that leaves the stack alone.
LEMMA QuietStep ==
  ASSUME RegInv, RowsStep, Shape', UNCHANGED stackVars,
         \A d \in SKI : reading'[d] = "resolved" => Known(reg[d])
  PROVE  RegInv'
  BY RowsOnly DEF RegInv

LEMMA UseCaseStep ==
  ASSUME RegInv, NEW d \in SKI,
         SupportBegin(d) \/ SupportCatalog(d) \/ SupportEnd(d) \/ DataBegin(d) \/ DataEnd(d)
  PROVE  RegInv' /\ RowsStep
  <1> USE DEF RegInv
  <1>0. RowOK(reg[d])
    OBVIOUS
  <1>1. CASE SupportBegin(d)
    <2>1. UNCHANGED <<reg, stackVars, callback, reading, command>>
      BY <1>1 DEF SupportBegin, UseCaseBegin
    <2>2. useCase' \in [SKI -> Callee]
      BY <1>1 DEF SupportBegin, UseCaseBegin
    <2> QED
      BY <2>1, <2>2, NoUpdateStep, QuietStep
  <1>2. CASE SupportCatalog(d)
    <2>1. useCase[d] \in Callee /\ useCase[d].kind = "support"
      BY <1>2 DEF SupportCatalog
    <2>2. useCase[d].entity \in Nat /\ [useCase[d] EXCEPT !.step = 2] \in Callee
      <3> DEFINE Support == [kind : {"support"}, step : Nat, source : Source,
                             supported : BOOLEAN, entity : Nat, offline : BOOLEAN]
      <3>1. useCase[d] \in Support
        BY <2>1 DEF Idle
      <3>2. [useCase[d] EXCEPT !.step = 2] \in Support
        BY <3>1
      <3> QED
        BY <3>1, <3>2
    <2>3. RowsStep
      <3>1. PICK s : /\ Update(d, s)
                     /\ s \in {UpsertObservation(reg[d], useCase[d].entity),
                               RemoveEntityObservation(reg[d], useCase[d].entity)}
        BY <1>2 DEF SupportCatalog
      <3>2. RowStep(reg[d], s)
        BY <1>0, <2>2, <3>1, UpsertStep, RemoveEntityStep
      <3> QED
        BY <3>1, <3>2, UpdateStep
    <2>4. useCase' \in [SKI -> Callee]
      BY <1>2, <2>2 DEF SupportCatalog
    <2> QED
      BY <1>2, <2>3, <2>4, QuietStep DEF SupportCatalog
  <1>3. CASE SupportEnd(d)
    <2>1. useCase[d] \in Callee /\ useCase[d].kind = "support"
      BY <1>3 DEF SupportEnd
    <2>2. useCase[d].source \in Source /\ useCase[d].supported \in BOOLEAN
      BY <2>1 DEF Idle
    <2>3. PICK c \in Capability :
             Update(d, RecordCapabilitySourceSupport(reg[d], c, useCase[d].source,
                                                     useCase[d].supported))
      BY <1>3 DEF SupportEnd
    <2>4. RowsStep
      BY <1>0, <2>2, <2>3, SupportStep, UpdateStep
    <2>5. useCase' \in [SKI -> Callee]
      BY <1>3 DEF SupportEnd
    <2> QED
      BY <1>3, <2>4, <2>5, QuietStep DEF SupportEnd
  <1>4. CASE DataBegin(d)
    <2>1. UNCHANGED <<reg, stackVars, callback, reading, command>>
      BY <1>4 DEF DataBegin, UseCaseBegin
    <2>2. useCase' \in [SKI -> Callee]
      BY <1>4 DEF DataBegin, UseCaseBegin
    <2> QED
      BY <2>1, <2>2, NoUpdateStep, QuietStep
  <1>5. CASE DataEnd(d)
    <2>1. useCase[d].entity \in Nat
      BY <1>5 DEF DataEnd, Idle
    <2>2. RowsStep
      BY <1>0, <1>5, <2>1, UpsertStep, UpdateStep DEF DataEnd
    <2>3. useCase' \in [SKI -> Callee]
      BY <1>5 DEF DataEnd
    <2> QED
      BY <1>5, <2>2, <2>3, QuietStep DEF DataEnd
  <1> QED
    BY <1>1, <1>2, <1>3, <1>4, <1>5

LEMMA ReadingStep ==
  ASSUME RegInv, NEW d \in SKI, ReadBegin(d) \/ ReadEnd(d)
  PROVE  RegInv' /\ RowsStep
  <1> USE DEF RegInv
  <1>1. CASE ReadBegin(d)
    <2>1. RowsStep
      BY <1>1, NoUpdateStep DEF ReadBegin
    <2>2. reading' \in [SKI -> {"none", "resolved", "bound", "unbound"}]
      BY <1>1 DEF ReadBegin
    <2>3. ASSUME NEW e \in SKI, reading'[e] = "resolved" PROVE Known(reg[e])
      <3>1. CASE reading[e] = "resolved"
        BY <3>1
      <3>2. CASE reading[e] # "resolved"
        <4>1. e = d /\ Discovered(d)
          BY <1>1, <2>3, <3>2 DEF ReadBegin
        <4>2. Known(reg[d]) \/ Announced(d)
          BY <4>1 DEF Discovered, LinksKnown
        <4>3. ~Announced(d)
          BY <4>1 DEF Discovered, Announced
        <4> QED
          BY <4>1, <4>2, <4>3
      <3> QED
        BY <3>1, <3>2
    <2> QED
      BY <1>1, <2>1, <2>2, <2>3, QuietStep DEF ReadBegin
  <1>2. CASE ReadEnd(d)
    <2>1. RowOK(reg[d]) /\ (reading[d] = "resolved" => Known(reg[d]))
      OBVIOUS
    <2>2. PICK c \in Capability :
             \/ /\ reading[d] = "resolved"
                /\ \E ok \in BOOLEAN : Update(d, RecordCapabilityRead(reg[d], c, ok))
             \/ Update(d, RecordCapabilityMissingEntity(reg[d], c, reading[d]))
      BY <1>2 DEF ReadEnd
    <2>3. RowsStep
      BY <2>1, <2>2, ReadStep, MissingStep, UpdateStep
    <2>4. /\ reading' \in [SKI -> {"none", "resolved", "bound", "unbound"}]
          /\ \A e \in SKI : reading'[e] = "resolved" => reading[e] = "resolved"
      BY <1>2 DEF ReadEnd
    <2> QED
      BY <1>2, <2>3, <2>4, QuietStep DEF ReadEnd
  <1> QED
    BY <1>1, <1>2

LEMMA Deliverable ==
  /\ <<>> \in Seq(Callback)
  /\ <<"disconnected">> \in Seq(Callback)
  /\ <<"trust_removed">> \in Seq(Callback)
  /\ <<"disconnected", "trust_removed">> \in Seq(Callback)
  /\ <<"auto_trusted">> \in Seq(Callback)
  /\ <<"auto_trust_failed">> \in Seq(Callback)
  BY DEF Callback

LEMMA StackStep ==
  ASSUME RegInv, NEW d \in SKI, LinkDown(d) \/ Revoke(d) \/ AutoTrust(d)
  PROVE  RegInv' /\ RowsStep
  <1> USE DEF RegInv
  <1>1. CASE LinkDown(d)
    BY <1>1, Deliverable, UnlinkStep DEF LinkDown
  <1>2. CASE Revoke(d)
    <2>1. PICK callbacks \in {<<"disconnected", "trust_removed">>, <<"trust_removed">>} :
             Deliver(d, callbacks)
      BY <1>2 DEF Revoke
    <2>2. callbacks \in Seq(Callback)
      BY <2>1, Deliverable
    <2> QED
      BY <1>2, <2>1, <2>2, UnlinkStep DEF Revoke
  <1>3. CASE AutoTrust(d)
    <2>1. PICK callbacks \in {<<"auto_trusted">>, <<"auto_trust_failed">>} :
             Deliver(d, callbacks)
      BY <1>3 DEF AutoTrust
    <2>2. callbacks \in Seq(Callback)
      BY <2>1, Deliverable
    <2>3. link = link \ {d} /\ UNCHANGED <<reg, epoch, callback, useCase, reading, command, link>>
      BY <1>3 DEF AutoTrust
    <2>4. CASE UNCHANGED stackTrust
      BY <2>1, <2>2, <2>3, <2>4, UnlinkStep
    <2>5. CASE stackTrust' = stackTrust \cup {d}
      <3>1. Shape' /\ \A e \in SKI \ {d} : pending'[e] = pending[e]
        <4>1. pending[d] \o callbacks \in Seq(Callback)
          BY <2>2, ConcatProperties
        <4>2. pending' = [pending EXCEPT ![d] = pending[d] \o callbacks]
          BY <2>1 DEF Deliver
        <4> QED
          BY <2>3, <2>5, <4>1, <4>2
      <3>2. LinksKnown'
        <4> SUFFICES ASSUME NEW e \in link
                     PROVE  Known(reg'[e]) \/ Announced(e)'
          BY <2>3 DEF LinksKnown
        <4>1. e \in SKI \ {d} /\ pending'[e] = pending[e] /\ reg'[e] = reg[e]
          BY <2>3, <3>1
        <4> QED
          BY <4>1 DEF LinksKnown, Announced
      <3>3. RowsStep
        BY <2>3, NoUpdateStep
      <3> QED
        BY <2>3, <3>1, <3>2, <3>3 DEF RowsStep
    <2> QED
      BY <1>3, <2>4, <2>5 DEF AutoTrust
  <1> QED
    BY <1>1, <1>2, <1>3

LEMMA AdvancedType ==
  ASSUME NEW c \in Command, c.kind # "idle"
  PROVE  Advanced(c) \in Command
  <1> DEFINE Running == [kind : {"register", "unregister", "reconnect"}, step : Nat, ski : SKI]
  <1>1. c \in Running
    BY DEF Idle
  <1>2. [c EXCEPT !.step = @ + 1] \in Running
    BY <1>1
  <1> QED
    BY <1>2 DEF Advanced

LEMMA CommandsStep ==
  ASSUME RegInv, NEW p \in Client, CommandBegin(p) \/ CommandStep(p)
  PROVE  RegInv' /\ RowsStep
  <1> USE DEF RegInv
  <1>1. CASE CommandBegin(p)
    <2>1. command' \in [Client -> Command]
      BY <1>1, OperationAssumption DEF CommandBegin
    <2> QED
      BY <1>1, <2>1, NoUpdateStep, QuietStep DEF CommandBegin
  <1>2. CASE CommandStep(p)
    <2> DEFINE d == command[p].ski
    <2>1. command[p].kind \in {"register", "unregister", "reconnect"}
      BY <1>2 DEF CommandStep, At
    <2>2. d \in SKI /\ Advanced(command[p]) \in Command
      BY <2>1, AdvancedType DEF Idle
    <2>3. command' \in [Client -> Command]
      BY <1>2, <2>2 DEF CommandStep
    <2>4. RowOK(reg[d])
      BY <2>2
    <2>5. UNCHANGED <<callback, useCase, reading>>
      BY <1>2 DEF CommandStep
    <2>6. CASE StackRegister(d) /\ UNCHANGED reg
      <3>1. Shape'
        BY <2>2, <2>3, <2>5, <2>6 DEF StackRegister
      <3>2. LinksKnown'
        BY <2>6 DEF StackRegister, LinksKnown, Announced
      <3> QED
        BY <2>5, <2>6, <3>1, <3>2, NoUpdateStep DEF RowsStep
    <2>7. CASE StackUnregister(d) /\ UNCHANGED reg
      <3>1. PICK callbacks \in {<<"disconnected">>, <<>>} : Deliver(d, callbacks)
        BY <2>7 DEF StackUnregister
      <3>2. callbacks \in Seq(Callback)
        BY <3>1, Deliverable
      <3> QED
        BY <2>2, <2>3, <2>5, <2>7, <3>1, <3>2, UnlinkStep DEF StackUnregister
    <2>8. CASE UNCHANGED stackVars /\ \E s : Update(d, s) /\ RowStep(reg[d], s)
      BY <2>2, <2>3, <2>5, <2>8, UpdateStep, QuietStep
    <2> QED
      BY <1>2, <2>4, <2>6, <2>7, <2>8, MarkTrustedStep, MarkUntrustedStep, RemoveDeviceStep,
         ClearEntitiesStep DEF CommandStep
  <1> QED
    BY <1>1, <1>2

LEMMA NextStep ==
  ASSUME RegInv, [Next]_vars
  PROVE  RegInv' /\ RowsStep
  <1>1. CASE Next
    BY <1>1, LinkUpStep, StackStep, CallbackStepStep, UseCaseStep, ReadingStep, CommandsStep
    DEF Next
  <1>2. CASE UNCHANGED vars
    <2>1. RowsStep
      BY <1>2, NoUpdateStep DEF vars, RegInv
    <2> QED
      BY <1>2, <2>1, QuietStep DEF vars, RegInv
  <1> QED
    BY <1>1, <1>2

\* The invariant holds in every reachable state, for every set of devices,
\* capabilities, sources and clients.
THEOREM RegistryInvariant == Spec => []RegInv
  <1> HIDE DEF RegInv
  <1> QED
    BY InitInv, NextStep, PTL DEF Spec

\* The registry's type invariant (deviceMonitoringState in registry.go).
THEOREM RegistryTypeCorrect == Spec => []RegistryTypeOK
  <1>1. RegInv => RegistryTypeOK
    BY DEF RegInv, RegistryTypeOK, RowOK
  <1> QED
    BY <1>1, RegistryInvariant, PTL

\* No late callback, event or read recreates a removed device (the tombstone
\* of registry.go).
THEOREM RegistryRemovedIsForgotten == Spec => []RemovedIsForgotten
  <1>1. RegInv => RemovedIsForgotten
    BY DEF RegInv, RemovedIsForgotten, RowOK
  <1> QED
    BY <1>1, RegistryInvariant, PTL

\* Capabilities agree with the connection (capabilities.go).
THEOREM RegistryCapabilityMatchesConnection == Spec => []CapabilityMatchesConnection
  <1>1. RegInv => CapabilityMatchesConnection
    BY DEF RegInv, CapabilityMatchesConnection, RowOK, Has
  <1> QED
    BY <1>1, RegistryInvariant, PTL

\* An unsupported capability stays so until it is advertised or the device is
\* removed (recordCapabilitySupportLocked and RecordCapabilityRead).
THEOREM RegistryUnsupportedIsSticky == Spec => UnsupportedIsSticky
  <1>1. RegInv /\ [Next]_vars =>
           [\A d \in SKI, c \in Capability :
               /\ reg[d].caps # NoEntries
               /\ reg[d].caps[c] \in Unsupported
               => \/ reg'[d].removed
                  \/ reg'[d].caps[c] \in Unsupported
                  \/ c \notin Disabled /\ reg'[d].advertised[c] # {}]_vars
    BY NextStep DEF RowsStep, RowStep
  <1> QED
    BY <1>1, RegistryInvariant, PTL DEF Spec, UnsupportedIsSticky

-----------------------------------------------------------------------------
(* Trust, when one side decides.  After a command of the user the registry *)
(* and the stack agree, but for the callbacks of connections that still    *)
(* wait; while the peer decides, the latest waiting callback that tells    *)
(* about trust has it as the stack does.                                   *)

\* A connected device is trusted.
LinkedTrusted == \A d \in SKI : reg[d].health = "connected" => reg[d].trusted

\* A device the stack trusts is trusted, or will be by the callback of its connection, which
\* may not have come yet for one that only the configuration has named; and no callback
\* brings back one that is not.
Agree(d) ==
    /\ reg[d].trusted => d \in stackTrust
    /\ d \in stackTrust =>
           \/ reg[d].trusted
           \/ ~reg[d].removed /\ (Announced(d) \/ (d \in Configured /\ epoch[d] = 0))
    /\ d \notin stackTrust => reg[d].removed \/ ~Announced(d)

\* While the user decides: what the command of the device has done so far.
Running(p, kind, step, d) == At(p, kind, step) /\ command[p].ski = d
Underway(p, d) ==
    /\ Running(p, "register", 1, d) \/ Running(p, "unregister", 1, d) => Agree(d)
    /\ Running(p, "register", 2, d) => d \in stackTrust
    /\ Running(p, "unregister", 2, d) \/ Running(p, "unregister", 3, d) => d \notin stackTrust
    /\ Running(p, "reconnect", 1, d) \/ Running(p, "reconnect", 2, d) =>
           reg[d].trusted /\ d \in stackTrust
    /\ Running(p, "reconnect", 3, d) => reg[d].trusted /\ d \notin stackTrust
UserTrust(d) ==
    /\ \A i \in DOMAIN pending[d] : pending[d][i] \in {"connected", "disconnected"}
    /\ (\A p \in Client : ~Busy(p, d)) => Agree(d)
    /\ \A p \in Client : Underway(p, d)

\* While the peer decides: the latest callback of some kinds that waits, if there is one.
Grants == {"connected", "auto_trusted"}
Denials == {"auto_trust_failed", "trust_removed"}
Lowering == {"disconnected"} \cup Denials
Nowhere(d, kinds) == \A i \in DOMAIN pending[d] : pending[d][i] \notin kinds
Latest(d, i, kinds) ==
    /\ i \in DOMAIN pending[d] /\ pending[d][i] \in kinds
    /\ \A j \in DOMAIN pending[d] : i < j => pending[d][j] \notin kinds

Verdict(d) ==
    /\ \A i : Latest(d, i, Grants \cup Denials) => (pending[d][i] \in Grants <=> d \in stackTrust)
    /\ Nowhere(d, Grants \cup Denials) =>
           (reg[d].trusted <=> d \in stackTrust) \/ (d \in Configured /\ epoch[d] = 0)
    /\ pending[d] = <<>> => callback[d] = 1
    /\ pending[d] # <<>> /\ pending[d][1] = "trust_removed" /\ callback[d] = 2 => ~reg[d].trusted
LinkComes(d) ==
    d \in link =>
        \/ \E i : Latest(d, i, {"connected"} \cup Lowering) /\ pending[d][i] = "connected"
        \/ reg[d].health = "connected" /\ Nowhere(d, Lowering)
PeerTrusts(d) == ~reg[d].removed /\ Verdict(d) /\ LinkComes(d)

MasterInv ==
    /\ master \in {"user", "peer"} /\ LinkedTrusted /\ OneCommand
    /\ master = "user" => \A d \in SKI : UserTrust(d)
    /\ master = "peer" => (\A p \in Client : command[p] = Idle) /\ \A d \in SKI : PeerTrusts(d)

\* A step that is not about trust in the device.
TrustSame(d) ==
    /\ reg'[d].removed = reg[d].removed /\ reg'[d].health = reg[d].health
    /\ reg'[d].trusted = reg[d].trusted
StackSame(d) ==
    /\ pending'[d] = pending[d] /\ epoch'[d] = epoch[d] /\ callback'[d] = callback[d]
    /\ (d \in stackTrust' <=> d \in stackTrust) /\ (d \in link' <=> d \in link)
CommandsSame(d) ==
    \A p \in Client :
        /\ Busy(p, d)' <=> Busy(p, d)
        /\ \A kind \in {"register", "unregister", "reconnect"}, n \in 1 .. 3 :
               Running(p, kind, n, d)' <=> Running(p, kind, n, d)

LEMMA AgreeSame ==
  ASSUME NEW d \in SKI, TrustSame(d), StackSame(d)
  PROVE  Agree(d)' <=> Agree(d)
  BY DEF TrustSame, StackSame, Agree, Announced

LEMMA UserSame ==
  ASSUME NEW d \in SKI, TrustSame(d), StackSame(d), CommandsSame(d), UserTrust(d)
  PROVE  UserTrust(d)'
  <1>1. Agree(d)' <=> Agree(d)
    BY AgreeSame
  <1>2. ASSUME NEW p \in Client PROVE Underway(p, d)'
    <2>1. \A kind \in {"register", "unregister", "reconnect"}, n \in 1 .. 3 :
              Running(p, kind, n, d)' <=> Running(p, kind, n, d)
      BY DEF CommandsSame
    <2>2. /\ Running(p, "register", 1, d)' <=> Running(p, "register", 1, d)
          /\ Running(p, "register", 2, d)' <=> Running(p, "register", 2, d)
          /\ Running(p, "unregister", 1, d)' <=> Running(p, "unregister", 1, d)
          /\ Running(p, "unregister", 2, d)' <=> Running(p, "unregister", 2, d)
          /\ Running(p, "unregister", 3, d)' <=> Running(p, "unregister", 3, d)
          /\ Running(p, "reconnect", 1, d)' <=> Running(p, "reconnect", 1, d)
          /\ Running(p, "reconnect", 2, d)' <=> Running(p, "reconnect", 2, d)
          /\ Running(p, "reconnect", 3, d)' <=> Running(p, "reconnect", 3, d)
      BY <2>1
    <2>3. Underway(p, d)
      BY DEF UserTrust
    <2> QED
      BY <1>1, <2>2, <2>3 DEF Underway, TrustSame, StackSame
  <1>3. (\A p \in Client : ~Busy(p, d)') => Agree(d)'
    BY <1>1 DEF CommandsSame, UserTrust
  <1> QED
    BY <1>2, <1>3 DEF UserTrust, StackSame

LEMMA PeerSame ==
  ASSUME NEW d \in SKI, TrustSame(d), StackSame(d), PeerTrusts(d)
  PROVE  PeerTrusts(d)'
  BY DEF TrustSame, StackSame, PeerTrusts, Verdict, LinkComes, Latest, Nowhere

\* What the methods that record neither trust nor connections leave alone.
LEMMA TrustLeft ==
  ASSUME NEW r, RowOK(r)
  PROVE  /\ \A s \in {AddDevice(r), ClearEntities(r)} :
                s.removed = r.removed /\ s.health = r.health /\ s.trusted = r.trusted
         /\ \A entity : \A s \in {UpsertObservation(r, entity), RemoveEntityObservation(r, entity)} :
                s.removed = r.removed /\ s.health = r.health /\ s.trusted = r.trusted
         /\ \A c, x : \A s \in {RecordCapabilityRead(r, c, x), RecordCapabilityMissingEntity(r, c, x)} :
                s.removed = r.removed /\ s.health = r.health /\ s.trusted = r.trusted
         /\ \A c, source, x : LET s == RecordCapabilitySourceSupport(r, c, source, x)
                IN  s.removed = r.removed /\ s.health = r.health /\ s.trusted = r.trusted
  <1>1. r \in Row
    BY DEF RowOK
  <1>2. /\ \A s \in {AddDevice(r), ClearEntities(r)} :
                s.removed = r.removed /\ s.health = r.health /\ s.trusted = r.trusted
        /\ \A entity : \A s \in {UpsertObservation(r, entity), RemoveEntityObservation(r, entity)} :
                s.removed = r.removed /\ s.health = r.health /\ s.trusted = r.trusted
    BY <1>1 DEF Row, AddDevice, ClearEntities, UpsertObservation, RemoveEntityObservation
  <1>3. \A c, x : \A s \in {RecordCapabilityRead(r, c, x), RecordCapabilityMissingEntity(r, c, x)} :
                s.removed = r.removed /\ s.health = r.health /\ s.trusted = r.trusted
    BY <1>1 DEF Row, RecordCapabilityRead, RecordCapabilityMissingEntity, WithEntry
  <1>4. ASSUME NEW c, NEW source, NEW x
        PROVE  LET s == RecordCapabilitySourceSupport(r, c, source, x)
               IN  s.removed = r.removed /\ s.health = r.health /\ s.trusted = r.trusted
    BY <1>1 DEF Row, RecordCapabilitySourceSupport, WithEntry
  <1> QED
    BY <1>2, <1>3, <1>4

LEMMA OthersSame ==
  ASSUME RegInv, NEW d \in SKI,
         \/ SupportBegin(d) \/ SupportCatalog(d) \/ SupportEnd(d) \/ DataBegin(d) \/ DataEnd(d)
         \/ ReadBegin(d) \/ ReadEnd(d)
  PROVE  UNCHANGED <<stackVars, callback, command>> /\ \A e \in SKI : TrustSame(e)
  <1>1. RowOK(reg[d])
    BY DEF RegInv
  <1>2. UNCHANGED <<stackVars, callback, command>>
    BY DEF SupportBegin, SupportCatalog, SupportEnd, DataBegin, DataEnd, ReadBegin, ReadEnd, UseCaseBegin
  <1>3. \/ UNCHANGED reg
        \/ \E s : Update(d, s) /\ s.removed = reg[d].removed /\ s.health = reg[d].health
                               /\ s.trusted = reg[d].trusted
    <2>1. CASE SupportBegin(d) \/ DataBegin(d) \/ ReadBegin(d)
      BY <2>1 DEF SupportBegin, DataBegin, ReadBegin, UseCaseBegin
    <2>2. CASE SupportCatalog(d)
      BY <1>1, <2>2, TrustLeft DEF SupportCatalog
    <2>3. CASE SupportEnd(d)
      BY <1>1, <2>3, TrustLeft DEF SupportEnd
    <2>4. CASE DataEnd(d)
      BY <1>1, <2>4, TrustLeft DEF DataEnd
    <2>5. CASE ReadEnd(d)
      BY <1>1, <2>5, TrustLeft DEF ReadEnd
    <2> QED
      BY <2>1, <2>2, <2>3, <2>4, <2>5
  <1>4. \A e \in SKI : TrustSame(e)
    BY <1>3 DEF TrustSame, Update, RegInv
  <1> QED
    BY <1>2, <1>4

\* What a delivery and the end of a callback do to the callbacks that wait.
LEMMA Delivered ==
  ASSUME RegInv, NEW d \in SKI, NEW callbacks \in Seq(Callback), Deliver(d, callbacks)
  PROVE  /\ \A e \in SKI \ {d} : pending'[e] = pending[e]
         /\ pending'[d] \in Seq(Callback) /\ Len(pending[d]) \in Nat /\ Len(callbacks) \in Nat
         /\ DOMAIN pending[d] = 1 .. Len(pending[d])
         /\ DOMAIN pending'[d] = 1 .. Len(pending[d]) + Len(callbacks)
         /\ \A i \in 1 .. Len(pending[d]) : pending'[d][i] = pending[d][i]
         /\ \A i \in 1 .. Len(callbacks) : pending'[d][Len(pending[d]) + i] = callbacks[i]
         /\ callbacks = <<>> => pending'[d] = pending[d]
  <1> DEFINE old == pending[d]
             new == old \o callbacks
  <1>1. old \in Seq(Callback) /\ Len(old) \in Nat /\ Len(callbacks) \in Nat
    BY DEF RegInv
  <1>2. pending'[d] = new /\ \A e \in SKI \ {d} : pending'[e] = pending[e]
    BY DEF RegInv, Deliver
  <1>3. /\ new \in Seq(Callback) /\ Len(new) = Len(old) + Len(callbacks)
        /\ \A i \in 1 .. Len(old) + Len(callbacks) :
               new[i] = IF i <= Len(old) THEN old[i] ELSE callbacks[i - Len(old)]
    BY <1>1, ConcatProperties
  <1>4. callbacks = <<>> => new = old
    BY <1>1, ConcatEmptySeq
  <1> HIDE DEF old, new
  <1>5. \A i \in 1 .. Len(old) : new[i] = old[i]
    BY <1>1, <1>3
  <1>6. \A i \in 1 .. Len(callbacks) : new[Len(old) + i] = callbacks[i]
    <2> SUFFICES ASSUME NEW i \in 1 .. Len(callbacks) PROVE new[Len(old) + i] = callbacks[i]
      OBVIOUS
    <2>1. Len(old) + i \in 1 .. Len(old) + Len(callbacks) /\ ~(Len(old) + i <= Len(old))
          /\ (Len(old) + i) - Len(old) = i
      BY <1>1
    <2> QED
      BY <1>3, <2>1
  <1>7. DOMAIN old = 1 .. Len(old) /\ DOMAIN new = 1 .. Len(old) + Len(callbacks)
    BY <1>1, <1>3
  <1> QED
    BY <1>1, <1>2, <1>3, <1>4, <1>5, <1>6, <1>7 DEF old

LEMMA DeliveredOne ==
  ASSUME RegInv, NEW d \in SKI, NEW c \in Callback, Deliver(d, <<c>>)
  PROVE  /\ \A e \in SKI \ {d} : pending'[e] = pending[e]
         /\ pending'[d] \in Seq(Callback) /\ Len(pending[d]) \in Nat
         /\ DOMAIN pending[d] = 1 .. Len(pending[d])
         /\ DOMAIN pending'[d] = 1 .. Len(pending[d]) + 1
         /\ \A i \in 1 .. Len(pending[d]) : pending'[d][i] = pending[d][i]
         /\ pending'[d][Len(pending[d]) + 1] = c
  <1>1. <<c>> \in Seq(Callback) /\ Len(<<c>>) = 1 /\ <<c>>[1] = c
    BY SMT
  <1> DEFINE s == <<c>>
  <1>2. s \in Seq(Callback) /\ Len(s) = 1 /\ s[1] = c /\ Deliver(d, s) /\ 1 \in 1 .. Len(s)
    BY <1>1
  <1> HIDE DEF s
  <1>3. /\ DOMAIN pending'[d] = 1 .. Len(pending[d]) + Len(s)
        /\ \A i \in 1 .. Len(s) : pending'[d][Len(pending[d]) + i] = s[i]
    BY <1>2, Delivered
  <1>4. /\ \A e \in SKI \ {d} : pending'[e] = pending[e]
        /\ pending'[d] \in Seq(Callback) /\ Len(pending[d]) \in Nat
        /\ DOMAIN pending[d] = 1 .. Len(pending[d])
        /\ \A i \in 1 .. Len(pending[d]) : pending'[d][i] = pending[d][i]
    BY <1>2, Delivered
  <1> QED
    BY <1>2, <1>3, <1>4

LEMMA Finished ==
  ASSUME RegInv, NEW d \in SKI, pending[d] # <<>>
  PROVE  /\ Head(pending[d]) = pending[d][1] /\ Len(pending[d]) \in Nat \ {0}
         /\ DOMAIN pending[d] = 1 .. Len(pending[d])
         /\ DOMAIN Tail(pending[d]) = 1 .. Len(pending[d]) - 1
         /\ \A i \in 1 .. Len(pending[d]) - 1 : Tail(pending[d])[i] = pending[d][i + 1]
         /\ pending[d][1] \in Callback
  <1>1. pending[d] \in Seq(Callback)
    BY DEF RegInv
  <1>2. /\ Tail(pending[d]) \in Seq(Callback) /\ Len(Tail(pending[d])) = Len(pending[d]) - 1
        /\ \A i \in 1 .. Len(Tail(pending[d])) : Tail(pending[d])[i] = pending[d][i + 1]
    BY <1>1, HeadTailProperties
  <1>3. Len(pending[d]) \in Nat \ {0} /\ Head(pending[d]) = pending[d][1] /\ pending[d][1] \in Callback
    BY <1>1
  <1> QED
    BY <1>1, <1>2, <1>3

\* What a callback does to the row, and to the callbacks that wait.
LEMMA CallbackEffect ==
  ASSUME RegInv, LinkedTrusted, NEW d \in SKI, CallbackStep(d)
  PROVE  /\ pending[d] # <<>> /\ UNCHANGED <<stackTrust, link, epoch, command>>
         /\ \A e \in SKI \ {d} : /\ reg'[e] = reg[e] /\ pending'[e] = pending[e]
                                 /\ callback'[e] = callback[e]
         /\ \/ pending'[d] = pending[d] /\ callback'[d] = 2
               /\ (pending[d][1] \notin {"auto_trusted", "auto_trust_failed"} => callback[d] = 1)
            \/ pending'[d] = Tail(pending[d]) /\ callback'[d] = 1
               /\ (pending[d][1] \notin {"auto_trusted", "auto_trust_failed"} => callback[d] = 2)
         /\ reg'[d].removed <=> (reg[d].removed /\ pending[d][1] # "auto_trusted")
         /\ pending[d][1] = "connected" /\ callback[d] = 2 =>
               (reg'[d].trusted <=> reg[d].trusted \/ ~reg[d].removed)
         /\ pending[d][1] = "auto_trusted" => reg'[d].trusted
         /\ pending[d][1] = "auto_trust_failed" \/ (pending[d][1] = "trust_removed" /\ callback[d] = 1) =>
               ~reg'[d].trusted
         /\ \/ pending[d][1] = "connected" /\ callback[d] = 1
            \/ pending[d][1] = "disconnected"
            \/ pending[d][1] = "trust_removed" /\ callback[d] = 2
            => (reg'[d].trusted <=> reg[d].trusted)
         /\ reg'[d].health = "connected" =>
               \/ reg[d].health = "connected"
               \/ pending[d][1] = "connected" /\ reg'[d].trusted
         /\ ~reg[d].removed /\ pending[d][1] = "connected" /\ callback[d] = 2
               => reg'[d].health = "connected"
         /\ reg[d].health = "connected" /\ pending[d][1] \in {"connected", "auto_trusted"}
               => reg'[d].health = "connected"
         /\ reg'[d].health = "connected" => reg'[d].trusted
  <1> DEFINE kind == pending[d][1]
             n == callback[d]
             r == reg[d]
  <1>1. /\ pending[d] # <<>> /\ Head(pending[d]) = kind /\ kind \in Callback
        /\ UNCHANGED <<stackTrust, link, epoch, command>>
    BY Finished DEF CallbackStep
  <1>2. n \in {1, 2} /\ r \in Row /\ RowOK(r) /\ (r.health = "connected" => r.trusted)
    BY DEF RegInv, LinkedTrusted
  <1>3. reg' = [reg EXCEPT ![d] = CASE kind = "connected" /\ n = 1 -> AddDevice(r)
                          [] kind = "connected" /\ n = 2 -> MarkConnected(r)
                          [] kind = "disconnected" /\ n = 1 -> MarkDisconnected(r)
                          [] kind = "auto_trusted" -> MarkTrusted(r)
                          [] kind = "auto_trust_failed" -> MarkUntrusted(r)
                          [] kind = "trust_removed" /\ n = 1 -> MarkUntrusted(r)
                          [] OTHER -> ClearEntities(r)]
    BY <1>1 DEF CallbackStep, Update
  <1>4. /\ \A e \in SKI \ {d} : /\ reg'[e] = reg[e] /\ pending'[e] = pending[e]
                                /\ callback'[e] = callback[e]
        /\ \/ pending'[d] = pending[d] /\ callback'[d] = 2
              /\ (kind \notin {"auto_trusted", "auto_trust_failed"} => n = 1)
           \/ pending'[d] = Tail(pending[d]) /\ callback'[d] = 1
              /\ (kind \notin {"auto_trusted", "auto_trust_failed"} => n = 2)
    BY <1>1, <1>2 DEF CallbackStep, Update, RegInv
  <1>5. reg'[d] = CASE kind = "connected" /\ n = 1 -> AddDevice(r)
                    [] kind = "connected" /\ n = 2 -> MarkConnected(r)
                    [] kind = "disconnected" /\ n = 1 -> MarkDisconnected(r)
                    [] kind = "auto_trusted" -> MarkTrusted(r)
                    [] kind = "auto_trust_failed" -> MarkUntrusted(r)
                    [] kind = "trust_removed" /\ n = 1 -> MarkUntrusted(r)
                    [] OTHER -> ClearEntities(r)
    BY <1>3 DEF RegInv
  <1> HIDE DEF kind, n, r
  <1>6. r.trusted \in BOOLEAN /\ r.removed \in BOOLEAN /\ (r.removed => ~r.trusted)
    BY <1>2 DEF Row, RowOK, RemoveDevice, Blank
  <1>7. /\ AddDevice(r).removed = r.removed /\ AddDevice(r).trusted = r.trusted /\ AddDevice(r).health = r.health
        /\ ClearEntities(r).removed = r.removed /\ ClearEntities(r).trusted = r.trusted
        /\ ClearEntities(r).health = r.health
    BY <1>2, TrustLeft
  <1>8. LET s == MarkConnected(r)
        IN  /\ s.removed = r.removed /\ (s.trusted <=> r.trusted \/ ~r.removed)
            /\ s.health = IF r.removed THEN r.health ELSE "connected"
    BY <1>2, <1>6 DEF MarkConnected, Connected, Row
  <1>9. LET s == MarkDisconnected(r)
        IN  /\ s.removed = r.removed /\ s.trusted = r.trusted
            /\ s.health = "connected" => r.removed /\ r.health = "connected"
    BY <1>2 DEF MarkDisconnected, Row
  <1>10. LET s == MarkTrusted(r)
         IN  ~s.removed /\ s.trusted /\ (s.health = "connected" <=> r.health = "connected")
             /\ s.removed = FALSE /\ s.trusted = TRUE
    BY <1>2 DEF MarkTrusted, Row
  <1>11. LET s == MarkUntrusted(r)
         IN  /\ s.removed = r.removed /\ ~s.trusted
             /\ s.health = "connected" => r.removed /\ r.health = "connected"
    BY <1>2, <1>6 DEF MarkUntrusted, Row
  <1>12. r.removed => r.health # "connected"
    BY <1>2, <1>6
  <1>13. /\ reg'[d].removed <=> (r.removed /\ kind # "auto_trusted")
         /\ kind = "connected" /\ n = 2 => (reg'[d].trusted <=> r.trusted \/ ~r.removed)
         /\ kind = "auto_trusted" => reg'[d].trusted
         /\ kind = "auto_trust_failed" \/ (kind = "trust_removed" /\ n = 1) => ~reg'[d].trusted
         /\ \/ kind = "connected" /\ n = 1
            \/ kind = "disconnected"
            \/ kind = "trust_removed" /\ n = 2
            => (reg'[d].trusted <=> r.trusted)
         /\ reg'[d].health = "connected" => r.health = "connected" \/ (kind = "connected" /\ reg'[d].trusted)
         /\ ~r.removed /\ kind = "connected" /\ n = 2 => reg'[d].health = "connected"
         /\ r.health = "connected" /\ kind \in {"connected", "auto_trusted"} => reg'[d].health = "connected"
         /\ reg'[d].health = "connected" => reg'[d].trusted
    <2>1. CASE kind = "connected" /\ n = 1
      BY <1>2, <1>5, <1>6, <1>7, <2>1
    <2>2. CASE kind = "connected" /\ n = 2
      BY <1>2, <1>5, <1>6, <1>8, <1>12, <2>2
    <2>3. CASE kind = "disconnected" /\ n = 1
      BY <1>2, <1>5, <1>6, <1>9, <1>12, <2>3
    <2>4. CASE kind = "auto_trusted"
      BY <1>2, <1>5, <1>6, <1>10, <1>12, <2>4
    <2>5. CASE kind = "auto_trust_failed" \/ (kind = "trust_removed" /\ n = 1)
      BY <1>2, <1>5, <1>6, <1>11, <1>12, <2>5
    <2>6. CASE kind \in {"disconnected", "trust_removed"} /\ n = 2
      BY <1>2, <1>5, <1>6, <1>7, <1>12, <2>6
    <2> QED
      BY <1>1, <1>2, <2>1, <2>2, <2>3, <2>4, <2>5, <2>6 DEF Callback
  <1> QED
    BY <1>1, <1>4, <1>13 DEF kind, n, r

\* While the user decides.
LEMMA UserLinkUp ==
  ASSUME RegInv, NEW d \in SKI, LinkUp(d), UserTrust(d)
  PROVE  UserTrust(d)'
  <1>1. "connected" \in Callback
    BY DEF Callback
  <1>2. Deliver(d, <<"connected">>)
    BY DEF LinkUp
  <1> DEFINE n == Len(pending[d])
  <1>3. /\ n \in Nat /\ pending'[d] \in Seq(Callback) /\ DOMAIN pending[d] = 1 .. n /\ DOMAIN pending'[d] = 1 .. n + 1
        /\ \A i \in 1 .. n : pending'[d][i] = pending[d][i]
        /\ pending'[d][n + 1] = "connected"
    BY <1>1, <1>2, DeliveredOne
  <1> HIDE DEF n
  <1>4. \A i \in DOMAIN pending'[d] : pending'[d][i] \in {"connected", "disconnected"}
    BY <1>3 DEF UserTrust
  <1>5. Announced(d)'
    <2>1. Len(pending'[d]) = n + 1 /\ n + 1 \in 1 .. n + 1
      BY <1>3
    <2> QED
      BY <1>3, <2>1 DEF Announced
  <1>6. Agree(d) => Agree(d)'
    BY <1>5 DEF LinkUp, Agree
  <1>7. UNCHANGED <<reg, stackTrust, command>>
    BY DEF LinkUp
  <1> QED
    BY <1>4, <1>6, <1>7 DEF UserTrust, Underway, Running, At, Busy

LEMMA UserDisconnected ==
  ASSUME RegInv, NEW d \in SKI, UserTrust(d),
         Deliver(d, <<"disconnected">>) \/ Deliver(d, <<>>)
  PROVE  /\ \A i \in DOMAIN pending'[d] : pending'[d][i] \in {"connected", "disconnected"}
         /\ Announced(d)' <=> Announced(d)
  <1>1. CASE Deliver(d, <<"disconnected">>)
    <2>1. "disconnected" \in Callback
      BY DEF Callback
    <2> DEFINE n == Len(pending[d])
    <2>2. /\ n \in Nat /\ pending'[d] \in Seq(Callback) /\ DOMAIN pending[d] = 1 .. n /\ DOMAIN pending'[d] = 1 .. n + 1
          /\ \A i \in 1 .. n : pending'[d][i] = pending[d][i]
          /\ pending'[d][n + 1] = "disconnected"
      BY <1>1, <2>1, DeliveredOne
    <2>3. Len(pending'[d]) = n + 1
      BY <2>2
    <2>4. Announced(d)' <=> \E i \in 1 .. n + 1 : pending'[d][i] = "connected"
      BY <2>3 DEF Announced
    <2>5. Announced(d) <=> \E i \in 1 .. n : pending[d][i] = "connected"
      BY DEF Announced
    <2> HIDE DEF n
    <2> QED
      BY <2>2, <2>4, <2>5 DEF UserTrust
  <1>2. CASE Deliver(d, <<>>)
    <2>1. pending'[d] = pending[d]
      BY <1>2, Deliverable, Delivered
    <2> QED
      BY <2>1 DEF UserTrust, Announced
  <1> QED
    BY <1>1, <1>2

LEMMA UserLinkDown ==
  ASSUME RegInv, NEW d \in SKI, LinkDown(d), UserTrust(d)
  PROVE  UserTrust(d)'
  <1>1. /\ \A i \in DOMAIN pending'[d] : pending'[d][i] \in {"connected", "disconnected"}
        /\ Announced(d)' <=> Announced(d)
    BY UserDisconnected DEF LinkDown
  <1>2. UNCHANGED <<reg, stackTrust, epoch, command>>
    BY DEF LinkDown
  <1>3. Agree(d)' <=> Agree(d)
    BY <1>1, <1>2 DEF Agree
  <1> QED
    BY <1>1, <1>2, <1>3 DEF UserTrust, Underway, Running, At, Busy

LEMMA UserCallback ==
  ASSUME RegInv, LinkedTrusted, NEW d \in SKI, CallbackStep(d), UserTrust(d)
  PROVE  UserTrust(d)'
  <1> DEFINE n == Len(pending[d])
             kind == pending[d][1]
  <1>1. /\ pending[d] # <<>> /\ UNCHANGED <<stackTrust, link, epoch, command>>
        /\ \/ pending'[d] = pending[d]
              /\ (kind \notin {"auto_trusted", "auto_trust_failed"} => callback[d] = 1)
           \/ pending'[d] = Tail(pending[d])
              /\ (kind \notin {"auto_trusted", "auto_trust_failed"} => callback[d] = 2)
        /\ reg'[d].removed <=> (reg[d].removed /\ kind # "auto_trusted")
        /\ kind = "connected" /\ callback[d] = 2 => (reg'[d].trusted <=> reg[d].trusted \/ ~reg[d].removed)
        /\ kind = "disconnected" \/ (kind = "connected" /\ callback[d] = 1) =>
               (reg'[d].trusted <=> reg[d].trusted)
    BY CallbackEffect
  <1>2. /\ n \in Nat \ {0} /\ DOMAIN pending[d] = 1 .. n /\ DOMAIN Tail(pending[d]) = 1 .. n - 1
        /\ \A i \in 1 .. n - 1 : Tail(pending[d])[i] = pending[d][i + 1]
    BY <1>1, Finished
  <1>3. callback[d] \in {1, 2}
    BY DEF RegInv
  <1>4. kind \in {"connected", "disconnected"}
    BY <1>2 DEF UserTrust
  <1>5. Announced(d) <=> \E i \in 1 .. n : pending[d][i] = "connected"
    BY DEF Announced
  <1>6. Announced(d)' <=> \E i \in DOMAIN pending'[d] : pending'[d][i] = "connected"
    <2>1. pending'[d] \in Seq(Callback)
      BY CallbackStepStep DEF RegInv
    <2>2. DOMAIN pending'[d] = 1 .. Len(pending'[d])
      BY <2>1
    <2> QED
      BY <2>2 DEF Announced
  <1> HIDE DEF n, kind
  <1>7. \A i \in DOMAIN pending'[d] : \E j \in 1 .. n : pending'[d][i] = pending[d][j]
    <2>1. CASE pending'[d] = pending[d]
      BY <1>2, <2>1
    <2>2. CASE pending'[d] = Tail(pending[d])
      <3>1. \A i \in 1 .. n - 1 : i + 1 \in 1 .. n
        BY <1>2
      <3> QED
        BY <1>2, <2>2, <3>1
    <2> QED
      BY <1>1, <2>1, <2>2
  <1>8. /\ \A i \in DOMAIN pending'[d] : pending'[d][i] \in {"connected", "disconnected"}
        /\ Announced(d)' => Announced(d)
    BY <1>2, <1>5, <1>6, <1>7 DEF UserTrust
  <1>9. Announced(d) => Announced(d)' \/ (kind = "connected" /\ callback[d] = 2)
    <2> SUFFICES ASSUME NEW i \in 1 .. n, pending[d][i] = "connected", pending'[d] = Tail(pending[d]),
                        kind # "connected"
                 PROVE  Announced(d)'
      BY <1>1, <1>2, <1>4, <1>5, <1>6
    <2>1. i # 1
      BY DEF kind
    <2>2. i - 1 \in 1 .. n - 1 /\ (i - 1) + 1 = i
      BY <1>2, <2>1
    <2> QED
      BY <1>2, <1>6, <2>2
  <1>10. kind = "connected" => Announced(d)
    BY <1>2, <1>5 DEF kind
  <1>11. /\ reg'[d].removed <=> reg[d].removed
         /\ reg[d].trusted => reg'[d].trusted
         /\ reg'[d].trusted => reg[d].trusted \/ (kind = "connected" /\ ~reg[d].removed)
         /\ kind = "connected" /\ callback[d] = 2 /\ ~reg[d].removed => reg'[d].trusted
    BY <1>1, <1>3, <1>4
  <1>12. Agree(d) => Agree(d)'
    BY <1>1, <1>8, <1>9, <1>10, <1>11 DEF Agree
  <1> QED
    BY <1>1, <1>8, <1>11, <1>12 DEF UserTrust, Underway, Running, At, Busy

\* Of a command: the device it is at, and nothing of another device.
LEMMA CommandsElsewhere ==
  ASSUME RegInv, NEW p \in Client, NEW d \in SKI, NEW c \in Command,
         command' = [command EXCEPT ![p] = c], c # Idle => c.ski = d,
         command[p] # Idle => command[p].ski = d
  PROVE  \A e \in SKI \ {d} : CommandsSame(e)
  <1> SUFFICES ASSUME NEW e \in SKI \ {d}, NEW q \in Client,
                      NEW kind \in {"register", "unregister", "reconnect"}, NEW n \in 1 .. 3
               PROVE  (Busy(q, e)' <=> Busy(q, e)) /\ (Running(q, kind, n, e)' <=> Running(q, kind, n, e))
    BY DEF CommandsSame
  <1>1. CASE q # p
    <2>1. command'[q] = command[q]
      BY <1>1 DEF RegInv
    <2> QED
      BY <2>1 DEF Busy, Running, At
  <1>2. CASE q = p
    <2>1. command'[p] = c
      BY DEF RegInv
    <2>2. \A x \in Command : Idle.kind # kind
      BY DEF Idle
    <2> QED
      BY <1>2, <2>1, <2>2 DEF Busy, Running, At, Idle
  <1> QED
    BY <1>1, <1>2

LEMMA UserBegin ==
  ASSUME RegInv, LinkedTrusted, \A d \in SKI : UserTrust(d), NEW p \in Client, CommandBegin(p), OneCommand'
  PROVE  \A d \in SKI : UserTrust(d)'
  <1>1. PICK kind \in Operation, d \in SKI :
           /\ kind = "reconnect" => reg[d].health = "connected"
           /\ command' = [command EXCEPT ![p] = [kind |-> kind, step |-> 1, ski |-> d]]
    BY DEF CommandBegin
  <1> DEFINE c == [kind |-> kind, step |-> 1, ski |-> d]
  <1>2. command[p] = Idle /\ UNCHANGED <<reg, stackVars, callback>>
    BY DEF CommandBegin
  <1>3. c \in Command /\ c # Idle /\ c.ski = d /\ c.kind = kind /\ c.step = 1
    BY OperationAssumption DEF Idle
  <1>4. command' = [command EXCEPT ![p] = c]
    BY <1>1
  <1> HIDE DEF c
  <1>5. command'[p] = c /\ \A q \in Client \ {p} : command'[q] = command[q]
    BY <1>4 DEF RegInv
  <1>6. \A e \in SKI \ {d} : UserTrust(e)'
    BY <1>2, <1>3, <1>4, CommandsElsewhere, UserSame DEF TrustSame, StackSame
  <1>7. \A q \in Client : ~Busy(q, d)
    BY <1>2, <1>3, <1>5 DEF OneCommand, Busy
  <1>8. Agree(d) /\ (Agree(d)' <=> Agree(d))
    BY <1>2, <1>7, AgreeSame DEF UserTrust, TrustSame, StackSame
  <1>9. Busy(p, d)' /\ \A q \in Client \ {p} : ~Busy(q, d)'
    BY <1>3, <1>5, <1>7 DEF Busy
  <1>10. Underway(p, d)'
    BY <1>1, <1>2, <1>3, <1>5, <1>8 DEF Underway, Running, At, Agree, LinkedTrusted
  <1>11. ASSUME NEW q \in Client \ {p} PROVE Underway(q, d)'
    BY <1>9, <1>11 DEF Underway, Running, At, Busy, Idle
  <1>12. UserTrust(d)'
    BY <1>2, <1>8, <1>9, <1>10, <1>11 DEF UserTrust
  <1> QED
    BY <1>6, <1>12

LEMMA UserCommand ==
  ASSUME RegInv, \A d \in SKI : UserTrust(d), OneCommand, NEW p \in Client, CommandStep(p)
  PROVE  \A d \in SKI : UserTrust(d)'
  <1>0. command[p] \in Command /\ command[p] # Idle /\ command[p].ski \in SKI /\ command[p].kind # "idle"
    BY DEF CommandStep, At, RegInv, Idle
  <1> PICK d \in SKI : d = command[p].ski
    BY <1>0
  <1> PICK kind, n, c : kind = command[p].kind /\ n = command[p].step /\ c = Advanced(command[p])
    OBVIOUS
  <1>1. /\ \/ kind = "register" /\ n \in {1, 2}
           \/ kind = "unregister" /\ n \in {1, 2, 3}
           \/ kind = "reconnect" /\ n \in {1, 2, 3}
        /\ kind = "register" /\ n = 1 => StackRegister(d) /\ UNCHANGED reg
        /\ kind = "register" /\ n = 2 => Update(d, MarkTrusted(reg[d])) /\ UNCHANGED stackVars
        /\ kind = "unregister" /\ n = 1 => StackUnregister(d) /\ UNCHANGED reg
        /\ kind = "unregister" /\ n = 2 => Update(d, MarkUntrusted(reg[d])) /\ UNCHANGED stackVars
        /\ kind = "unregister" /\ n = 3 => Update(d, RemoveDevice(reg[d])) /\ UNCHANGED stackVars
        /\ kind = "reconnect" /\ n = 1 => Update(d, ClearEntities(reg[d])) /\ UNCHANGED stackVars
        /\ kind = "reconnect" /\ n = 2 => StackUnregister(d) /\ UNCHANGED reg
        /\ kind = "reconnect" /\ n = 3 => StackRegister(d) /\ UNCHANGED reg
        /\ command' = [command EXCEPT ![p] = c]
        /\ UNCHANGED callback
    BY DEF CommandStep, At
  <1>2. command[p] \in Command /\ command[p] # Idle /\ d \in SKI /\ command[p].kind # "idle"
    BY <1>0
  <1>3. c \in Command
    BY <1>2, AdvancedType
  <1>4. \/ c = Idle /\ n = Steps(kind)
        \/ c # Idle /\ n # Steps(kind) /\ c.kind = kind /\ c.step = n + 1 /\ c.ski = d
    BY <1>2, <1>1 DEF Advanced, Idle
  <1>5. \A e \in SKI \ {d} : CommandsSame(e)
    BY <1>1, <1>2, <1>3, <1>4, CommandsElsewhere
  <1>6. command'[p] = c /\ \A q \in Client \ {p} : command'[q] = command[q]
    BY <1>1 DEF RegInv
  <1>7. Busy(p, d) /\ \A q \in Client \ {p} : ~Busy(q, d) /\ ~Busy(q, d)'
    BY <1>2, <1>6 DEF Busy, OneCommand
  <1>8. Underway(p, d)
    BY <1>2 DEF UserTrust
  <1>9. RowOK(reg[d]) /\ reg[d] \in Row
    BY <1>2 DEF RegInv, RowOK
  <1>10. \A e \in SKI \ {d} : TrustSame(e) /\ StackSame(e)
    <2>1. \A e \in SKI \ {d} : reg'[e] = reg[e]
      BY <1>1, <1>2 DEF Update, RegInv
    <2>2. \A e \in SKI \ {d} : pending'[e] = pending[e]
      BY <1>1, <1>2 DEF StackRegister, StackUnregister, Deliver, RegInv
    <2>3. \A e \in SKI \ {d} : /\ e \in stackTrust' <=> e \in stackTrust
                               /\ e \in link' <=> e \in link
      BY <1>1 DEF StackRegister, StackUnregister
    <2>4. UNCHANGED <<epoch, callback>>
      BY <1>1 DEF StackRegister, StackUnregister
    <2> QED
      BY <2>1, <2>2, <2>3, <2>4 DEF TrustSame, StackSame
  <1>11. \A i \in DOMAIN pending'[d] : pending'[d][i] \in {"connected", "disconnected"}
    <2>1. CASE StackUnregister(d)
      <3>1. Deliver(d, <<"disconnected">>) \/ Deliver(d, <<>>)
        BY <2>1 DEF StackUnregister
      <3> QED
        BY <1>2, <3>1, UserDisconnected
    <2>2. CASE UNCHANGED pending
      BY <1>2, <2>2 DEF UserTrust
    <2> QED
      BY <1>1, <2>1, <2>2 DEF StackRegister
  <1>12. /\ kind = "register" /\ n = 2 => reg'[d].trusted
         /\ kind = "unregister" /\ n = 3 => reg'[d].removed /\ ~reg'[d].trusted
         /\ kind = "reconnect" => (reg'[d].trusted <=> reg[d].trusted)
    <2>1. MarkTrusted(reg[d]).trusted
      BY <1>9 DEF MarkTrusted, Row
    <2>2. RemoveDevice(reg[d]).removed /\ ~RemoveDevice(reg[d]).trusted
      BY DEF RemoveDevice, Blank
    <2>3. ClearEntities(reg[d]).trusted = reg[d].trusted
      BY <1>9, TrustLeft
    <2>4. \A s : Update(d, s) => reg'[d] = s
      BY <1>2 DEF Update, RegInv
    <2> QED
      BY <1>1, <2>1, <2>2, <2>3, <2>4
  <1>13. /\ kind = "register" => d \in stackTrust'
         /\ kind = "unregister" => d \notin stackTrust'
         /\ kind = "reconnect" /\ n = 1 => d \in stackTrust'
         /\ kind = "reconnect" /\ n = 2 => d \notin stackTrust'
         /\ kind = "reconnect" /\ n = 3 => d \in stackTrust'
    BY <1>1, <1>8 DEF StackRegister, StackUnregister, Underway, Running, At
  <1>14. kind = "reconnect" => reg[d].trusted
    BY <1>1, <1>8 DEF Underway, Running, At
  <1>15. n = Steps(kind) => Agree(d)'
    BY <1>1, <1>12, <1>13, <1>14 DEF Steps, Agree
  <1>16. Underway(p, d)'
    <2>1. CASE c = Idle
      BY <1>6, <2>1 DEF Underway, Running, At, Idle
    <2>2. CASE c # Idle
      BY <1>1, <1>4, <1>6, <1>12, <1>13, <1>14, <2>2 DEF Underway, Running, At, Steps
    <2> QED
      BY <2>1, <2>2
  <1>17. ASSUME NEW q \in Client \ {p} PROVE Underway(q, d)'
    BY <1>7, <1>17 DEF Underway, Running, At, Busy, Idle
  <1>18. (\A q \in Client : ~Busy(q, d)') => Agree(d)'
    BY <1>4, <1>6, <1>15 DEF Busy
  <1>19. UserTrust(d)'
    BY <1>11, <1>16, <1>17, <1>18 DEF UserTrust
  <1> QED
    BY <1>2, <1>5, <1>10, <1>19, UserSame

\* While the peer decides.
LEMMA PeerLinkUp ==
  ASSUME RegInv, NEW d \in SKI, LinkUp(d), PeerTrusts(d)
  PROVE  PeerTrusts(d)'
  <1> PICK n : n = Len(pending[d])
    OBVIOUS
  <1>1. "connected" \in Callback /\ Deliver(d, <<"connected">>)
    BY DEF Callback, LinkUp
  <1>2. /\ n \in Nat /\ DOMAIN pending[d] = 1 .. n /\ DOMAIN pending'[d] = 1 .. n + 1
        /\ pending'[d] \in Seq(Callback)
        /\ \A i \in 1 .. n : pending'[d][i] = pending[d][i]
        /\ pending'[d][n + 1] = "connected"
    BY <1>1, DeliveredOne
  <1>3. n = 0 => pending[d] = <<>>
    <2>1. pending[d] \in Seq(Callback)
      BY DEF RegInv
    <2> QED
      BY <2>1, EmptySeq
  <1>4. pending'[d] # <<>>
    BY <1>2
  <1>5. d \in stackTrust /\ UNCHANGED <<reg, stackTrust, callback>> /\ d \in link'
    BY DEF LinkUp, RegInv
  <1>6. \A kinds : "connected" \in kinds =>
            /\ ~Nowhere(d, kinds)' /\ Latest(d, n + 1, kinds)'
            /\ \A i : Latest(d, i, kinds)' => i = n + 1
    <2> SUFFICES ASSUME NEW kinds, "connected" \in kinds
                 PROVE  /\ ~Nowhere(d, kinds)' /\ Latest(d, n + 1, kinds)'
                        /\ \A i : Latest(d, i, kinds)' => i = n + 1
      OBVIOUS
    <2>1. n + 1 \in 1 .. n + 1 /\ \A i \in 1 .. n + 1 : i # n + 1 => i < n + 1
      BY <1>2
    <2>2. \A j \in 1 .. n + 1 : ~(n + 1 < j)
      BY <1>2
    <2>3. ~Nowhere(d, kinds)'
      BY <1>2, <2>1 DEF Nowhere
    <2>4. Latest(d, n + 1, kinds)'
      <3>1. n + 1 \in DOMAIN pending'[d] /\ pending'[d][n + 1] \in kinds
        BY <1>2, <2>1
      <3>2. \A j \in DOMAIN pending'[d] : n + 1 < j => pending'[d][j] \notin kinds
        BY <1>2, <2>2
      <3> QED
        BY <3>1, <3>2 DEF Latest
    <2>5. \A i : Latest(d, i, kinds)' => i = n + 1
      BY <1>2, <2>1 DEF Latest
    <2> QED
      BY <2>3, <2>4, <2>5
  <1>7. pending'[d][1] = "trust_removed" /\ callback'[d] = 2 => ~reg'[d].trusted
    BY <1>2, <1>3, <1>5 DEF PeerTrusts, Verdict
  <1>8. Verdict(d)'
    BY <1>2, <1>4, <1>5, <1>6, <1>7 DEF Verdict, Grants
  <1>9. LinkComes(d)'
    BY <1>2, <1>6 DEF LinkComes
  <1> QED
    BY <1>5, <1>8, <1>9 DEF PeerTrusts

LEMMA PeerLinkDown ==
  ASSUME RegInv, NEW d \in SKI, LinkDown(d), PeerTrusts(d)
  PROVE  PeerTrusts(d)'
  <1> DEFINE n == Len(pending[d])
  <1>1. "disconnected" \in Callback /\ Deliver(d, <<"disconnected">>)
    BY DEF Callback, LinkDown
  <1>2. /\ n \in Nat /\ DOMAIN pending[d] = 1 .. n /\ DOMAIN pending'[d] = 1 .. n + 1
        /\ pending'[d] \in Seq(Callback)
        /\ \A i \in 1 .. n : pending'[d][i] = pending[d][i]
        /\ pending'[d][n + 1] = "disconnected"
    BY <1>1, DeliveredOne
  <1>3. n = 0 => pending[d] = <<>>
    BY <1>2 DEF RegInv
  <1>4. pending'[d] # <<>>
    BY <1>2
  <1> HIDE DEF n
  <1>5. UNCHANGED <<reg, stackTrust, epoch, callback>> /\ d \notin link'
    BY DEF LinkDown
  <1>6. \A kinds : "disconnected" \notin kinds =>
            /\ Nowhere(d, kinds)' => Nowhere(d, kinds)
            /\ \A i : Latest(d, i, kinds)' => Latest(d, i, kinds) /\ pending'[d][i] = pending[d][i]
    <2> SUFFICES ASSUME NEW kinds, "disconnected" \notin kinds
                 PROVE  /\ Nowhere(d, kinds)' => Nowhere(d, kinds)
                        /\ \A i : Latest(d, i, kinds)' => Latest(d, i, kinds) /\ pending'[d][i] = pending[d][i]
      OBVIOUS
    <2>1. \A i \in 1 .. n + 1 : i \in 1 .. n \/ i = n + 1
      BY <1>2
    <2>2. 1 .. n \subseteq 1 .. n + 1
      BY <1>2
    <2> QED
      BY <1>2, <2>1, <2>2 DEF Nowhere, Latest
  <1>7. pending'[d][1] = "trust_removed" /\ callback'[d] = 2 => ~reg'[d].trusted
    BY <1>2, <1>3, <1>5 DEF PeerTrusts, Verdict
  <1>8. Verdict(d)'
    <2>1. "disconnected" \notin Grants \cup Denials
      BY DEF Grants, Denials
    <2> QED
      BY <1>4, <1>5, <1>6, <1>7, <2>1 DEF PeerTrusts, Verdict
  <1>9. LinkComes(d)'
    BY <1>5 DEF LinkComes
  <1> QED
    BY <1>5, <1>8, <1>9 DEF PeerTrusts

\* The peer's answer is the latest callback.
LEMMA PeerDecision ==
  ASSUME RegInv, NEW d \in SKI, Revoke(d) \/ AutoTrust(d), PeerTrusts(d)
  PROVE  PeerTrusts(d)'
  <1>1. UNCHANGED <<reg, epoch, callback>> /\ d \notin link'
    BY DEF Revoke, AutoTrust, RegInv
  <1>a. PICK last \in Grants \cup Denials :
           /\ \E callbacks \in {<<last>>, <<"disconnected", last>>} : Deliver(d, callbacks)
           /\ last \in Grants <=> d \in stackTrust'
    <2>1. CASE Revoke(d)
      <3>1. "trust_removed" \in Grants \cup Denials /\ "trust_removed" \notin Grants /\ d \notin stackTrust'
        BY <2>1 DEF Revoke, Grants, Denials
      <3>2. \E callbacks \in {<<"trust_removed">>, <<"disconnected", "trust_removed">>} : Deliver(d, callbacks)
        BY <2>1 DEF Revoke
      <3> QED
        BY <3>1, <3>2
    <2>2. CASE AutoTrust(d)
      <3>1. \/ Deliver(d, <<"auto_trusted">>) /\ d \in stackTrust'
            \/ Deliver(d, <<"auto_trust_failed">>) /\ d \notin stackTrust'
        BY <2>2 DEF AutoTrust
      <3>2. /\ "auto_trusted" \in Grants /\ "auto_trust_failed" \in Denials /\ "auto_trust_failed" \notin Grants
        BY DEF Grants, Denials
      <3> QED
        BY <3>1, <3>2
    <2> QED
      BY <2>1, <2>2
  <1>2. PICK callbacks \in {<<last>>, <<"disconnected", last>>} : Deliver(d, callbacks)
    BY <1>a
  <1> DEFINE m == Len(callbacks)
             n == Len(pending[d])
  <1>3. /\ callbacks \in Seq(Callback) /\ m \in {1, 2} /\ callbacks[m] = last
    <2>1. last \in Callback /\ "disconnected" \in Callback
      BY DEF Callback, Grants, Denials
    <2>2. CASE callbacks = <<last>>
      BY <2>1, <2>2
    <2>3. CASE callbacks = <<"disconnected", last>>
      BY <2>1, <2>3
    <2> QED
      BY <1>2, <2>2, <2>3
  <1>4. /\ n \in Nat /\ DOMAIN pending[d] = 1 .. n /\ DOMAIN pending'[d] = 1 .. n + m
        /\ pending'[d] \in Seq(Callback)
        /\ \A i \in 1 .. n : pending'[d][i] = pending[d][i]
        /\ \A i \in 1 .. m : pending'[d][n + i] = callbacks[i]
    BY <1>2, <1>3, Delivered
  <1>5. n = 0 => pending[d] = <<>>
    BY <1>4 DEF RegInv
  <1> HIDE DEF n, m
  <1>6. m \in 1 .. m /\ n + m \in 1 .. n + m /\ pending'[d][n + m] = last /\ pending'[d] # <<>>
    <2>1. m \in 1 .. m /\ n + m \in 1 .. n + m
      BY <1>3, <1>4
    <2>2. pending'[d][n + m] = last
      BY <1>3, <1>4, <2>1
    <2>3. DOMAIN pending'[d] # {}
      BY <1>4, <2>1
    <2> QED
      BY <2>1, <2>2, <2>3
  <1>7. /\ ~Nowhere(d, Grants \cup Denials)'
        /\ \A i : Latest(d, i, Grants \cup Denials)' => i = n + m
    <2>1. \A i \in 1 .. n + m : i # n + m => i < n + m
      BY <1>3, <1>4
    <2> QED
      BY <1>4, <1>6, <2>1 DEF Nowhere, Latest
  <1>8. pending'[d][1] = "trust_removed" /\ callback'[d] = 2 => ~reg'[d].trusted
    <2>1. n > 0 => pending[d] # <<>> /\ pending'[d][1] = pending[d][1]
      BY <1>4
    <2> QED
      BY <1>1, <1>4, <1>5, <2>1 DEF PeerTrusts, Verdict
  <1>9. Verdict(d)'
    BY <1>a, <1>6, <1>7, <1>8 DEF Verdict
  <1>10. LinkComes(d)'
    BY <1>1 DEF LinkComes
  <1> QED
    BY <1>1, <1>9, <1>10 DEF PeerTrusts

LEMMA PeerCallback ==
  ASSUME RegInv, LinkedTrusted, NEW d \in SKI, CallbackStep(d), PeerTrusts(d)
  PROVE  PeerTrusts(d)'
  <1> DEFINE n == Len(pending[d])
             kind == pending[d][1]
  <1>1. /\ pending[d] # <<>> /\ UNCHANGED <<stackTrust, link, epoch, command>>
        /\ \/ pending'[d] = pending[d] /\ callback'[d] = 2
              /\ (kind \notin {"auto_trusted", "auto_trust_failed"} => callback[d] = 1)
           \/ pending'[d] = Tail(pending[d]) /\ callback'[d] = 1
              /\ (kind \notin {"auto_trusted", "auto_trust_failed"} => callback[d] = 2)
        /\ reg'[d].removed => reg[d].removed
        /\ kind = "connected" /\ callback[d] = 2 => (reg'[d].trusted <=> reg[d].trusted \/ ~reg[d].removed)
        /\ kind = "auto_trusted" => reg'[d].trusted
        /\ kind = "auto_trust_failed" \/ (kind = "trust_removed" /\ callback[d] = 1) => ~reg'[d].trusted
        /\ \/ kind = "connected" /\ callback[d] = 1
           \/ kind = "disconnected"
           \/ kind = "trust_removed" /\ callback[d] = 2
           => (reg'[d].trusted <=> reg[d].trusted)
        /\ ~reg[d].removed /\ kind = "connected" /\ callback[d] = 2 => reg'[d].health = "connected"
        /\ reg[d].health = "connected" /\ kind \in {"connected", "auto_trusted"} => reg'[d].health = "connected"
    BY CallbackEffect
  <1>2. /\ n \in Nat \ {0} /\ DOMAIN pending[d] = 1 .. n /\ DOMAIN Tail(pending[d]) = 1 .. n - 1
        /\ \A i \in 1 .. n - 1 : Tail(pending[d])[i] = pending[d][i + 1]
        /\ kind \in Callback
    BY <1>1, Finished
  <1> HIDE DEF n
  <1>3. ~reg[d].removed /\ ~reg'[d].removed
    BY <1>1 DEF PeerTrusts
  <1>4. 1 \in DOMAIN pending[d]
    BY <1>2
  <1>5. CASE pending'[d] = pending[d] /\ callback'[d] = 2
    <2>1. \A kinds, i : /\ Latest(d, i, kinds)' <=> Latest(d, i, kinds)
                        /\ Nowhere(d, kinds)' <=> Nowhere(d, kinds)
      BY <1>5 DEF Latest, Nowhere
    <2>2. Nowhere(d, Grants \cup Denials) => (reg'[d].trusted <=> reg[d].trusted)
      BY <1>1, <1>2, <1>4 DEF Nowhere, Grants, Denials, Callback
    <2>3. kind = "trust_removed" => ~reg'[d].trusted
      BY <1>1, <1>2, <1>5 DEF PeerTrusts, Verdict
    <2>4. Verdict(d)'
      BY <1>1, <1>5, <2>1, <2>2, <2>3 DEF PeerTrusts, Verdict
    <2>5. Nowhere(d, Lowering) /\ reg[d].health = "connected" => reg'[d].health = "connected"
      BY <1>1, <1>2, <1>4 DEF Nowhere, Lowering, Denials, Callback
    <2>6. LinkComes(d)'
      BY <1>1, <1>5, <2>1, <2>5 DEF PeerTrusts, LinkComes
    <2> QED
      BY <1>3, <2>4, <2>6 DEF PeerTrusts
  <1>6. CASE pending'[d] = Tail(pending[d]) /\ callback'[d] = 1
    <2>1. /\ DOMAIN pending'[d] = 1 .. n - 1
          /\ \A i \in 1 .. n - 1 : pending'[d][i] = pending[d][i + 1]
      BY <1>2, <1>6
    <2>2. \A kinds : Nowhere(d, kinds)' => \A i \in DOMAIN pending[d] : i # 1 => pending[d][i] \notin kinds
      <3> SUFFICES ASSUME NEW kinds, Nowhere(d, kinds)', NEW i \in 1 .. n, i # 1
                   PROVE  pending[d][i] \notin kinds
        BY <1>2
      <3>1. i - 1 \in 1 .. n - 1 /\ (i - 1) + 1 = i
        BY <1>2
      <3>2. i - 1 \in DOMAIN pending'[d] /\ pending'[d][i - 1] = pending[d][i]
        BY <2>1, <3>1
      <3> QED
        BY <3>2 DEF Nowhere
    <2>3. \A kinds, i : Latest(d, i, kinds)' => Latest(d, i + 1, kinds) /\ pending'[d][i] = pending[d][i + 1]
      <3> SUFFICES ASSUME NEW kinds, NEW i, Latest(d, i, kinds)'
                   PROVE  Latest(d, i + 1, kinds) /\ pending'[d][i] = pending[d][i + 1]
        OBVIOUS
      <3>1. i \in 1 .. n - 1 /\ i + 1 \in 1 .. n /\ pending'[d][i] = pending[d][i + 1]
        BY <1>2, <2>1 DEF Latest
      <3>2. ASSUME NEW j \in DOMAIN pending[d], i + 1 < j PROVE pending[d][j] \notin kinds
        <4>1. j - 1 \in 1 .. n - 1 /\ (j - 1) + 1 = j /\ i < j - 1
          BY <1>2, <3>1, <3>2
        <4> QED
          BY <2>1, <4>1 DEF Latest
      <3> QED
        BY <1>2, <3>1, <3>2 DEF Latest
    <2>4. \A kinds, i : Latest(d, i, kinds) /\ i # 1 =>
              Latest(d, i - 1, kinds)' /\ pending'[d][i - 1] = pending[d][i]
      <3> SUFFICES ASSUME NEW kinds, NEW i, Latest(d, i, kinds), i # 1
                   PROVE  Latest(d, i - 1, kinds)' /\ pending'[d][i - 1] = pending[d][i]
        OBVIOUS
      <3>1. i \in 1 .. n /\ i - 1 \in 1 .. n - 1 /\ (i - 1) + 1 = i
        BY <1>2 DEF Latest
      <3>2. ASSUME NEW j \in 1 .. n - 1, i - 1 < j PROVE pending'[d][j] \notin kinds
        <4>1. j + 1 \in 1 .. n /\ i < j + 1
          BY <1>2, <3>1, <3>2
        <4> QED
          BY <1>2, <2>1, <4>1 DEF Latest
      <3> QED
        BY <2>1, <3>1, <3>2 DEF Latest
    <2>5. \A kinds : Nowhere(d, kinds)' => Nowhere(d, kinds) \/ Latest(d, 1, kinds)
      BY <1>2, <1>4, <2>2 DEF Nowhere, Latest
    <2>6. Nowhere(d, Grants \cup Denials)' =>
              (reg'[d].trusted <=> d \in stackTrust) \/ (d \in Configured /\ epoch[d] = 0)
      <3> SUFFICES ASSUME Nowhere(d, Grants \cup Denials)'
                   PROVE  (reg'[d].trusted <=> d \in stackTrust) \/ (d \in Configured /\ epoch[d] = 0)
        OBVIOUS
      <3>1. CASE Nowhere(d, Grants \cup Denials)
        <4>1. kind = "disconnected"
          BY <1>2, <1>4, <3>1 DEF Nowhere, Grants, Denials, Callback
        <4> QED
          BY <1>1, <3>1, <4>1 DEF PeerTrusts, Verdict
      <3>2. CASE Latest(d, 1, Grants \cup Denials)
        <4>1. kind \in Grants <=> d \in stackTrust
          BY <3>2 DEF PeerTrusts, Verdict
        <4>2. kind = "trust_removed" => ~reg'[d].trusted
          BY <1>1, <1>6 DEF PeerTrusts, Verdict
        <4>3. kind = "connected" => reg'[d].trusted
          BY <1>1, <1>3, <1>6
        <4>4. kind \in Grants \cup Denials
          BY <3>2 DEF Latest
        <4> QED
          BY <1>1, <4>1, <4>2, <4>3, <4>4 DEF Grants, Denials
      <3> QED
        BY <2>5, <3>1, <3>2
    <2>7. Verdict(d)'
      <3>1. \A i : Latest(d, i, Grants \cup Denials)' => (pending'[d][i] \in Grants <=> d \in stackTrust)
        <4> SUFFICES ASSUME NEW i, Latest(d, i, Grants \cup Denials)'
                     PROVE  pending'[d][i] \in Grants <=> d \in stackTrust
          OBVIOUS
        <4>1. Latest(d, i + 1, Grants \cup Denials) /\ pending'[d][i] = pending[d][i + 1]
          BY <2>3
        <4>2. pending[d][i + 1] \in Grants <=> d \in stackTrust
          BY <4>1 DEF PeerTrusts, Verdict
        <4> QED
          BY <4>1, <4>2
      <3>2. UNCHANGED <<stackTrust, epoch>>
        BY <1>1
      <3>3. callback'[d] = 1 /\ callback'[d] # 2
        BY <1>6
      <3>4. Nowhere(d, Grants \cup Denials)' =>
               (reg'[d].trusted <=> d \in stackTrust') \/ (d \in Configured /\ epoch'[d] = 0)
        BY <2>6, <3>2
      <3>5. \A i : Latest(d, i, Grants \cup Denials)' => (pending'[d][i] \in Grants <=> d \in stackTrust')
        BY <3>1, <3>2
      <3> QED
        BY <3>3, <3>4, <3>5 DEF Verdict
    <2>8. LinkComes(d)'
      <3> SUFFICES ASSUME d \in link
                   PROVE  \/ \E i : Latest(d, i, {"connected"} \cup Lowering)' /\ pending'[d][i] = "connected"
                          \/ reg'[d].health = "connected" /\ Nowhere(d, Lowering)'
        BY <1>1 DEF LinkComes
      <3>1. CASE \E i : i # 1 /\ Latest(d, i, {"connected"} \cup Lowering) /\ pending[d][i] = "connected"
        BY <2>4, <3>1
      <3>2. CASE Latest(d, 1, {"connected"} \cup Lowering) /\ kind = "connected"
        <4>1. reg'[d].health = "connected"
          BY <1>1, <1>3, <1>6, <3>2
        <4>2. \A i \in 1 .. n - 1 : i + 1 \in 1 .. n /\ 1 < i + 1
          BY <1>2
        <4>3. Nowhere(d, Lowering)'
          BY <1>2, <2>1, <3>2, <4>2 DEF Nowhere, Latest
        <4> QED
          BY <4>1, <4>3
      <3>3. CASE reg[d].health = "connected" /\ Nowhere(d, Lowering)
        <4>1. kind \in {"connected", "auto_trusted"}
          BY <1>2, <1>4, <3>3 DEF Nowhere, Lowering, Denials, Callback
        <4>2. \A i \in 1 .. n - 1 : i + 1 \in 1 .. n
          BY <1>2
        <4>3. Nowhere(d, Lowering)'
          BY <1>2, <2>1, <3>3, <4>2 DEF Nowhere
        <4> QED
          BY <1>1, <3>3, <4>1, <4>3
      <3> QED
        BY <3>1, <3>2, <3>3 DEF PeerTrusts, LinkComes
    <2> QED
      BY <1>3, <2>7, <2>8 DEF PeerTrusts
  <1> QED
    BY <1>1, <1>5, <1>6

\* Both: a step that is about one device's connection, callbacks or trust.
DeviceStep(d) == LinkUp(d) \/ LinkDown(d) \/ Revoke(d) \/ AutoTrust(d) \/ CallbackStep(d)

LEMMA DeviceStepElsewhere ==
  ASSUME RegInv, LinkedTrusted, NEW d \in SKI, DeviceStep(d)
  PROVE  UNCHANGED command /\ \A e \in SKI \ {d} : TrustSame(e) /\ StackSame(e)
  <1>1. CASE LinkUp(d)
    <2>1. \A e \in SKI \ {d} : pending'[e] = pending[e] /\ epoch'[e] = epoch[e]
      BY <1>1 DEF LinkUp, Deliver, RegInv
    <2> QED
      BY <1>1, <2>1 DEF LinkUp, TrustSame, StackSame
  <1>2. CASE LinkDown(d)
    <2>1. \A e \in SKI \ {d} : pending'[e] = pending[e]
      BY <1>2 DEF LinkDown, Deliver, RegInv
    <2> QED
      BY <1>2, <2>1 DEF LinkDown, TrustSame, StackSame
  <1>3. CASE Revoke(d)
    <2>1. \A e \in SKI \ {d} : pending'[e] = pending[e]
      BY <1>3 DEF Revoke, Deliver, RegInv
    <2> QED
      BY <1>3, <2>1 DEF Revoke, TrustSame, StackSame
  <1>4. CASE AutoTrust(d)
    <2>1. \A e \in SKI \ {d} : pending'[e] = pending[e]
      BY <1>4 DEF AutoTrust, Deliver, RegInv
    <2> QED
      BY <1>4, <2>1 DEF AutoTrust, TrustSame, StackSame
  <1>5. CASE CallbackStep(d)
    <2>1. UNCHANGED <<stackTrust, link, epoch, command>>
      BY <1>5 DEF CallbackStep
    <2>2. \A e \in SKI \ {d} : reg'[e] = reg[e] /\ pending'[e] = pending[e] /\ callback'[e] = callback[e]
      BY <1>5, CallbackEffect
    <2> QED
      BY <2>1, <2>2 DEF TrustSame, StackSame
  <1> QED
    BY <1>1, <1>2, <1>3, <1>4, <1>5 DEF DeviceStep

OtherStep(d) ==
    \/ SupportBegin(d) \/ SupportCatalog(d) \/ SupportEnd(d)
    \/ DataBegin(d) \/ DataEnd(d) \/ ReadBegin(d) \/ ReadEnd(d)

LEMMA NextCases ==
  ASSUME Next
  PROVE  \/ \E d \in SKI : DeviceStep(d)
         \/ \E d \in SKI : OtherStep(d)
         \/ \E p \in Client : CommandBegin(p)
         \/ \E p \in Client : CommandStep(p)
  BY DEF Next, DeviceStep, OtherStep

LEMMA OtherStepSame ==
  ASSUME RegInv, NEW d \in SKI, OtherStep(d)
  PROVE  UNCHANGED command /\ \A e \in SKI : TrustSame(e) /\ StackSame(e)
  BY OthersSame DEF OtherStep, StackSame

LEMMA CommandsUnchanged ==
  ASSUME UNCHANGED command, NEW d \in SKI PROVE CommandsSame(d)
  BY DEF CommandsSame, Busy, Running, At

\* A connected device stays trusted by the registry.
LEMMA LinkedStep ==
  ASSUME RegInv, LinkedTrusted, Next
  PROVE  LinkedTrusted'
  <1>1. CASE \E d \in SKI : DeviceStep(d)
    <2> PICK d \in SKI : DeviceStep(d)
      BY <1>1
    <2>1. \A e \in SKI \ {d} : TrustSame(e)
      BY DeviceStepElsewhere
    <2>2. reg'[d].health = "connected" => reg'[d].trusted
      <3>1. CASE CallbackStep(d)
        BY <3>1, CallbackEffect
      <3>2. CASE UNCHANGED reg
        BY <3>2 DEF LinkedTrusted
      <3> QED
        BY <3>1, <3>2 DEF DeviceStep, LinkUp, LinkDown, Revoke, AutoTrust
    <2> QED
      BY <2>1, <2>2 DEF LinkedTrusted, TrustSame
  <1>2. CASE \E d \in SKI : OtherStep(d)
    BY <1>2, OtherStepSame DEF LinkedTrusted, TrustSame
  <1>3. CASE \E p \in Client : CommandBegin(p)
    BY <1>3 DEF CommandBegin, LinkedTrusted
  <1>4. CASE \E p \in Client : CommandStep(p)
    <2> PICK p \in Client : CommandStep(p)
      BY <1>4
    <2>1. command[p].ski \in SKI
      BY DEF CommandStep, At, RegInv, Idle
    <2> PICK d \in SKI : d = command[p].ski
      BY <2>1
    <2> DEFINE r == reg[d]
    <2>2. \/ UNCHANGED reg
          \/ \E s \in {MarkTrusted(r), MarkUntrusted(r), RemoveDevice(r), ClearEntities(r)} : Update(d, s)
      BY DEF CommandStep
    <2>3. RowOK(r) /\ r \in Row /\ (r.health = "connected" => r.trusted)
      BY DEF RegInv, RowOK, LinkedTrusted
    <2> HIDE DEF r
    <2>4. r.removed => r.health # "connected"
      BY <2>3 DEF RowOK, RemoveDevice, Blank
    <2>5. \A s \in {MarkTrusted(r), MarkUntrusted(r), RemoveDevice(r), ClearEntities(r)} :
              s.health = "connected" => s.trusted
      <3>1. MarkTrusted(r).trusted
        BY <2>3 DEF MarkTrusted, Row
      <3>2. MarkUntrusted(r).health # "connected"
        BY <2>3, <2>4 DEF MarkUntrusted, Row
      <3>3. RemoveDevice(r).health # "connected"
        BY DEF RemoveDevice, Blank
      <3>4. ClearEntities(r).health = r.health /\ ClearEntities(r).trusted = r.trusted
        BY <2>3, TrustLeft
      <3> QED
        BY <2>3, <3>1, <3>2, <3>3, <3>4
    <2>6. CASE UNCHANGED reg
      BY <2>6 DEF LinkedTrusted
    <2>7. ASSUME NEW s, Update(d, s), s.health = "connected" => s.trusted PROVE LinkedTrusted'
      BY <2>7 DEF Update, LinkedTrusted, RegInv
    <2> QED
      BY <2>2, <2>5, <2>6, <2>7
  <1> QED
    BY <1>1, <1>2, <1>3, <1>4, NextCases

LEMMA UserStep ==
  ASSUME RegInv, LinkedTrusted, OneCommand, \A d \in SKI : UserTrust(d), Next, ~PeerDecides, OneCommand'
  PROVE  \A d \in SKI : UserTrust(d)'
  <1>1. CASE \E d \in SKI : DeviceStep(d)
    <2> PICK d \in SKI : DeviceStep(d)
      BY <1>1
    <2>1. \A e \in SKI \ {d} : UserTrust(e)'
      BY DeviceStepElsewhere, CommandsUnchanged, UserSame
    <2>2. UserTrust(d)'
      BY UserLinkUp, UserLinkDown, UserCallback DEF DeviceStep, PeerDecides
    <2> QED
      BY <2>1, <2>2
  <1>2. CASE \E d \in SKI : OtherStep(d)
    BY <1>2, OtherStepSame, CommandsUnchanged, UserSame
  <1>3. CASE \E p \in Client : CommandBegin(p)
    BY <1>3, UserBegin
  <1>4. CASE \E p \in Client : CommandStep(p)
    BY <1>4, UserCommand
  <1> QED
    BY <1>1, <1>2, <1>3, <1>4, NextCases

LEMMA PeerStep ==
  ASSUME RegInv, LinkedTrusted, \A p \in Client : command[p] = Idle, \A d \in SKI : PeerTrusts(d),
         Next, ~UserDecides
  PROVE  (\A p \in Client : command'[p] = Idle) /\ \A d \in SKI : PeerTrusts(d)'
  <1>1. CASE \E d \in SKI : DeviceStep(d)
    <2> PICK d \in SKI : DeviceStep(d)
      BY <1>1
    <2>1. UNCHANGED command /\ \A e \in SKI \ {d} : PeerTrusts(e)'
      BY DeviceStepElsewhere, PeerSame
    <2>2. PeerTrusts(d)'
      BY PeerLinkUp, PeerLinkDown, PeerDecision, PeerCallback DEF DeviceStep
    <2> QED
      BY <2>1, <2>2
  <1>2. CASE \E d \in SKI : OtherStep(d)
    BY <1>2, OtherStepSame, PeerSame
  <1>3. ~ \E p \in Client : CommandStep(p)
    BY DEF CommandStep, At, Idle
  <1> QED
    BY <1>1, <1>2, <1>3, NextCases DEF UserDecides

LEMMA MasterInvInit == MasterInit => MasterInv
  <1> SUFFICES ASSUME MasterInit PROVE MasterInv
    OBVIOUS
  <1>1. Init /\ master \in {"user", "peer"}
    BY DEF MasterInit
  <1>2. /\ \A d \in SKI : reg[d] = Blank /\ pending[d] = <<>> /\ epoch[d] = 0 /\ callback[d] = 1
        /\ \A p \in Client : command[p] = Idle
        /\ stackTrust = Configured /\ link = {}
    BY <1>1 DEF Init
  <1>3. ~Blank.removed /\ ~Blank.trusted /\ Blank.health = "unknown"
    BY DEF Blank
  <1>4. LinkedTrusted /\ OneCommand
    BY <1>2, <1>3 DEF LinkedTrusted, OneCommand, Busy
  <1>5. ASSUME NEW d \in SKI PROVE DOMAIN pending[d] = {} /\ ~Announced(d)
    BY <1>2 DEF Announced
  <1>6. ASSUME NEW d \in SKI PROVE UserTrust(d)
    <2>1. Agree(d)
      BY <1>2, <1>3, <1>5 DEF Agree
    <2>2. \A p \in Client : Underway(p, d)
      BY <1>2 DEF Underway, Running, At, Idle
    <2> QED
      BY <1>5, <2>1, <2>2 DEF UserTrust
  <1>7. ASSUME NEW d \in SKI PROVE PeerTrusts(d)
    <2>1. Verdict(d)
      BY <1>2, <1>3, <1>5 DEF Verdict, Latest
    <2>2. LinkComes(d)
      BY <1>2 DEF LinkComes
    <2> QED
      BY <1>2, <1>3, <2>1, <2>2 DEF PeerTrusts
  <1> QED
    BY <1>1, <1>2, <1>4, <1>6, <1>7 DEF MasterInv

LEMMA MasterInvStep == RegInv /\ MasterInv /\ [MasterNext]_masterVars => MasterInv'
  <1> SUFFICES ASSUME RegInv, MasterInv, [MasterNext]_masterVars PROVE MasterInv'
    OBVIOUS
  <1>1. CASE MasterNext
    <2>1. /\ Next /\ OneCommand' /\ UNCHANGED master
          /\ master = "user" => ~PeerDecides
          /\ master = "peer" => ~UserDecides
      BY <1>1 DEF MasterNext
    <2>2. LinkedTrusted'
      BY <2>1, LinkedStep DEF MasterInv
    <2>3. CASE master = "user"
      <3>1. \A d \in SKI : UserTrust(d)'
        BY <2>1, <2>3, UserStep DEF MasterInv
      <3> QED
        BY <2>1, <2>2, <2>3, <3>1 DEF MasterInv
    <2>4. CASE master = "peer"
      <3>1. (\A p \in Client : command'[p] = Idle) /\ \A d \in SKI : PeerTrusts(d)'
        BY <2>1, <2>4, PeerStep DEF MasterInv
      <3> QED
        BY <2>1, <2>2, <2>4, <3>1 DEF MasterInv
    <2> QED
      BY <2>3, <2>4 DEF MasterInv
  <1>2. CASE UNCHANGED masterVars
    <2>1. /\ UNCHANGED <<reg, stackVars, callback, command, master>>
      BY <1>2 DEF masterVars, vars
    <2>2. \A d \in SKI : TrustSame(d) /\ StackSame(d) /\ CommandsSame(d)
      BY <2>1, CommandsUnchanged DEF TrustSame, StackSame
    <2>3. LinkedTrusted' /\ OneCommand'
      BY <2>1 DEF MasterInv, LinkedTrusted, OneCommand, Busy
    <2>4. \A d \in SKI : (UserTrust(d) => UserTrust(d)') /\ (PeerTrusts(d) => PeerTrusts(d)')
      BY <2>2, UserSame, PeerSame
    <2> QED
      BY <2>1, <2>3, <2>4 DEF MasterInv
  <1> QED
    BY <1>1, <1>2

\* Behaviours in which one side decides about trust are behaviours of the registry, so
\* that what is proved of the registry holds of them as well (trust.go, callbacks.go).
THEOREM MasterIsRegistry == MasterSpec => Spec
<1>1. MasterInit => Init
    BY DEF MasterInit
<1>2. [MasterNext]_masterVars => [Next]_vars
    BY DEF MasterNext, masterVars
<1> QED BY <1>1, <1>2, PTL DEF MasterSpec, Spec

THEOREM TrustInvariant == MasterSpec => [](RegInv /\ MasterInv)
  <1>1. MasterInit => RegInv /\ MasterInv
    BY InitInv, MasterInvInit DEF MasterInit
  <1>2. RegInv /\ MasterInv /\ [MasterNext]_masterVars => RegInv' /\ MasterInv'
    <2>1. [MasterNext]_masterVars => [Next]_vars
      BY DEF MasterNext, masterVars
    <2> QED
      BY <2>1, NextStep, MasterInvStep
  <1> QED
    BY <1>1, <1>2, PTL DEF MasterSpec

\* While the user decides, by one command of a device at a time, or the peer does,
\* the registry trusts the devices the stack trusts once callbacks and commands have
\* run (TrustController in trust.go, ServiceAutoTrusted and its like in callbacks.go).
THEOREM RegistryTrustAgrees == MasterSpec => []TrustAgrees
  <1>1. RegInv /\ MasterInv => TrustAgrees
    <2> SUFFICES ASSUME RegInv, MasterInv, NEW d \in SKI, Quiet(d), d \in Configured => epoch[d] > 0
                 PROVE  reg[d].trusted <=> d \in stackTrust
      BY DEF TrustAgrees
    <2>1. pending[d] = <<>> /\ (\A p \in Client : command[p] = Idle) /\ ~(d \in Configured /\ epoch[d] = 0)
      BY DEF Quiet
    <2>2. ~Announced(d) /\ DOMAIN pending[d] = {}
      BY <2>1 DEF Announced
    <2>3. CASE master = "user"
      <3>1. Agree(d)
        BY <2>1, <2>3 DEF MasterInv, UserTrust, Busy
      <3> QED
        BY <2>1, <2>2, <3>1 DEF Agree
    <2>4. CASE master = "peer"
      <3>1. Nowhere(d, Grants \cup Denials)
        BY <2>2 DEF Nowhere
      <3> QED
        BY <2>1, <2>4, <3>1 DEF MasterInv, PeerTrusts, Verdict
    <2> QED
      BY <2>3, <2>4 DEF MasterInv
  <1> QED
    BY <1>1, TrustInvariant, PTL

\* While only the peer decides about trust, a device the stack is connected to is
\* connected in the registry once its callbacks have run: no disconnect, revocation
\* or failed pairing that waits overtakes the connection (callbacks.go).
THEOREM RegistryPeerLinkAgrees == MasterSpec => []PeerLinkAgrees
  <1>1. RegInv /\ MasterInv => PeerLinkAgrees
    <2> SUFFICES ASSUME MasterInv, master = "peer", NEW d \in SKI, Quiet(d), d \in link
                 PROVE  reg[d].health = "connected"
      BY DEF PeerLinkAgrees, LinkAgrees
    <2>1. DOMAIN pending[d] = {}
      BY DEF Quiet
    <2> QED
      BY <2>1 DEF MasterInv, PeerTrusts, LinkComes, Latest
  <1> QED
    BY <1>1, TrustInvariant, PTL

=============================================================================
