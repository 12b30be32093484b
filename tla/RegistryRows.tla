----------------------------- MODULE RegistryRows -----------------------------
(***************************************************************************)
(* A device's row of the bridge's registry (internal/eebus/registry.go and *)
(* capabilities.go): what it holds of the device, and for each method of   *)
(* the registry that writes to it, the row it makes of the one it finds.   *)
(***************************************************************************)
EXTENDS Naturals

CONSTANTS
    Capability,  \* capabilities of a device
    Disabled,    \* capabilities the configuration switches off
    Source,      \* use cases that contribute to a capability
    NoEntries    \* the device has no capability entries

ASSUME DisabledAssumption == Disabled \subseteq Capability

\* A capability entry is named by its state, one that is unavailable or
\* unsupported by its reason.  Times, heartbeats and what else the catalog
\* says of a device are left out.

Unsupported == {"not_advertised", "local_disabled"}
Unavailable == {"disconnected", "read_failed", "not_bound"}
Entry == {"unknown", "available"} \cup Unavailable \cup Unsupported

ASSUME EntriesAssumption == NoEntries \notin [Capability -> Entry]

\* setCapabilityLocked: a capability switched off stays unsupported.
SettledAsRecorded(c, entry) == entry  \* mutant: the configuration is not consulted
Settled(c, entry) == IF c \in Disabled THEN "local_disabled" ELSE entry
Fresh == [c \in Capability |-> Settled(c, "unknown")]

\* ensureCapabilitiesLocked.
Ensured(r) == IF r.caps = NoEntries THEN Fresh ELSE r.caps

Blank == [removed |-> FALSE, listed |-> FALSE, entities |-> {}, health |-> "unknown",
          trusted |-> FALSE, caps |-> NoEntries,
          advertised |-> [c \in Capability |-> {}]]

AddDevice(r) ==
    IF r.removed THEN r
    ELSE [r EXCEPT !.listed = TRUE, !.entities = {}, !.caps = Ensured(r)]

Connected(r) ==
    [r EXCEPT !.health = "connected", !.trusted = TRUE,
              !.caps = [c \in Capability |-> IF Ensured(r)[c] = "disconnected"
                                             THEN Settled(c, "unknown") ELSE Ensured(r)[c]]]
MarkConnectedUnguarded(r) == IF r.health = "connected" THEN r ELSE Connected(r)  \* mutant
MarkConnectedOnce(r) ==  \* mutant: a known device is taken for a connected one
    IF r.removed \/ r.health # "unknown" THEN r ELSE Connected(r)
MarkConnected(r) == IF r.removed \/ r.health = "connected" THEN r ELSE Connected(r)

MarkTrustedStateless(r) == [r EXCEPT !.removed = FALSE, !.trusted = TRUE]  \* mutant
MarkTrusted(r) ==
    [r EXCEPT !.removed = FALSE, !.trusted = TRUE,
              !.health = IF @ = "unknown" THEN "disconnected" ELSE @]

Withdrawn(r) ==
    [c \in Capability |-> IF Ensured(r)[c] \in Unsupported THEN Ensured(r)[c]
                          ELSE Settled(c, "disconnected")]

MarkUntrustedLinked(r) ==  \* mutant: only a connected device loses its trust
    IF r.removed \/ r.health # "connected" THEN r
    ELSE [r EXCEPT !.health = "disconnected", !.trusted = FALSE, !.caps = Withdrawn(r)]
MarkUntrusted(r) ==
    IF r.removed THEN r
    ELSE [r EXCEPT !.health = "disconnected", !.trusted = FALSE, !.caps = Withdrawn(r)]

MarkDisconnected(r) ==
    IF r.removed \/ r.health # "connected" THEN r
    ELSE [r EXCEPT !.health = "disconnected", !.caps = Withdrawn(r)]

ClearEntities(r) == IF r.removed THEN r ELSE [r EXCEPT !.entities = {}]

RemoveDevice(r) == [Blank EXCEPT !.removed = TRUE]

UpsertObservation(r, entity) ==
    IF r.removed THEN r
    ELSE [r EXCEPT !.listed = TRUE, !.entities = @ \cup {entity}, !.caps = Ensured(r)]

RemoveEntityObservation(r, entity) ==
    IF r.removed THEN r ELSE [r EXCEPT !.entities = @ \ {entity}]

\* What a record of the capability becomes: an unsupported one is kept, and
\* whatever is recorded of a disconnected device is that it is disconnected.
RecordedBlindly(r, c, entry) ==  \* mutant: the connection is not looked at
    IF Ensured(r)[c] \in Unsupported THEN Ensured(r)[c] ELSE Settled(c, entry)
RecordedAnyway(r, c, entry) ==  \* mutant: unsupported is not sticky
    IF r.health = "disconnected" THEN Settled(c, "disconnected") ELSE Settled(c, entry)
Recorded(r, c, entry) ==
    IF Ensured(r)[c] \in Unsupported THEN Ensured(r)[c]
    ELSE IF r.health = "disconnected" THEN Settled(c, "disconnected")
    ELSE Settled(c, entry)

WithEntry(r, c, entry) == [r EXCEPT !.caps = [Ensured(r) EXCEPT ![c] = entry]]

RecordCapabilityRead(r, c, ok) ==
    IF r.removed THEN r
    ELSE WithEntry(r, c, Recorded(r, c, IF ok THEN "available" ELSE "read_failed"))

RecordCapabilityMissingEntity(r, c, found) ==
    IF r.removed THEN r
    ELSE WithEntry(r, c, Recorded(r, c, IF found = "bound" THEN "not_advertised" ELSE "not_bound"))

\* The aggregate is supported while any source seen for it is.
RecordCapabilitySourceSupport(r, c, source, supported) ==
    LET sources == IF supported THEN r.advertised[c] \cup {source} ELSE r.advertised[c] \ {source}
        entry == IF r.health = "disconnected" THEN Recorded(r, c, "disconnected")
                 ELSE Settled(c, IF sources # {} THEN "unknown" ELSE "not_advertised")
    IN  IF r.removed THEN r
        ELSE [WithEntry(r, c, entry) EXCEPT !.advertised[c] = sources]

===============================================================================
