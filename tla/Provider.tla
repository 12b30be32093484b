------------------------------- MODULE Provider -------------------------------
(***************************************************************************)
(* One provider use case of the bridge: Home Assistant pushes samples that *)
(* hold for a while, the bridge serves them to EEBUS consumers and takes   *)
(* them back when they expire (providerSnapshotStore and                   *)
(* providerAvailability, and their three owners mgcp.go, vapd.go and       *)
(* vabd.go, which differ in their measurements and in the PV system's peak *)
(* power, which is pushed by itself and does not expire).                  *)
(*                                                                         *)
(* publishMu lets one of a push, an expiry and a close touch the provider  *)
(* at a time, but not the clock, the timer and the consumers: they see     *)
(* every step of it.  A timer that has fired cannot be stopped any more,   *)
(* its callback waits for publishMu.  The measurements of one sample carry *)
(* one value, which tells them from those of another.                      *)
(***************************************************************************)
EXTENDS Integers

CONSTANTS
    Kind,        \* the provider: "grid", "pv" or "battery"
    Described,   \* the quantities that the EEBUS features could describe
    Caller,      \* gRPC calls that may be in flight
    Value,       \* measured values
    Invalid,     \* a measurement in error state, or never written; sample.invalid
    TTL,         \* PROVIDER_SAMPLE_TTL, legacyProviderSampleTTL
    WriteFails,  \* the EEBUS feature may refuse a write
    MaxTime,     \* bound of the model on the clock
    MaxSends     \* bound of the model on pushes

\* The measurements that a sample may lack; its power it always has.
GridOptional == {"feedIn", "consumed"}
PVOptional == {"yield"}
BatteryOptional == {"charged", "discharged", "stateOfCharge"}
Optional == CASE Kind = "grid" -> GridOptional
              [] Kind = "pv" -> PVOptional
              [] Kind = "battery" -> BatteryOptional
Quantity == {"power"} \cup Optional

ASSUME KindAssumption == Kind \in {"grid", "pv", "battery"}
\* AddFeatures: a power without description ends the startup, another one is only logged.
ASSUME DescribedAssumption == "power" \in Described /\ Described \subseteq Quantity \cup {"peak"}
ASSUME InvalidAssumption == Invalid \notin Value
ASSUME TTLAssumption == TTL \in Nat \ {0}
ASSUME ProviderBoundAssumption == MaxTime \in Nat /\ MaxSends \in Nat
ASSUME FaultAssumption == WriteFails \in BOOLEAN

VARIABLES
    now,        \* the wall clock
    calls,      \* [Caller -> the call]
    sends,      \* pushes so far
    publishMu,  \* who holds it and what it does next
    wire,       \* [Quantity -> what a consumer reads]
    peak,       \* a consumer reads the peak power
    available,  \* the advertised useCaseAvailable
    snapshot,   \* the store's sample, or NoSample
    version,    \* the store's version
    timer,      \* the armed timer, or NoTimer
    fired,      \* expiry callbacks waiting for publishMu: version, time of firing
    closed,     \* the provider is closed
    owed        \* history: the present sample's expiry has not been spoilt

storeVars == <<snapshot, version, timer, fired, closed, owed>>
servedVars == <<wire, peak, available>>
providerVars == <<now, calls, sends, publishMu, servedVars, storeVars>>

NoSample == [value |-> Invalid, has |-> {}, until |-> 0]
NoTimer == [version |-> 0, delay |-> 0]
NoCall == [step |-> "idle", value |-> Invalid, has |-> {}, until |-> 0]
Nobody == "nobody"
Expiry == "expiry"
Free == [by |-> Nobody, step |-> "none", version |-> 0, at |-> 0]

ASSUME CallerAssumption == Caller \cap {Nobody, Expiry} = {}

Held(by, step) == publishMu.by = by /\ publishMu.step = step
Goto(step) == publishMu' = [publishMu EXCEPT !.step = step]

ProviderInit ==
    /\ now = 0
    /\ calls = [c \in Caller |-> NoCall]
    /\ sends = 0
    /\ publishMu = Free
    /\ wire = [q \in Quantity |-> Invalid]
    /\ peak = FALSE
    /\ available = FALSE
    /\ snapshot = NoSample
    /\ version = 0
    /\ timer = NoTimer
    /\ fired = {}
    /\ closed = FALSE
    /\ owed = TRUE

-----------------------------------------------------------------------------
(* PublishGridData and its siblings, and PublishGridSnapshot under it.     *)

Send(c, value) ==
    /\ calls[c] = NoCall
    /\ sends < MaxSends
    /\ sends' = sends + 1
    /\ \E has \in IF value = Invalid THEN {{}} ELSE SUBSET Optional :
          calls' = [calls EXCEPT ![c] = [step |-> "sent", value |-> value, has |-> has, until |-> now + TTL]]
    /\ UNCHANGED <<now, publishMu, servedVars, storeVars>>

\* PublishPVPeakPower: a rating without a validity.
SendPeak(c) ==
    /\ Kind = "pv" /\ sends < MaxSends
    /\ sends' = sends + 1
    /\ calls' = [calls EXCEPT ![c] = [step |-> "sent", value |-> Invalid, has |-> {"peak"}, until |-> 0]]
    /\ UNCHANGED <<now, publishMu, servedVars, storeVars>>

Answer(c, step) == calls' = [calls EXCEPT ![c].step = step]

\* The rest of the request is forgotten.
Finish(c, outcome) ==
    calls' = [calls EXCEPT ![c].step = outcome, ![c].has = @ \cap {"peak"}, ![c].until = 0]

\* providerValidity, before the lock.
Validate(c) ==
    /\ calls[c].step = "sent"
    /\ LET call == calls[c]
       IN  IF call.value = Invalid \/ call.until > now THEN Answer(c, "valid") ELSE Finish(c, "failed")
    /\ UNCHANGED <<now, sends, publishMu, servedVars, storeVars>>

RefusedNever == FALSE  \* mutant: closedState is not looked at
Refused == closed

Lock(c) ==
    /\ calls[c].step = "valid"
    /\ publishMu = Free
    /\ IF Refused
       THEN Finish(c, "failed") /\ UNCHANGED publishMu
       ELSE /\ Answer(c, "running")
            /\ publishMu' = [by |-> c, step |-> IF calls[c].has = {"peak"} THEN "peak" ELSE "write",
                             version |-> 0, at |-> 0]
    /\ UNCHANGED <<now, sends, servedVars, storeVars>>

\* What consumers read of a sample: a measurement that it lacks is in error state.
MeasurementsKept(sample) ==  \* mutant: a measurement that it lacks stays as it was
    [q \in Quantity |->
        IF q \in {"power"} \cup sample.has \/ sample.value = Invalid THEN sample.value ELSE wire[q]]
Measurements(sample) ==
    [q \in Quantity |-> IF q \in {"power"} \cup sample.has THEN sample.value ELSE Invalid]

\* The measurements go in one update, for which each of them needs its description.
WriteFailed == WriteFails \/ ~(Quantity \subseteq Described)

WriteSample(c) ==
    /\ Held(c, "write")
    /\ \/ /\ Quantity \subseteq Described
          /\ wire' = Measurements(calls[c])
          /\ Goto("announce") /\ UNCHANGED calls
       \/ WriteFailed /\ publishMu' = Free /\ Finish(c, "failed") /\ UNCHANGED wire
    /\ UNCHANGED <<now, sends, peak, available, storeVars>>

\* PublishPeakPower: it is not part of the sample.
WritePeak(c) ==
    /\ Held(c, "peak")
    /\ publishMu' = Free
    /\ \/ "peak" \in Described /\ peak' = TRUE /\ Finish(c, "ok")
       \/ (WriteFails \/ "peak" \notin Described) /\ Finish(c, "failed") /\ UNCHANGED peak
    /\ UNCHANGED <<now, sends, wire, available, storeVars>>

Announce(c) ==
    /\ Held(c, "announce")
    /\ available' = (calls[c].value # Invalid)
    /\ Goto("store")
    /\ UNCHANGED <<now, calls, sends, wire, peak, storeVars>>

\* commit and invalidate of the store.  The delay is computed anew: the sample
\* may have expired while its call waited.
CommitOfArrival(c) == [version |-> version + 1, delay |-> TTL]  \* mutant: the wait is not deducted
CommitTimer(c) ==
    [version |-> version + 1, delay |-> IF calls[c].until > now THEN calls[c].until - now ELSE 0]

Commit(c) ==
    /\ Held(c, "store")
    /\ version' = version + 1
    /\ IF calls[c].value = Invalid
       THEN snapshot' = NoSample /\ timer' = NoTimer
       ELSE /\ snapshot' = [value |-> calls[c].value, has |-> calls[c].has, until |-> calls[c].until]
            /\ timer' = CommitTimer(c)
    /\ owed' = TRUE
    /\ publishMu' = Free
    /\ Finish(c, "ok")
    /\ UNCHANGED <<now, sends, servedVars, fired, closed>>

-----------------------------------------------------------------------------
(* Expiry and close.                                                       *)

Fire ==
    /\ timer # NoTimer /\ timer.delay = 0
    /\ fired' = fired \cup {[version |-> timer.version, at |-> now]}
    /\ timer' = NoTimer
    /\ UNCHANGED <<now, calls, sends, publishMu, servedVars, snapshot, version, closed, owed>>

ShouldExpireAnything(f) == ~closed /\ snapshot # NoSample  \* mutant: any callback expires any sample
ShouldExpire(f) ==
    ~closed /\ version = f.version /\ snapshot # NoSample /\ snapshot.until <= f.at

\* expireGridSnapshot and its siblings.
ExpireLock(f) ==
    /\ publishMu = Free
    /\ fired' = fired \ {f}
    /\ IF ShouldExpire(f)
       THEN /\ publishMu' = [by |-> Expiry, step |-> "write", version |-> f.version, at |-> f.at]
            /\ UNCHANGED owed
       ELSE owed' = (owed /\ version # f.version) /\ UNCHANGED publishMu
    /\ UNCHANGED <<now, calls, sends, servedVars, snapshot, version, timer, closed>>

ExpireWrite ==
    /\ Held(Expiry, "write")
    /\ \/ wire' = Measurements(NoSample) /\ Goto("store") /\ UNCHANGED owed
       \/ WriteFails /\ publishMu' = Free /\ owed' = FALSE /\ UNCHANGED wire
    /\ UNCHANGED <<now, calls, sends, peak, available, snapshot, version, timer, fired, closed>>

ClearExpired ==
    /\ Held(Expiry, "store")
    /\ IF closed \/ version # publishMu.version \/ snapshot = NoSample
       THEN UNCHANGED <<snapshot, version, timer>>
       ELSE snapshot' = NoSample /\ version' = version + 1 /\ timer' = NoTimer
    /\ Goto("announce")
    /\ UNCHANGED <<now, calls, sends, servedVars, fired, closed, owed>>

ExpireAnnounce ==
    /\ Held(Expiry, "announce")
    /\ available' = FALSE
    /\ publishMu' = Free
    /\ UNCHANGED <<now, calls, sends, wire, peak, storeVars>>

\* Close: the measurements stay as they are, the use case does not.
Close ==
    /\ publishMu = Free
    /\ ~closed
    /\ closed' = TRUE
    /\ version' = version + 1
    /\ snapshot' = NoSample
    /\ timer' = NoTimer
    /\ available' = FALSE
    /\ UNCHANGED <<now, calls, sends, publishMu, wire, peak, fired, owed>>

-----------------------------------------------------------------------------
(* Time.  A timer counts down with the clock, which nobody sets back.      *)

Tick ==
    /\ now < MaxTime
    /\ now' = now + 1
    /\ timer' = [timer EXCEPT !.delay = IF @ = 0 THEN 0 ELSE @ - 1]
    /\ UNCHANGED <<calls, sends, publishMu, servedVars, snapshot, version, fired, closed, owed>>

Serve(c) == Validate(c) \/ Lock(c) \/ WriteSample(c) \/ WritePeak(c) \/ Announce(c) \/ Commit(c)

BridgeNext ==
    \/ \E c \in Caller : Serve(c)
    \/ Fire \/ (\E f \in fired : ExpireLock(f))
    \/ ExpireWrite \/ ClearExpired \/ ExpireAnnounce
    \/ Close \/ Tick

-----------------------------------------------------------------------------

\* What the device diagnostics say of the provider.
Diagnostics ==
    CASE closed -> "closed"
      [] ~closed /\ snapshot = NoSample -> "empty"
      [] ~closed /\ snapshot # NoSample -> IF now < snapshot.until THEN "current" ELSE "expired"

\* While nobody works on an open provider, consumers read the measurements of the
\* one sample that the store holds, none of an earlier one, and the use case is
\* advertised exactly when the diagnostics tell of a sample: no mix of pushes, failed
\* writes, expiries and invalidations leaves one behind the other
\* (PublishGridSnapshot, expireGridSnapshot, providerAvailability.set).
ServedIsHeld ==
    publishMu = Free /\ ~closed =>
        /\ \A q \in Quantity :
               wire[q] = IF q \in {"power"} \cup snapshot.has THEN snapshot.value ELSE Invalid
        /\ available <=> Diagnostics \in {"current", "expired"}

\* A sample that is served has its own expiry ahead: the timer of its version is
\* armed, for no longer than the sample has left, or its callback waits.  Excepted
\* are samples whose expiry came to nothing, see owed (commit, stopTimerLocked).
ExpiryAhead ==
    publishMu = Free /\ snapshot # NoSample /\ owed =>
        \/ \E f \in fired : f.version = version
        \/ /\ timer.version = version
           /\ timer.delay = 0 \/ now + timer.delay <= snapshot.until

\* Expiry takes back no sample that was valid when the timer fired, although its
\* callback may have waited for publishMu while newer samples came (shouldExpire).
OnlyExpiredTaken ==
    [][Held(Expiry, "write") /\ wire' # wire => snapshot.until <= publishMu.at]_providerVars

\* Once the provider is closed nothing is written and nothing advertised any more,
\* whatever was under way ("prevents every later EEBUS write", mgcp.go:271).
SilentOnceClosed == [][closed => UNCHANGED <<wire, peak>> /\ ~available']_providerVars

=============================================================================
