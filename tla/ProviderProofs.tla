---------------------------- MODULE ProviderProofs ----------------------------
(***************************************************************************)
(* What the bridge serves of a provider is the sample that its store holds *)
(* and no other, every sample has its expiry ahead, an expiry takes back   *)
(* nothing that was valid when its timer fired, a closed provider is       *)
(* silent, and what consumers read is what the sensor says: for any        *)
(* samples, calls in flight and managers.                                  *)
(*                                                                         *)
(* Between two holders of publishMu this is plain; within one the three    *)
(* pieces of state (wire, availability, store) change one after another.   *)
(* ProviderInv says what each step of each holder may rely on.  The last   *)
(* part follows a sample from the sensor to the wire: WorkerInv says what  *)
(* the call that a worker awaits carries and what it has written.          *)
(***************************************************************************)
EXTENDS ProviderPush, TLAPS

CallType == [step : {"idle", "sent", "valid", "running", "ok", "failed"},
             value : Value \cup {Invalid}, has : SUBSET (Optional \cup {"peak"}), until : Nat]

SampleType == [value : Value \cup {Invalid}, has : SUBSET (Optional \cup {"peak"}), until : Nat]
HolderType == [by : {Nobody, Expiry} \cup Caller,
               step : {"none", "peak", "write", "announce", "store"}, version : Nat, at : Nat]

Types ==
    /\ now \in Nat
    /\ calls \in [Caller -> CallType]
    /\ publishMu \in HolderType
    /\ snapshot \in SampleType
    /\ version \in Nat
    /\ timer \in [version : Nat, delay : Nat]
    /\ fired \subseteq [version : Nat, at : Nat]
    /\ available \in BOOLEAN /\ closed \in BOOLEAN /\ owed \in BOOLEAN

\* The call that holds publishMu is under way; nobody else writes to it.
Holding ==
    /\ publishMu.by = Nobody => publishMu = Free
    /\ publishMu.by # Nobody => publishMu.step # "none"
    /\ publishMu.by \in Caller => calls[publishMu.by].step = "running"

Shut == closed => publishMu = Free /\ ~available

Shows(sample) == wire = Measurements(sample)
HoldsSample == snapshot # NoSample

\* Nothing has been written yet.
Settles == publishMu.step \in {"none", "peak", "write"} =>
    Shows(snapshot) /\ (available <=> HoldsSample)

Publishes == publishMu.by \in Caller =>
    /\ publishMu.step \in {"announce", "store"} => Shows(calls[publishMu.by])
    /\ publishMu.step = "store" => (available <=> calls[publishMu.by].value # Invalid)

Expires == publishMu.by = Expiry =>
    /\ publishMu.step # "peak"
    /\ publishMu.step = "write" => snapshot.until <= publishMu.at
    /\ publishMu.step \in {"write", "store"} => HoldsSample /\ version = publishMu.version
    /\ publishMu.step \in {"store", "announce"} => Shows(NoSample)
    /\ publishMu.step = "announce" => ~HoldsSample

\* The expiry of the present sample is armed, waits, or is under way.
Ahead == HoldsSample /\ owed =>
    \/ \E f \in fired : f.version = version
    \/ timer.version = version /\ (timer.delay = 0 \/ now + timer.delay <= snapshot.until)
    \/ publishMu.by = Expiry /\ publishMu.step \in {"write", "store"} /\ publishMu.version = version

ProviderInv == Types /\ Holding /\ Shut /\ (~closed => Settles /\ Publishes /\ Expires) /\ Ahead

-----------------------------------------------------------------------------

\* Nobody and the expiry are none of the callers.
LEMMA Holders == Nobody # Expiry /\ Nobody \notin Caller /\ Expiry \notin Caller
BY CallerAssumption DEF Nobody, Expiry

\* What stands for nothing has the type of something.
LEMMA Nothing ==
    /\ NoCall \in CallType /\ NoSample \in SampleType
    /\ NoTimer \in [version : Nat, delay : Nat] /\ Free \in HolderType
BY DEF NoCall, CallType, NoSample, SampleType, NoTimer, Free, HolderType

\* The provider begins empty.
LEMMA ProviderInitial == PushInit => ProviderInv
<1> SUFFICES ASSUME PushInit PROVE ProviderInv
    OBVIOUS
<1> USE DEF PushInit, ProviderInit
<1>1. Types
    BY Nothing DEF Types
<1>2. Holding /\ Shut /\ Publishes /\ Expires
    BY Holders DEF Holding, Shut, Publishes, Expires, Free
<1>3. wire = Measurements(NoSample)
    BY DEF Measurements, NoSample
<1>4. Settles /\ Ahead
    BY <1>3 DEF Settles, Ahead, Shows, HoldsSample
<1>5. QED
    BY <1>1, <1>2, <1>4 DEF ProviderInv

\* A step that only begins, answers or forgets calls which nobody works on changes nothing.
LEMMA CallsKeep ==
    ASSUME ProviderInv, UNCHANGED <<now, publishMu, servedVars, storeVars>>,
           calls' \in [Caller -> CallType],
           \A c \in Caller : calls[c].step = "running" => calls'[c] = calls[c]
    PROVE  ProviderInv'
<1> USE DEF servedVars, storeVars
<1>1. Types'
    BY DEF ProviderInv, Types
<1>2. Holding' /\ Shut'
    BY DEF ProviderInv, Holding, Shut
<1>3. ASSUME ~closed PROVE Settles' /\ Publishes' /\ Expires'
  <2>1. Settles' /\ Expires'
      BY <1>3 DEF ProviderInv, Settles, Expires, Shows, HoldsSample
  <2>2. publishMu.by \in Caller => calls'[publishMu.by] = calls[publishMu.by]
      BY DEF ProviderInv, Holding
  <2>3. Publishes'
      BY <1>3, <2>2 DEF ProviderInv, Publishes, Shows
  <2>4. QED
      BY <2>1, <2>3
<1>4. Ahead'
    BY DEF ProviderInv, Ahead, HoldsSample
<1>5. QED
    BY <1>1, <1>2, <1>3, <1>4 DEF ProviderInv

\* An answer, and an outcome, concern one call.
LEMMA Answered ==
    ASSUME Types, NEW c \in Caller, NEW step \in {"idle", "sent", "valid", "running", "ok", "failed"},
           Answer(c, step) \/ Finish(c, step)
    PROVE  /\ calls' \in [Caller -> CallType]
           /\ calls'[c].step = step
           /\ \A d \in Caller \ {c} : calls'[d] = calls[d]
<1>1. calls \in [Caller -> CallType]
    BY DEF Types
<1>2. CASE Answer(c, step)
    BY <1>1, <1>2 DEF Answer, CallType
<1>3. CASE Finish(c, step)
  <2> DEFINE call == [calls[c] EXCEPT !.step = step, !.has = @ \cap {"peak"}, !.until = 0]
  <2>1. call \in CallType /\ call.step = step
      BY <1>1 DEF CallType
  <2>2. calls' = [calls EXCEPT ![c] = call]
      BY <1>1, <1>3 DEF Finish, CallType
  <2>3. QED
      BY <1>1, <2>1, <2>2
<1>4. QED
    BY <1>2, <1>3

\* A push that is checked before the lock, or refused under it, changes nothing else.
LEMMA ValidateKeeps == ASSUME ProviderInv, NEW c \in Caller, Validate(c) PROVE ProviderInv'
<1>1. Types /\ calls[c].step # "running"
    BY DEF ProviderInv, Validate
<1>2. Answer(c, "valid") \/ Finish(c, "failed")
    BY DEF Validate
<1>3. calls' \in [Caller -> CallType] /\ \A d \in Caller \ {c} : calls'[d] = calls[d]
    BY <1>1, <1>2, Answered
<1>4. UNCHANGED <<now, publishMu, servedVars, storeVars>>
    BY DEF Validate
<1>5. QED
    BY <1>1, <1>3, <1>4, CallsKeep

\* A push that gets the lock finds the provider settled.
LEMMA LockKeeps == ASSUME ProviderInv, NEW c \in Caller, Lock(c) PROVE ProviderInv'
<1>1. Types /\ calls[c].step # "running" /\ publishMu = Free
    BY DEF ProviderInv, Lock
<1>2. CASE closed
  <2>1. Finish(c, "failed") /\ UNCHANGED <<now, publishMu, servedVars, storeVars>>
      BY <1>2 DEF Lock, Refused
  <2>2. calls' \in [Caller -> CallType] /\ \A d \in Caller \ {c} : calls'[d] = calls[d]
      BY <1>1, <2>1, Answered
  <2>3. QED
      BY <1>1, <2>1, <2>2, CallsKeep
<1>3. CASE ~closed
  <2>1. Answer(c, "running") /\ UNCHANGED <<now, servedVars, storeVars>>
      BY <1>3 DEF Lock, Refused
  <2>2. calls' \in [Caller -> CallType] /\ calls'[c].step = "running"
      BY <1>1, <2>1, Answered
  <2>3. /\ publishMu' \in HolderType /\ publishMu'.by = c
        /\ publishMu'.step \in {"peak", "write"}
      BY <1>3 DEF Lock, Refused, HolderType
  <2>4. publishMu.by = Nobody /\ publishMu.step = "none"
      BY <1>1 DEF Free
  <2> USE DEF servedVars, storeVars
  <2>5. Types'
      BY <1>1, <2>1, <2>2, <2>3 DEF Types
  <2>6. Holding' /\ Shut'
      BY <1>3, <2>1, <2>2, <2>3, Holders DEF Holding, Shut
  <2>7. Settles' /\ Publishes' /\ Expires'
    <3>1. Settles'
        BY <1>3, <2>1, <2>4 DEF ProviderInv, Settles, Shows, HoldsSample, Measurements
    <3>2. Publishes' /\ Expires'
        BY <2>3, Holders DEF Publishes, Expires
    <3>3. QED
        BY <3>1, <3>2
  <2>8. Ahead'
      BY <2>1, <2>4, Holders DEF ProviderInv, Ahead, HoldsSample
  <2>9. QED
      BY <2>5, <2>6, <2>7, <2>8 DEF ProviderInv
<1>4. QED
    BY <1>2, <1>3

\* Nobody holds publishMu of a closed provider.
LEMMA HeldOpen ==
    ASSUME ProviderInv, NEW by \in {Expiry} \cup Caller, NEW step, Held(by, step)
    PROVE  ~closed /\ Settles /\ Publishes /\ Expires /\ by # Nobody
BY Holders DEF ProviderInv, Held, Shut, Free

\* Who lets publishMu go leaves a settled provider: the obligations of its holder end.
LEMMA ReleaseKeeps ==
    ASSUME publishMu' = Free, Types',
           ~closed' => Shows(snapshot)' /\ (available' <=> HoldsSample'),
           closed' => ~available', Ahead'
    PROVE  ProviderInv'
<1>1. publishMu'.by = Nobody /\ publishMu'.step = "none"
    BY DEF Free
<1>2. Holding' /\ Shut' /\ Publishes' /\ Expires'
    BY <1>1, Holders DEF Holding, Shut, Publishes, Expires
<1>3. ~closed' => Settles'
    BY DEF Settles
<1>4. QED
    BY <1>2, <1>3 DEF ProviderInv

\* A push writes the measurements of its sample or none.
LEMMA WriteSampleKeeps == ASSUME ProviderInv, NEW c \in Caller, WriteSample(c) PROVE ProviderInv'
<1>1. /\ Held(c, "write") /\ publishMu.by = c /\ publishMu.step = "write" /\ Types
      /\ UNCHANGED <<now, available, snapshot, version, timer, fired, closed, owed>>
    BY DEF ProviderInv, WriteSample, Held, storeVars
<1>2. ~closed /\ Settles /\ calls[c].step = "running"
    BY <1>1, HeldOpen, Holders DEF ProviderInv, Holding
<1>3. Ahead /\ publishMu'.by \in {c, Nobody} => Ahead'
    BY <1>1, Holders DEF Ahead, HoldsSample
<1>4. CASE wire' = Measurements(calls[c]) /\ Goto("announce") /\ UNCHANGED calls
  <2>1. publishMu' \in HolderType /\ publishMu'.by = c /\ publishMu'.step = "announce"
      BY <1>1, <1>4 DEF Goto, Types, HolderType
  <2>2. Types'
      BY <1>1, <1>4, <2>1 DEF Types
  <2>3. Holding' /\ Shut'
      BY <1>1, <1>2, <1>4, <2>1, Holders DEF Holding, Shut
  <2>4. Settles' /\ Publishes' /\ Expires'
      BY <1>4, <2>1, Holders DEF Settles, Publishes, Expires, Shows, Measurements
  <2>5. QED
      BY <1>3, <2>1, <2>2, <2>3, <2>4 DEF ProviderInv
<1>5. CASE publishMu' = Free /\ Finish(c, "failed") /\ UNCHANGED wire
  <2>1. calls' \in [Caller -> CallType]
      BY <1>1, <1>5, Answered
  <2>2. Types'
      BY <1>1, <1>5, <2>1, Nothing DEF Types
  <2>3. Shows(snapshot)' /\ (available' <=> HoldsSample')
      BY <1>1, <1>2, <1>5 DEF Settles, Shows, HoldsSample, Measurements
  <2>4. Ahead'
      BY <1>3, <1>5 DEF ProviderInv, Free
  <2>5. QED
      BY <1>1, <1>2, <1>5, <2>2, <2>3, <2>4, ReleaseKeeps
<1>6. QED
    BY <1>4, <1>5 DEF WriteSample

\* The peak power is no part of the sample.
LEMMA WritePeakKeeps == ASSUME ProviderInv, NEW c \in Caller, WritePeak(c) PROVE ProviderInv'
<1>1. /\ Held(c, "peak") /\ publishMu.by = c /\ publishMu.step = "peak" /\ Types /\ publishMu' = Free
      /\ UNCHANGED <<now, wire, available, snapshot, version, timer, fired, closed, owed>>
      /\ Finish(c, "ok") \/ Finish(c, "failed")
    BY DEF ProviderInv, WritePeak, Held, storeVars
<1>2. ~closed /\ Settles
    BY <1>1, HeldOpen
<1>3. calls' \in [Caller -> CallType]
    BY <1>1, Answered
<1>4. Types'
    BY <1>1, <1>3, Nothing DEF Types
<1>5. Shows(snapshot)' /\ (available' <=> HoldsSample')
    BY <1>1, <1>2 DEF Settles, Shows, HoldsSample, Measurements
<1>6. Ahead'
    BY <1>1, Holders DEF ProviderInv, Ahead, HoldsSample
<1>7. QED
    BY <1>1, <1>2, <1>4, <1>5, <1>6, ReleaseKeeps

\* A push advertises what it has written.
LEMMA AnnounceKeeps == ASSUME ProviderInv, NEW c \in Caller, Announce(c) PROVE ProviderInv'
<1>1. /\ Held(c, "announce") /\ publishMu.by = c /\ publishMu.step = "announce" /\ Types
      /\ UNCHANGED <<now, calls, wire, snapshot, version, timer, fired, closed, owed>>
      /\ available' = (calls[c].value # Invalid)
    BY DEF ProviderInv, Announce, Held, storeVars
<1>2. ~closed /\ Publishes /\ calls[c].step = "running"
    BY <1>1, HeldOpen, Holders DEF ProviderInv, Holding
<1>3. publishMu' \in HolderType /\ publishMu'.by = c /\ publishMu'.step = "store"
    BY <1>1 DEF Announce, Goto, Types, HolderType
<1>4. Types'
    BY <1>1, <1>3 DEF Types
<1>5. Holding' /\ Shut'
    BY <1>1, <1>2, <1>3, Holders DEF Holding, Shut
<1>6. Settles' /\ Publishes' /\ Expires'
    BY <1>1, <1>2, <1>3, Holders DEF Settles, Publishes, Expires, Shows, Measurements
<1>7. Ahead'
    BY <1>1, <1>3, Holders DEF ProviderInv, Ahead, HoldsSample
<1>8. QED
    BY <1>4, <1>5, <1>6, <1>7 DEF ProviderInv

\* A push stores what it has written and advertised, and arms its expiry.
LEMMA CommitKeeps == ASSUME ProviderInv, NEW c \in Caller, Commit(c) PROVE ProviderInv'
<1>1. /\ Held(c, "store") /\ publishMu.by = c /\ publishMu.step = "store" /\ Types /\ publishMu' = Free
      /\ UNCHANGED <<now, wire, available, fired, closed>> /\ owed' = TRUE
      /\ version' = version + 1 /\ Finish(c, "ok")
    BY DEF ProviderInv, Commit, Held, servedVars
<1>2. ~closed /\ wire = Measurements(calls[c]) /\ (available <=> calls[c].value # Invalid)
    BY <1>1, HeldOpen DEF Publishes, Shows
<1>3. calls' \in [Caller -> CallType] /\ calls[c] \in CallType /\ now \in Nat /\ version \in Nat
    BY <1>1, Answered DEF Types
<1>4. CASE calls[c].value = Invalid
  <2>1. snapshot' = NoSample /\ timer' = NoTimer
      BY <1>4 DEF Commit
  <2>2. Types'
      BY <1>1, <1>3, <2>1, Nothing DEF Types
  <2>3. Shows(snapshot)' /\ (available' <=> HoldsSample') /\ Ahead'
      BY <1>1, <1>2, <1>4, <2>1 DEF Shows, HoldsSample, Measurements, NoSample, Ahead
  <2>4. QED
      BY <1>1, <1>2, <2>2, <2>3, ReleaseKeeps
<1>5. CASE calls[c].value # Invalid
  <2>1. /\ snapshot' = [value |-> calls[c].value, has |-> calls[c].has, until |-> calls[c].until]
        /\ timer' = CommitTimer(c)
      BY <1>5 DEF Commit
  <2>2. snapshot' \in SampleType /\ timer' \in [version : Nat, delay : Nat]
      BY <1>3, <2>1 DEF CallType, SampleType, CommitTimer
  <2>3. Types'
      BY <1>1, <1>3, <2>2, Nothing DEF Types
  <2>4. Shows(snapshot)'
      BY <1>1, <1>2, <2>1 DEF Shows, Measurements
  <2>5. HoldsSample'
      BY <1>5, <2>1 DEF HoldsSample, NoSample
  <2>6. timer'.version = version' /\ (timer'.delay = 0 \/ now' + timer'.delay <= snapshot'.until)
      BY <1>1, <1>3, <2>1 DEF CommitTimer, CallType
  <2>7. Ahead'
      BY <2>6 DEF Ahead
  <2>8. QED
      BY <1>1, <1>2, <1>5, <2>3, <2>4, <2>5, <2>7, ReleaseKeeps
<1>6. QED
    BY <1>4, <1>5

\* A timer that fires leaves its callback waiting.
LEMMA FireKeeps == ASSUME ProviderInv, Fire PROVE ProviderInv'
<1>1. /\ Types /\ timer' = NoTimer /\ fired' = fired \cup {[version |-> timer.version, at |-> now]}
      /\ UNCHANGED <<now, calls, publishMu, wire, available, snapshot, version, closed, owed>>
    BY DEF ProviderInv, Fire, servedVars
<1>2. Types'
    BY <1>1, Nothing DEF Types
<1>3. Holding' /\ Shut'
    BY <1>1 DEF ProviderInv, Holding, Shut
<1>4. ~closed => Settles' /\ Publishes' /\ Expires'
    BY <1>1 DEF ProviderInv, Settles, Publishes, Expires, Shows, HoldsSample, Measurements
<1>5. [version |-> timer.version, at |-> now] \in fired' /\ fired \subseteq fired'
    BY <1>1
<1>6. timer.version = version => \E f \in fired' : f.version = version
    BY <1>5
<1>7. Ahead'
    BY <1>1, <1>5, <1>6 DEF ProviderInv, Ahead, HoldsSample
<1>8. QED
    BY <1>1, <1>2, <1>3, <1>4, <1>7 DEF ProviderInv

\* A callback that gets the lock begins an expiry only of the sample it was armed for.
LEMMA ExpireLockKeeps == ASSUME ProviderInv, NEW f \in fired, ExpireLock(f) PROVE ProviderInv'
<1>1. /\ Types /\ f \in [version : Nat, at : Nat] /\ publishMu = Free /\ fired' = fired \ {f}
      /\ publishMu.by = Nobody /\ publishMu.step = "none"
      /\ UNCHANGED <<now, calls, wire, available, snapshot, version, timer, closed>>
    BY DEF ProviderInv, Types, ExpireLock, servedVars, Free
<1>2. CASE ShouldExpire(f)
  <2>1. /\ publishMu' = [by |-> Expiry, step |-> "write", version |-> f.version, at |-> f.at]
        /\ UNCHANGED owed
      BY <1>2 DEF ExpireLock
  <2>2. ~closed /\ version = f.version /\ HoldsSample /\ snapshot.until <= f.at
      BY <1>2 DEF ShouldExpire, HoldsSample
  <2>3. publishMu' \in HolderType
      BY <1>1, <2>1 DEF HolderType
  <2>4. Types'
      BY <1>1, <2>1, <2>3 DEF Types
  <2>5. Holding' /\ Shut'
      BY <1>1, <2>1, <2>2, Holders DEF Holding, Shut
  <2>6. Settles' /\ Publishes' /\ Expires'
    <3>1. Settles'
        BY <1>1, <2>2 DEF ProviderInv, Settles, Shows, HoldsSample, Measurements
    <3>2. Publishes' /\ Expires'
        BY <1>1, <2>1, <2>2, Holders DEF Publishes, Expires, HoldsSample
    <3>3. QED
        BY <3>1, <3>2
  <2>7. Ahead'
      BY <1>1, <2>1, <2>2 DEF Ahead
  <2>8. QED
      BY <2>4, <2>5, <2>6, <2>7 DEF ProviderInv
<1>3. CASE ~ShouldExpire(f)
  <2>1. owed' = (owed /\ version # f.version) /\ UNCHANGED publishMu
      BY <1>3 DEF ExpireLock
  <2>2. Types'
      BY <1>1, <2>1 DEF Types
  <2>3. ~closed => Shows(snapshot)' /\ (available' <=> HoldsSample')
      BY <1>1 DEF ProviderInv, Settles, Shows, HoldsSample, Measurements
  <2>4. closed' => ~available'
      BY <1>1 DEF ProviderInv, Shut
  <2>5. Ahead'
      BY <1>1, <2>1, Holders DEF ProviderInv, Ahead, HoldsSample
  <2>6. QED
      BY <1>1, <2>1, <2>2, <2>3, <2>4, <2>5, ReleaseKeeps
<1>4. QED
    BY <1>2, <1>3

\* An expiry withdraws the measurements, or fails and is not tried again.
LEMMA ExpireWriteKeeps == ASSUME ProviderInv, ExpireWrite PROVE ProviderInv'
<1>1. /\ Types /\ Held(Expiry, "write") /\ publishMu.by = Expiry /\ publishMu.step = "write"
      /\ UNCHANGED <<now, calls, available, snapshot, version, timer, fired, closed>>
    BY DEF ProviderInv, ExpireWrite, Held
<1>2. ~closed /\ Settles /\ Expires
    BY <1>1, HeldOpen
<1>3. CASE wire' = Measurements(NoSample) /\ Goto("store") /\ UNCHANGED owed
  <2>1. /\ publishMu' \in HolderType /\ publishMu'.by = Expiry /\ publishMu'.step = "store"
        /\ publishMu'.version = publishMu.version
      BY <1>1, <1>3 DEF Goto, Types, HolderType
  <2>2. Types'
      BY <1>1, <1>3, <2>1 DEF Types
  <2>3. Holding' /\ Shut'
      BY <1>1, <1>2, <2>1, Holders DEF Holding, Shut
  <2>4. Settles' /\ Publishes' /\ Expires'
      BY <1>1, <1>2, <1>3, <2>1, Holders DEF Settles, Publishes, Expires, Shows, HoldsSample, Measurements
  <2>5. Ahead'
      BY <1>1, <1>3, <2>1 DEF ProviderInv, Ahead, HoldsSample
  <2>6. QED
      BY <2>2, <2>3, <2>4, <2>5 DEF ProviderInv
<1>4. CASE publishMu' = Free /\ owed' = FALSE /\ UNCHANGED wire
  <2>1. Types'
      BY <1>1, <1>4, Nothing DEF Types
  <2>2. Shows(snapshot)' /\ (available' <=> HoldsSample')
      BY <1>1, <1>2, <1>4 DEF Settles, Shows, HoldsSample, Measurements
  <2>3. Ahead'
      BY <1>4 DEF Ahead
  <2>4. QED
      BY <1>1, <1>2, <1>4, <2>1, <2>2, <2>3, ReleaseKeeps
<1>5. QED
    BY <1>3, <1>4 DEF ExpireWrite

\* An expiry empties the store: its sample is still the one it began with.
LEMMA ClearExpiredKeeps == ASSUME ProviderInv, ClearExpired PROVE ProviderInv'
<1>1. /\ Types /\ Held(Expiry, "store") /\ publishMu.by = Expiry /\ publishMu.step = "store"
      /\ UNCHANGED <<now, calls, wire, available, fired, closed, owed>>
    BY DEF ProviderInv, ClearExpired, Held, servedVars
<1>2. ~closed /\ Expires /\ HoldsSample /\ version = publishMu.version
    BY <1>1, HeldOpen DEF Expires
<1>3. snapshot' = NoSample /\ version' = version + 1 /\ timer' = NoTimer
    BY <1>2 DEF ClearExpired, HoldsSample
<1>4. publishMu' \in HolderType /\ publishMu'.by = Expiry /\ publishMu'.step = "announce"
    BY <1>1 DEF ClearExpired, Goto, Types, HolderType
<1>5. Types'
    BY <1>1, <1>3, <1>4, Nothing DEF Types
<1>6. Holding' /\ Shut'
    BY <1>1, <1>2, <1>4, Holders DEF Holding, Shut
<1>7. Settles' /\ Publishes' /\ Expires'
    BY <1>1, <1>2, <1>3, <1>4, Holders DEF Settles, Publishes, Expires, Shows, HoldsSample, Measurements
<1>8. Ahead'
    BY <1>3 DEF Ahead, HoldsSample
<1>9. QED
    BY <1>5, <1>6, <1>7, <1>8 DEF ProviderInv

\* An expiry ends with the use case unavailable.
LEMMA ExpireAnnounceKeeps == ASSUME ProviderInv, ExpireAnnounce PROVE ProviderInv'
<1>1. /\ Types /\ Held(Expiry, "announce") /\ publishMu.by = Expiry /\ publishMu.step = "announce"
      /\ publishMu' = Free /\ available' = FALSE
      /\ UNCHANGED <<now, calls, wire, snapshot, version, timer, fired, closed, owed>>
    BY DEF ProviderInv, ExpireAnnounce, Held, storeVars
<1>2. ~closed /\ Expires
    BY <1>1, HeldOpen
<1>3. Types'
    BY <1>1, Nothing DEF Types
<1>4. Shows(snapshot)' /\ ~HoldsSample'
    BY <1>1, <1>2 DEF Expires, Shows, HoldsSample, Measurements
<1>5. Ahead'
    BY <1>4 DEF Ahead
<1>6. QED
    BY <1>1, <1>2, <1>3, <1>4, <1>5, ReleaseKeeps

\* Close takes the sample back and says so.
LEMMA CloseKeeps == ASSUME ProviderInv, Close PROVE ProviderInv'
<1>1. /\ Types /\ publishMu' = Free /\ closed' = TRUE /\ available' = FALSE /\ version' = version + 1
      /\ snapshot' = NoSample /\ timer' = NoTimer
      /\ UNCHANGED <<now, calls, fired, owed>>
    BY DEF ProviderInv, Close
<1>2. version' \in Nat
    BY <1>1 DEF Types
<1>3. Types'
    BY <1>1, <1>2, Nothing DEF Types
<1>4. Ahead'
    BY <1>1 DEF Ahead, HoldsSample
<1>5. QED
    BY <1>1, <1>3, <1>4, ReleaseKeeps

\* The timer counts down with the clock.
LEMMA TickKeeps == ASSUME ProviderInv, Tick PROVE ProviderInv'
<1>1. /\ Types /\ now \in Nat /\ timer \in [version : Nat, delay : Nat] /\ now' = now + 1
      /\ timer' = [timer EXCEPT !.delay = IF @ = 0 THEN 0 ELSE @ - 1]
      /\ UNCHANGED <<calls, publishMu, wire, available, snapshot, version, fired, closed, owed>>
    BY DEF ProviderInv, Types, Tick, servedVars
<1>2. /\ timer' \in [version : Nat, delay : Nat] /\ timer'.version = timer.version
      /\ IF timer.delay = 0 THEN timer'.delay = 0 ELSE timer'.delay = timer.delay - 1
    BY <1>1
<1>3. Types'
    BY <1>1, <1>2 DEF Types
<1>4. Holding' /\ Shut'
    BY <1>1 DEF ProviderInv, Holding, Shut
<1>5. ~closed => Settles' /\ Publishes' /\ Expires'
    BY <1>1 DEF ProviderInv, Settles, Publishes, Expires, Shows, HoldsSample, Measurements
<1>6. timer.delay # 0 => now' + timer'.delay = now + timer.delay
    BY <1>1, <1>2
<1>7. Ahead'
    BY <1>1, <1>2, <1>6 DEF ProviderInv, Ahead, HoldsSample
<1>8. QED
    BY <1>1, <1>3, <1>4, <1>5, <1>7 DEF ProviderInv

-----------------------------------------------------------------------------
(* Home Assistant: it begins calls and forgets those that nobody works on. *)

Clients ==
    /\ sensor \in [Manager -> Value \cup {Unavailable}]
    /\ pushing \in [Manager -> Caller \cup {Nobody}]

ClientStep ==
    \/ UNCHANGED providerVars
    \/ \E c \in Caller :
        \/ \E value \in Value \cup {Invalid} : Send(c, value)
        \/ calls[c].step # "running" /\ (SendPeak(c) \/ Freed(c))

Client(m) ==
    \/ SensorChange(m) \/ PushBegin(m) \/ PushEnd(m) \/ GiveUp(m)
    \/ Replace(m) \/ StopPrevious(m) \/ Unload(m) \/ UnloadInvalidate(m)

\* No client touches the provider but through a call.
LEMMA ClientsCall ==
    ASSUME Clients, NEW m \in Manager, Client(m)
    PROVE  ClientStep /\ Clients'
<1>1. ASSUME NEW value \in Value \cup {Invalid}, StartCall(m, value)
      PROVE  ClientStep /\ (UNCHANGED sensor => Clients')
    BY <1>1 DEF StartCall, ClientStep, Clients
<1>2. ASSUME InvalidateUnlessDone(m), UNCHANGED sensor
      PROVE  ClientStep /\ Clients'
  <2>1. CASE StartCall(m, Invalid)
      BY <1>1, <1>2, <2>1
  <2>2. CASE UNCHANGED <<providerVars, pushing>>
      BY <1>2, <2>2 DEF ClientStep, Clients
  <2>3. QED
      BY <1>2, <2>1, <2>2 DEF InvalidateUnlessDone
<1>3. CASE SensorChange(m) \/ Replace(m)
  <2>1. UNCHANGED <<providerVars, pushing>>
      BY <1>3 DEF SensorChange, Replace
  <2>2. PICK k \in Manager, state \in Value \cup {Unavailable} : sensor' = [sensor EXCEPT ![k] = state]
      BY <1>3 DEF SensorChange, Replace
  <2>3. QED
      BY <2>1, <2>2 DEF ClientStep, Clients
<1>4. CASE StopPrevious(m) \/ Unload(m)
    BY <1>4 DEF StopPrevious, Unload, Cancel, ClientStep, Clients
<1>5. CASE PushBegin(m)
  <2>1. UNCHANGED sensor
      BY <1>5 DEF PushBegin
  <2>2. CASE sensor[m] = Unavailable
      BY <1>2, <1>5, <2>1, <2>2 DEF PushBegin
  <2>3. CASE sensor[m] # Unavailable
    <3>1. sensor[m] \in Value /\ StartCall(m, sensor[m])
        BY <1>5, <2>3 DEF PushBegin, Clients
    <3>2. QED
        BY <1>1, <2>1, <3>1
  <2>4. QED
      BY <2>2, <2>3
<1>6. CASE PushEnd(m)
  <2>1. /\ pushing[m] \in Caller /\ calls[pushing[m]].step # "running" /\ UNCHANGED sensor
        /\ \/ Freed(pushing[m]) /\ pushing' = [pushing EXCEPT ![m] = Nobody]
           \/ SendPeak(pushing[m]) /\ pushing' = [pushing EXCEPT ![m] = pushing[m]]
      BY <1>6 DEF PushEnd, PushPeak, Clients
  <2>2. QED
      BY <2>1 DEF ClientStep, Clients
<1>7. CASE GiveUp(m)
  <2>1. UNCHANGED sensor
      BY <1>7 DEF GiveUp
  <2>2. CASE UNCHANGED providerVars /\ pushing' = [pushing EXCEPT ![m] = Nobody]
      BY <2>1, <2>2 DEF ClientStep, Clients
  <2>3. ASSUME NEW c \in Caller, calls[c] = NoCall, SendPeak(c), pushing' = [pushing EXCEPT ![m] = c]
        PROVE  ClientStep /\ Clients'
    <3>1. calls[c].step # "running"
        BY <2>3 DEF NoCall
    <3>2. QED
        BY <2>1, <2>3, <3>1 DEF ClientStep, Clients
  <2>4. QED
      BY <1>7, <2>2, <2>3 DEF GiveUp, PushPeak
<1>8. CASE UnloadInvalidate(m)
    BY <1>2, <1>8 DEF UnloadInvalidate
<1>9. QED
    BY <1>3, <1>4, <1>5, <1>6, <1>7, <1>8 DEF Client

\* Nothing that a client does changes the provider.
LEMMA ClientsKeep == ASSUME ProviderInv, ClientStep PROVE ProviderInv'
<1>1. calls \in [Caller -> CallType] /\ now \in Nat
    BY DEF ProviderInv, Types
<1>2. CASE UNCHANGED providerVars
    BY <1>1, <1>2, CallsKeep DEF providerVars
<1>3. ASSUME NEW c \in Caller, NEW value \in Value \cup {Invalid}, Send(c, value) PROVE ProviderInv'
  <2>1. PICK has \in IF value = Invalid THEN {{}} ELSE SUBSET Optional :
            calls' = [calls EXCEPT ![c] = [step |-> "sent", value |-> value, has |-> has, until |-> now + TTL]]
      BY <1>3 DEF Send
  <2>2. has \in SUBSET (Optional \cup {"peak"}) /\ now + TTL \in Nat
      BY <1>1, <2>1, TTLAssumption
  <2>3. [step |-> "sent", value |-> value, has |-> has, until |-> now + TTL] \in CallType
      BY <2>2 DEF CallType
  <2>4. calls[c].step # "running" /\ UNCHANGED <<now, publishMu, servedVars, storeVars>>
      BY <1>3 DEF Send, NoCall
  <2>5. QED
      BY <1>1, <2>1, <2>3, <2>4, CallsKeep
<1>4. ASSUME NEW c \in Caller, calls[c].step # "running", SendPeak(c) \/ Freed(c) PROVE ProviderInv'
  <2>1. PICK call \in CallType : calls' = [calls EXCEPT ![c] = call]
      BY <1>4, Nothing DEF SendPeak, Freed, CallType
  <2>2. UNCHANGED <<now, publishMu, servedVars, storeVars>>
      BY <1>4 DEF SendPeak, Freed
  <2>3. QED
      BY <1>1, <1>4, <2>1, <2>2, CallsKeep
<1>5. QED
    BY <1>2, <1>3, <1>4 DEF ClientStep

-----------------------------------------------------------------------------

\* Every step keeps the invariant.
LEMMA ProviderStep ==
    ASSUME ProviderInv, Clients, [PushNext]_pushVars
    PROVE  ProviderInv' /\ Clients'
<1>1. CASE UNCHANGED pushVars
    BY <1>1, ClientsKeep DEF pushVars, haVars, ClientStep, Clients
<1>2. CASE Bridge
  <2>1. ASSUME NEW c \in Caller, Serve(c) PROVE ProviderInv'
      BY <2>1, ValidateKeeps, LockKeeps, WriteSampleKeeps, WritePeakKeeps, AnnounceKeeps, CommitKeeps
      DEF Serve
  <2>2. ASSUME NEW f \in fired, ExpireLock(f) PROVE ProviderInv'
      BY <2>2, ExpireLockKeeps
  <2>3. ProviderInv'
      BY <1>2, <2>1, <2>2, FireKeeps, ExpireWriteKeeps, ClearExpiredKeeps, ExpireAnnounceKeeps,
         CloseKeeps, TickKeeps
      DEF Bridge, BridgeNext
  <2>4. Clients'
      BY <1>2 DEF Bridge, haVars, Clients
  <2>5. QED
      BY <2>3, <2>4
<1>3. ASSUME NEW m \in Manager, Client(m) PROVE ProviderInv' /\ Clients'
    BY <1>3, ClientsCall, ClientsKeep
<1>4. ASSUME NEW c \in Caller, Forget(c) PROVE ProviderInv' /\ Clients'
  <2>1. calls[c].step # "running" /\ Freed(c) /\ UNCHANGED haVars
      BY <1>4 DEF Forget
  <2>2. ClientStep
      BY <2>1 DEF ClientStep
  <2>3. QED
      BY <2>1, <2>2, ClientsKeep DEF haVars, Clients
<1>5. QED
    BY <1>1, <1>2, <1>3, <1>4 DEF PushNext, Client

\* The inductive invariant holds of every reachable state.
THEOREM ProviderInvariant == PushSpec => [](ProviderInv /\ Clients)
<1>1. PushInit => ProviderInv /\ Clients
  <2>1. PushInit => Clients
      BY ManagerAssumption DEF PushInit, Clients
  <2>2. QED
      BY <2>1, ProviderInitial
<1>2. ProviderInv /\ Clients /\ [PushNext]_pushVars => (ProviderInv /\ Clients)'
    BY ProviderStep
<1>3. QED
    BY <1>1, <1>2, PTL DEF PushSpec

\* Between two holders of publishMu consumers read the sample that the store holds,
\* and the use case is advertised exactly when there is one.
THEOREM ServedSampleHeld == PushSpec => []ServedIsHeld
<1>1. ProviderInv => ServedIsHeld
  <2> SUFFICES ASSUME ProviderInv, publishMu = Free, ~closed
               PROVE  /\ \A q \in Quantity :
                             wire[q] = IF q \in {"power"} \cup snapshot.has THEN snapshot.value ELSE Invalid
                      /\ available <=> Diagnostics \in {"current", "expired"}
      BY DEF ServedIsHeld
  <2>1. Shows(snapshot) /\ (available <=> HoldsSample)
      BY DEF ProviderInv, Settles, Free
  <2>2. Diagnostics \in {"current", "expired"} <=> HoldsSample
      BY DEF Diagnostics, HoldsSample
  <2>3. QED
      BY <2>1, <2>2 DEF Shows, Measurements
<1>2. QED
    BY <1>1, ProviderInvariant, PTL

\* A sample whose expiry was not spoilt has it ahead.
THEOREM SampleExpires == PushSpec => []ExpiryAhead
<1>1. ProviderInv => ExpiryAhead
    BY Holders DEF ProviderInv, Ahead, HoldsSample, ExpiryAhead, Free
<1>2. QED
    BY <1>1, ProviderInvariant, PTL

\* An expiry withdraws only what had expired when its timer fired, however long its
\* callback waited for publishMu.
THEOREM ExpiryTakesExpired == PushSpec => OnlyExpiredTaken
<1>1. ProviderInv => [Held(Expiry, "write") /\ wire' # wire => snapshot.until <= publishMu.at]_providerVars
    BY HeldOpen DEF Held, Expires
<1>2. QED
    BY <1>1, ProviderInvariant, PTL DEF OnlyExpiredTaken

\* A closed provider is written and advertised no more: nobody holds publishMu of it,
\* and nobody gets it.
THEOREM ClosedIsSilent == PushSpec => SilentOnceClosed
<1>1. ASSUME ProviderInv, Clients, [PushNext]_pushVars, closed
      PROVE  UNCHANGED <<wire, peak>> /\ ~available'
  <2>1. publishMu.by = Nobody /\ ~available
      BY <1>1 DEF ProviderInv, Shut, Free
  <2>2. CASE ClientStep \/ UNCHANGED pushVars
      BY <2>1, <2>2 DEF ClientStep, Send, SendPeak, Freed, pushVars, providerVars, servedVars
  <2>3. CASE Bridge
    <3>1. ASSUME NEW c \in Caller, Serve(c) PROVE UNCHANGED <<wire, peak, available>>
        BY <2>1, <3>1, Holders
        DEF Serve, Validate, Lock, WriteSample, WritePeak, Announce, Commit, Held, servedVars
    <3>2. ASSUME NEW f \in fired, ExpireLock(f) PROVE UNCHANGED <<wire, peak, available>>
        BY <3>2 DEF ExpireLock, servedVars
    <3>3. CASE Fire \/ Tick
        BY <2>1, <3>3 DEF Fire, Tick, servedVars
    <3>4. ~(ExpireWrite \/ ClearExpired \/ ExpireAnnounce \/ Close)
        BY <1>1, <2>1, Holders DEF ExpireWrite, ClearExpired, ExpireAnnounce, Close, Held
    <3>5. QED
        BY <2>1, <2>3, <3>1, <3>2, <3>3, <3>4 DEF Bridge, BridgeNext
  <2>4. ASSUME NEW c \in Caller, Forget(c) PROVE ClientStep
      BY <2>4 DEF Forget, ClientStep
  <2>5. ASSUME NEW m \in Manager, Client(m) PROVE ClientStep
      BY <1>1, <2>5, ClientsCall
  <2>6. QED
      BY <1>1, <2>2, <2>3, <2>4, <2>5 DEF PushNext, Client
<1>2. ProviderInv /\ Clients /\ [PushNext]_pushVars
      => [closed => UNCHANGED <<wire, peak>> /\ ~available']_providerVars
    BY <1>1
<1>3. QED
    BY <1>2, ProviderInvariant, PTL DEF PushSpec, SilentOnceClosed

-----------------------------------------------------------------------------
(* The worker and what consumers read, unless disturbed.                   *)

\* The first manager is the only one, the call under way is the one it awaits, and once it
\* is unloaded its sensor counts no more.
Alone ==
    /\ \A m \in Manager \ {First} : manager[m] = "new" /\ pushing[m] = Nobody
    /\ manager[First] \in {"running", "stopping", "stopped"}
    /\ manager[First] # "running" => sensor[First] = Unavailable
    /\ \A c \in Caller : calls[c] # NoCall => pushing[First] = c

\* A call pushes a sample or the peak power.
Shapes ==
    /\ \A c \in Caller : "peak" \in calls[c].has => OfPeak(c)
    /\ publishMu.by \in Caller => (OfPeak(publishMu.by) <=> publishMu.step = "peak")

Wanted == IF sensor[First] = Unavailable THEN Invalid ELSE sensor[First]
Written(c) == calls[c].step = "ok" \/ (publishMu.by = c /\ publishMu.step \in {"announce", "store"})

\* A push that is under way has the sensor's value, unless the event is set again; what it
\* wrote is there, or expired.  Otherwise the latest push did so, and what it took back
\* nobody has written since.
Present ==
    LET c == pushing[First]
    IN  IF c # Nobody /\ ~OfPeak(c)
        THEN /\ ~dirty[First] => calls[c].value = Wanted
             /\ Written(c) => wire["power"] \in {Invalid, calls[c].value}
             /\ invalidated[First] /\ ~Written(c) => wire["power"] = Invalid
        ELSE /\ succeeded[First] /\ ~dirty[First] => wire["power"] \in {Invalid, Wanted}
             /\ invalidated[First] => wire["power"] = Invalid

WorkerTypes ==
    /\ dirty \in [Manager -> BOOLEAN] /\ succeeded \in [Manager -> BOOLEAN] /\ invalidated \in [Manager -> BOOLEAN]
    /\ manager \in [Manager -> {"new", "running", "replaced", "stopping", "stopped"}]
    /\ disturbed \in BOOLEAN

WorkerInv == WorkerTypes /\ (~disturbed => Alone /\ Shapes /\ Present)

LEMMA WorkerInitial == PushInit => WorkerInv
<1> SUFFICES ASSUME PushInit PROVE WorkerInv
    OBVIOUS
<1> USE DEF PushInit, ProviderInit
<1>1. First \in Manager /\ "power" \in Quantity
    BY ManagerAssumption DEF Quantity
<1>2. WorkerTypes
    BY <1>1 DEF WorkerTypes
<1>3. Alone /\ Shapes /\ Present
    BY <1>1, Holders DEF Alone, Shapes, Present, OfPeak, NoCall, Free
<1>4. QED
    BY <1>2, <1>3 DEF WorkerInv

\* While there is one call, it is the one that holds publishMu.
LEMMA TheCall ==
    ASSUME ProviderInv, Clients, Alone, NEW c \in Caller, calls[c].step # "idle"
    PROVE  /\ pushing[First] = c /\ c # Nobody
           /\ \A d \in Caller \ {c} : calls[d] = NoCall
           /\ publishMu.by \in Caller => publishMu.by = c
<1>1. \A d \in Caller : calls[d] # NoCall => d = pushing[First]
    BY DEF Alone
<1>2. calls[c] # NoCall
    BY DEF NoCall
<1>3. publishMu.by \in Caller => calls[publishMu.by] # NoCall
    BY DEF ProviderInv, Holding, NoCall
<1>4. QED
    BY <1>1, <1>2, <1>3, Holders

\* The call goes on in the bridge.
LEMMA CallAdvances ==
    ASSUME ProviderInv, Clients, WorkerInv, UNCHANGED haVars, NEW c \in Caller, ~disturbed,
           calls[c].step # "idle", \A d \in Caller \ {c} : calls'[d] = calls[d],
           calls'[c].value = calls[c].value, calls'[c].has \in {calls[c].has, calls[c].has \cap {"peak"}},
           publishMu'.by \in Caller => publishMu'.by = c /\ (OfPeak(c) <=> publishMu'.step = "peak"),
           OfPeak(c) => UNCHANGED wire,
           ~OfPeak(c) /\ Written(c)' => wire'["power"] = calls[c].value \/ (Written(c) /\ UNCHANGED wire),
           ~Written(c)' => ~Written(c) /\ UNCHANGED wire
    PROVE  WorkerInv'
<1> USE DEF haVars
<1>1. Alone /\ Shapes /\ Present
    BY DEF WorkerInv
<1>2. pushing[First] = c /\ c # Nobody /\ \A d \in Caller \ {c} : calls[d] = NoCall
    BY <1>1, TheCall
<1>3. OfPeak(c)' = OfPeak(c) /\ ("peak" \in calls'[c].has => OfPeak(c)')
    BY <1>1 DEF Shapes, OfPeak
<1>4. Alone'
    BY <1>1, <1>2 DEF Alone
<1>5. Shapes'
    BY <1>1, <1>2, <1>3 DEF Shapes, OfPeak, NoCall
<1>6. Present'
  <2>1. CASE OfPeak(c)
      BY <1>1, <1>2, <1>3, <2>1 DEF Present, Wanted
  <2>2. CASE ~OfPeak(c)
    <3>1. /\ ~dirty[First] => calls'[c].value = Wanted
          /\ Written(c) => wire["power"] \in {Invalid, calls[c].value}
          /\ invalidated[First] /\ ~Written(c) => wire["power"] = Invalid
        BY <1>1, <1>2, <2>2 DEF Present
    <3>2. /\ Written(c)' => wire'["power"] \in {Invalid, calls'[c].value}
          /\ invalidated[First] /\ ~Written(c)' => wire'["power"] = Invalid
        BY <2>2, <3>1
    <3>3. QED
        BY <1>2, <1>3, <2>2, <3>1, <3>2 DEF Present, Wanted
  <2>3. QED
      BY <2>1, <2>2
<1>7. QED
    BY <1>4, <1>5, <1>6 DEF WorkerInv, WorkerTypes

\* The bridge works on without a call: it takes back what it serves, at most.
LEMMA BridgeAlone ==
    ASSUME ProviderInv, Clients, WorkerInv, UNCHANGED haVars, UNCHANGED calls,
           wire'["power"] \in {wire["power"], Invalid},
           publishMu' = publishMu \/ (publishMu.by \notin Caller /\ publishMu'.by \notin Caller)
    PROVE  WorkerInv'
<1> USE DEF haVars
<1>1. CASE disturbed
    BY <1>1 DEF WorkerInv, WorkerTypes
<1>2. CASE ~disturbed
  <2>1. Alone /\ Shapes /\ Present
      BY <1>2 DEF WorkerInv
  <2>2. \A c \in Caller : Written(c)' = Written(c) /\ OfPeak(c)' = OfPeak(c)
      BY DEF Written, OfPeak
  <2>3. Alone' /\ Shapes'
      BY <2>1, <2>2 DEF Alone, Shapes, OfPeak
  <2>4. pushing[First] \in Caller \cup {Nobody}
      BY ManagerAssumption DEF Clients
  <2>5. Present'
    <3> DEFINE c == pushing[First]
    <3>1. CASE c \in Caller /\ ~OfPeak(c)
        BY <2>1, <2>2, <3>1, Holders DEF Present, Wanted
    <3>2. CASE c = Nobody \/ (c \in Caller /\ OfPeak(c))
        BY <2>1, <2>2, <3>2, Holders DEF Present, Wanted
    <3>3. QED
        BY <2>4, <3>1, <3>2
  <2>6. QED
      BY <2>3, <2>5 DEF WorkerInv, WorkerTypes
<1>3. QED
    BY <1>1, <1>2

LEMMA BridgeKeepsWorker == ASSUME ProviderInv, Clients, WorkerInv, Bridge PROVE WorkerInv'
<1> USE DEF Bridge
<1>1. ASSUME NEW c \in Caller, Serve(c), ~disturbed PROVE WorkerInv'
  <2>1. calls \in [Caller -> CallType] /\ Alone /\ Shapes
      BY <1>1 DEF ProviderInv, Types, WorkerInv
  <2>2. publishMu.by = c => calls[c].step = "running"
      BY DEF ProviderInv, Holding
  <2>3. Nobody # c /\ Free.by = Nobody
      BY Holders DEF Free
  <2>4. CASE Validate(c)
    <3>1. calls[c].step = "sent" /\ UNCHANGED <<publishMu, wire>> /\ (Answer(c, "valid") \/ Finish(c, "failed"))
        BY <2>4 DEF Validate, servedVars
    <3>2. calls'[c].value = calls[c].value /\ calls'[c].has \in {calls[c].has, calls[c].has \cap {"peak"}}
          /\ calls'[c].step \in {"valid", "failed"} /\ \A d \in Caller \ {c} : calls'[d] = calls[d]
        BY <2>1, <3>1 DEF Answer, Finish, CallType
    <3>3. publishMu.by \notin Caller
        BY <2>1, <2>2, <3>1, TheCall
    <3>4. ~Written(c) /\ ~Written(c)'
        BY <3>1, <3>2, <3>3 DEF Written
    <3>5. QED
        BY <1>1, <3>1, <3>2, <3>3, <3>4, CallAdvances
  <2>5. CASE Lock(c)
    <3>1. calls[c].step = "valid" /\ publishMu = Free /\ UNCHANGED wire
          /\ \/ Finish(c, "failed") /\ UNCHANGED publishMu
             \/ Answer(c, "running") /\ publishMu'.by = c /\ publishMu'.step = (IF OfPeak(c) THEN "peak" ELSE "write")
        BY <2>5 DEF Lock, servedVars, OfPeak
    <3>2. calls'[c].value = calls[c].value /\ calls'[c].has \in {calls[c].has, calls[c].has \cap {"peak"}}
          /\ calls'[c].step \in {"running", "failed"} /\ \A d \in Caller \ {c} : calls'[d] = calls[d]
        BY <2>1, <3>1 DEF Answer, Finish, CallType
    <3>3. ~Written(c) /\ ~Written(c)'
        BY <2>3, <3>1, <3>2 DEF Written
    <3>4. publishMu'.by \in Caller => publishMu'.by = c /\ (OfPeak(c) <=> publishMu'.step = "peak")
        BY <3>1, Holders DEF Free
    <3>5. QED
        BY <1>1, <3>1, <3>2, <3>3, <3>4, CallAdvances
  <2>6. CASE Held(c, "write") \/ Held(c, "peak") \/ Held(c, "announce") \/ Held(c, "store")
    <3>1. calls[c].step = "running" /\ publishMu.by = c /\ (OfPeak(c) <=> publishMu.step = "peak")
        BY <2>1, <2>2, <2>6 DEF Held, Shapes
    <3>2. publishMu.step \in {"announce", "store"} <=> Written(c)
        BY <3>1 DEF Written
    <3>3. ASSUME NEW step \in {"ok", "failed"}, Finish(c, step)
          PROVE  calls'[c].value = calls[c].value /\ calls'[c].has = calls[c].has \cap {"peak"}
                 /\ calls'[c].step = step /\ \A d \in Caller \ {c} : calls'[d] = calls[d]
        BY <2>1, <3>3 DEF Finish, CallType
    <3>4. ASSUME NEW step \in {"announce", "store"}, Goto(step)
          PROVE  publishMu'.by = c /\ publishMu'.step = step
        BY <3>1, <3>4 DEF Goto, ProviderInv, Types, HolderType
    <3>5. CASE WriteSample(c)
      <4>1. ~OfPeak(c) /\ ~Written(c)
          BY <3>1, <3>2, <3>5 DEF WriteSample, Held
      <4>2. CASE wire' = Measurements(calls[c]) /\ Goto("announce") /\ UNCHANGED calls
        <5>1. wire'["power"] = calls[c].value
            BY <4>2 DEF Measurements, Quantity
        <5>2. publishMu'.by = c /\ publishMu'.step = "announce"
            BY <3>4, <4>2
        <5>3. Written(c)'
            BY <5>2 DEF Written
        <5>4. QED
            BY <1>1, <3>1, <4>1, <4>2, <5>1, <5>2, <5>3, CallAdvances
      <4>3. CASE publishMu' = Free /\ Finish(c, "failed") /\ UNCHANGED wire
        <5>1. calls'[c].value = calls[c].value /\ calls'[c].has = calls[c].has \cap {"peak"}
              /\ calls'[c].step = "failed" /\ \A d \in Caller \ {c} : calls'[d] = calls[d]
            BY <3>3, <4>3
        <5>2. ~Written(c)'
            BY <2>3, <4>3, <5>1 DEF Written
        <5>3. publishMu'.by \notin Caller
            BY <4>3, Holders DEF Free
        <5>4. QED
            BY <1>1, <3>1, <4>1, <4>3, <5>1, <5>2, <5>3, CallAdvances
      <4>4. QED
          BY <3>5, <4>2, <4>3 DEF WriteSample
    <3>6. CASE WritePeak(c)
      <4>1. OfPeak(c) /\ ~Written(c) /\ UNCHANGED wire /\ publishMu' = Free
          BY <3>1, <3>2, <3>6 DEF WritePeak, Held
      <4>2. \E step \in {"ok", "failed"} : Finish(c, step)
          BY <3>6 DEF WritePeak
      <4>3. calls'[c].value = calls[c].value /\ calls'[c].has = calls[c].has \cap {"peak"}
            /\ \A d \in Caller \ {c} : calls'[d] = calls[d]
          BY <3>3, <4>2
      <4>4. publishMu'.by \notin Caller
          BY <4>1, Holders DEF Free
      <4>5. QED
          BY <1>1, <3>1, <4>1, <4>3, <4>4, CallAdvances
    <3>7. CASE Announce(c)
      <4>1. publishMu.step = "announce" /\ UNCHANGED <<calls, wire>> /\ Goto("store")
          BY <3>7 DEF Announce, Held
      <4>2. publishMu'.by = c /\ publishMu'.step = "store"
          BY <3>4, <4>1
      <4>3. Written(c) /\ Written(c)' /\ ~OfPeak(c)
          BY <3>1, <3>2, <4>1, <4>2 DEF Written
      <4>4. QED
          BY <1>1, <3>1, <4>1, <4>2, <4>3, CallAdvances
    <3>8. CASE Commit(c)
      <4>1. publishMu.step = "store" /\ UNCHANGED wire /\ Finish(c, "ok") /\ publishMu' = Free
          BY <3>8 DEF Commit, Held, servedVars
      <4>2. calls'[c].value = calls[c].value /\ calls'[c].has = calls[c].has \cap {"peak"}
            /\ calls'[c].step = "ok" /\ \A d \in Caller \ {c} : calls'[d] = calls[d]
          BY <3>3, <4>1
      <4>3. Written(c) /\ Written(c)' /\ ~OfPeak(c) /\ publishMu'.by \notin Caller
          BY <3>1, <3>2, <4>1, <4>2, Holders DEF Written, Free
      <4>4. QED
          BY <1>1, <3>1, <4>1, <4>2, <4>3, CallAdvances
    <3>9. QED
        BY <1>1, <3>5, <3>6, <3>7, <3>8, <3>1 DEF Serve, Validate, Lock, Free
  <2>7. QED
      BY <1>1, <2>4, <2>5, <2>6 DEF Serve, WriteSample, WritePeak, Announce, Commit
<1>2. ASSUME NEW c \in Caller, Serve(c), disturbed PROVE WorkerInv'
    BY <1>2 DEF WorkerInv, WorkerTypes, haVars
<1>3. CASE ExpireWrite
  <2>1. publishMu.by = Expiry /\ UNCHANGED calls
      BY <1>3 DEF ExpireWrite, Held
  <2>2. wire' = Measurements(NoSample) \/ UNCHANGED wire
      BY <1>3 DEF ExpireWrite
  <2>3. wire'["power"] \in {wire["power"], Invalid}
      BY <2>2 DEF Measurements, Quantity, NoSample
  <2>4. publishMu'.by \notin Caller
      BY <1>3, <2>1, Holders DEF ExpireWrite, Goto, Free, ProviderInv, Types, HolderType
  <2>5. QED
      BY <2>1, <2>3, <2>4, Holders, BridgeAlone
<1>4. ASSUME NEW f \in fired, ExpireLock(f) PROVE WorkerInv'
  <2>1. publishMu = Free /\ (publishMu' = publishMu \/ publishMu'.by = Expiry)
      BY <1>4 DEF ExpireLock
  <2>2. publishMu.by \notin Caller /\ publishMu'.by \notin Caller
      BY <1>4, <2>1, Holders DEF ExpireLock, Free
  <2>3. QED
      BY <1>4, <2>2, BridgeAlone DEF ExpireLock, servedVars
<1>5. CASE ClearExpired \/ ExpireAnnounce
  <2>1. publishMu.by = Expiry /\ UNCHANGED <<calls, wire>>
      BY <1>5 DEF ClearExpired, ExpireAnnounce, Held, servedVars
  <2>2. publishMu'.by \notin Caller
      BY <1>5, <2>1, Holders DEF ClearExpired, ExpireAnnounce, Goto, Free, ProviderInv, Types, HolderType
  <2>3. QED
      BY <2>1, <2>2, Holders, BridgeAlone
<1>6. CASE Fire \/ Close \/ Tick
    BY <1>6, BridgeAlone DEF Fire, Close, Tick, servedVars
<1>7. QED
    BY <1>1, <1>2, <1>3, <1>4, <1>5, <1>6 DEF BridgeNext

-----------------------------------------------------------------------------

\* A sample is sent while no call is under way; it is the sensor's value if the event is
\* cleared.
LEMMA SendsWanted ==
    ASSUME ProviderInv, Clients, WorkerInv, ~disturbed, NEW value \in Value \cup {Invalid},
           pushing[First] = Nobody, StartCall(First, value),
           ~dirty'[First] => value = Wanted', UNCHANGED <<sensor, invalidated, disturbed>>,
           WorkerTypes', manager' = manager
    PROVE  WorkerInv'
<1>1. Alone /\ Shapes /\ Present /\ First \in Manager
    BY ManagerAssumption DEF WorkerInv
<1>2. PICK c \in Caller : Send(c, value) /\ pushing' = [pushing EXCEPT ![First] = c]
    BY DEF StartCall
<1>3. pushing'[First] = c /\ c # Nobody /\ \A m \in Manager \ {First} : pushing'[m] = pushing[m]
    BY <1>1, <1>2, Holders DEF Clients
<1>4. \A d \in Caller : calls[d] = NoCall
    BY <1>1, Holders DEF Alone
<1>5. PICK has \in SUBSET Optional :
          calls' = [calls EXCEPT ![c] = [step |-> "sent", value |-> value, has |-> has, until |-> now + TTL]]
  <2>1. PICK has \in IF value = Invalid THEN {{}} ELSE SUBSET Optional :
            calls' = [calls EXCEPT ![c] = [step |-> "sent", value |-> value, has |-> has, until |-> now + TTL]]
      BY <1>2 DEF Send
  <2>2. has \in SUBSET Optional
      BY <2>1
  <2>3. QED
      BY <2>1, <2>2
<1>6. /\ calls'[c].step = "sent" /\ calls'[c].value = value /\ calls'[c].has = has
      /\ \A d \in Caller \ {c} : calls'[d] = NoCall
    BY <1>4, <1>5 DEF ProviderInv, Types
<1>7. "peak" \notin has
    BY <1>5, KindAssumption DEF Optional, GridOptional, PVOptional, BatteryOptional
<1>8. UNCHANGED <<publishMu, wire>> /\ publishMu.by \notin Caller
  <2>1. \A d \in Caller : calls[d].step # "running"
      BY <1>4 DEF NoCall
  <2>2. QED
      BY <1>2, <2>1 DEF Send, servedVars, ProviderInv, Holding
<1>9. ~OfPeak(c)' /\ ~Written(c)'
    BY <1>6, <1>7, <1>8 DEF OfPeak, Written
<1>10. Alone'
    BY <1>1, <1>3, <1>6 DEF Alone
<1>11. Shapes'
    BY <1>6, <1>7, <1>8 DEF Shapes, OfPeak, NoCall
<1>12. invalidated[First] => wire["power"] = Invalid
    BY <1>1 DEF Present
<1>13. Present'
    BY <1>3, <1>6, <1>8, <1>9, <1>12 DEF Present
<1>14. QED
    BY <1>10, <1>11, <1>13 DEF WorkerInv

\* The sensor changes, and the event is set.
LEMMA SensorChangeWorks == ASSUME Clients, WorkerInv, NEW m \in Manager, SensorChange(m) PROVE WorkerInv'
<1> USE DEF SensorChange, providerVars, servedVars
<1>1. WorkerTypes'
    BY DEF WorkerInv, WorkerTypes
<1>2. CASE disturbed
    BY <1>1, <1>2 DEF WorkerInv
<1>3. CASE ~disturbed
  <2>1. Alone /\ Shapes /\ Present
      BY <1>3 DEF WorkerInv
  <2>2. m = First
      BY <2>1 DEF Alone, Working
  <2>3. dirty'[First] /\ \A c \in Caller : Written(c)' = Written(c) /\ OfPeak(c)' = OfPeak(c)
      BY <2>2 DEF WorkerInv, WorkerTypes, Written, OfPeak
  <2>4. Alone' /\ Shapes'
    <3>1. manager[First] = "running"
        BY <2>1, <2>2 DEF Alone, Working
    <3>2. QED
        BY <2>1, <3>1 DEF Alone, Shapes, OfPeak
  <2>5. pushing[First] \in Caller \cup {Nobody}
      BY <2>2 DEF Clients
  <2>6. Present'
      BY <2>1, <2>3, <2>5 DEF Present
  <2>7. QED
      BY <1>1, <2>4, <2>6 DEF WorkerInv
<1>4. QED
    BY <1>2, <1>3

\* An invalidation is sent, or saved, or not possible, of a sensor that is unavailable.
LEMMA InvalidatesWanted ==
    ASSUME ProviderInv, Clients, WorkerInv, ~disturbed, pushing[First] = Nobody, InvalidateUnlessDone(First),
           sensor[First] = Unavailable, UNCHANGED <<sensor, invalidated, disturbed>>,
           dirty' \in [Manager -> BOOLEAN],
           manager' = manager
               \/ (pushing' = pushing /\ manager' = [manager EXCEPT ![First] = "stopped"])
    PROVE  WorkerInv'
<1>1. Alone /\ Shapes /\ Present /\ First \in Manager
    BY ManagerAssumption DEF WorkerInv
<1>2. WorkerTypes'
    BY <1>1 DEF WorkerInv, WorkerTypes, InvalidateUnlessDone
<1>3. Wanted' = Invalid
    BY DEF Wanted
<1>4. CASE UNCHANGED <<providerVars, pushing>> /\ (~succeeded'[First] \/ invalidated[First])
  <2>1. /\ manager'[First] \in {"running", "stopping", "stopped"}
        /\ \A m \in Manager \ {First} : manager'[m] = manager[m]
      BY <1>1 DEF WorkerInv, WorkerTypes, Alone
  <2>2. Alone' /\ Shapes'
      BY <1>1, <1>4, <2>1 DEF Alone, Shapes, OfPeak, providerVars
  <2>3. Present'
      BY <1>1, <1>4 DEF Present, providerVars, servedVars
  <2>4. QED
      BY <1>2, <2>2, <2>3 DEF WorkerInv
<1>5. CASE StartCall(First, Invalid)
  <2>1. pushing' # pushing
      BY <1>1, <1>5, Holders DEF StartCall, Clients
  <2>2. QED
      BY <1>2, <1>3, <1>5, <2>1, SendsWanted
<1>6. QED
  <2>1. succeeded' = [succeeded EXCEPT ![First] = FALSE] => ~succeeded'[First]
      BY <1>1 DEF WorkerInv, WorkerTypes
  <2>2. QED
      BY <1>4, <1>5, <2>1 DEF InvalidateUnlessDone

LEMMA PushBeginWorks ==
    ASSUME ProviderInv, Clients, WorkerInv, NEW m \in Manager, PushBegin(m)
    PROVE  WorkerInv'
<1> USE DEF PushBegin, Undirtied
<1>1. dirty' \in [Manager -> BOOLEAN] /\ ~dirty'[m]
    BY DEF WorkerInv, WorkerTypes
<1>2. succeeded' \in [Manager -> BOOLEAN]
    BY DEF WorkerInv, WorkerTypes, InvalidateUnlessDone
<1>3. WorkerTypes'
    BY <1>1, <1>2 DEF WorkerInv, WorkerTypes
<1>4. CASE disturbed
    BY <1>3, <1>4 DEF WorkerInv
<1>5. CASE ~disturbed
  <2>1. m = First
      BY <1>5 DEF WorkerInv, Alone, Working
  <2>2. CASE sensor[m] = Unavailable
      BY <1>1, <1>5, <2>1, <2>2, InvalidatesWanted
  <2>3. CASE sensor[m] # Unavailable
    <3>1. sensor[m] \in Value /\ Wanted' = sensor[m] /\ StartCall(m, sensor[m])
        BY <2>1, <2>3 DEF Clients, Wanted
    <3>2. QED
        BY <1>3, <1>5, <2>1, <3>1, SendsWanted
  <2>4. QED
      BY <2>2, <2>3
<1>6. QED
    BY <1>4, <1>5

\* The answer comes: of a sample that was taken over, or of one that was not written.
LEMMA PushEndWorks ==
    ASSUME ProviderInv, Clients, WorkerInv, NEW m \in Manager, PushEnd(m)
    PROVE  WorkerInv'
<1> DEFINE c == pushing[m]
<1>1. c \in Caller /\ c # Nobody /\ calls \in [Caller -> CallType] /\ calls[c].step \in {"ok", "failed"}
    BY DEF PushEnd, Clients, ProviderInv, Types
<1>2. UNCHANGED <<sensor, dirty, disturbed, publishMu, wire>>
    BY DEF PushEnd, PushEndDirty, Freed, PushPeak, SendPeak, servedVars
<1>3. WorkerTypes'
  <2>1. manager' \in [Manager -> {"new", "running", "replaced", "stopping", "stopped"}]
      BY DEF WorkerInv, WorkerTypes, PushEnd, Stopped, PushPeak
  <2>2. succeeded' \in [Manager -> BOOLEAN] /\ invalidated' \in [Manager -> BOOLEAN]
    <3>1. CASE UNCHANGED <<succeeded, invalidated>>
        BY <3>1 DEF WorkerInv, WorkerTypes
    <3>2. CASE SampleEnd(m, c)
      <4>1. (calls[c].step = "ok") \in BOOLEAN /\ (calls[c].value = Invalid) \in BOOLEAN
          OBVIOUS
      <4>2. succeeded' = [succeeded EXCEPT ![m] = calls[c].step = "ok"]
            /\ (invalidated' = [invalidated EXCEPT ![m] = calls[c].value = Invalid] \/ invalidated' = invalidated)
          BY <3>2 DEF SampleEnd, WorkerInv, WorkerTypes
      <4>3. QED
          BY <4>1, <4>2 DEF WorkerInv, WorkerTypes
    <3>3. QED
        BY <3>1, <3>2 DEF PushEnd
  <2>3. QED
      BY <1>2, <2>1, <2>2 DEF WorkerInv, WorkerTypes
<1>4. CASE disturbed
    BY <1>2, <1>3, <1>4 DEF WorkerInv
<1>5. CASE ~disturbed
  <2>1. Alone /\ Shapes /\ Present
      BY <1>5 DEF WorkerInv
  <2>2. m = First
      BY <1>1, <2>1 DEF Alone
  <2>3. \A d \in Caller \ {c} : calls[d] = NoCall
      BY <1>1, <2>1, TheCall
  <2>4. publishMu.by \notin Caller
      BY <1>1, <2>1, TheCall DEF ProviderInv, Holding
  <2>5. /\ succeeded'[First] /\ ~dirty[First] => wire["power"] \in {Invalid, Wanted}
        /\ invalidated'[First] => wire["power"] = Invalid
    <3>1. CASE OfPeak(c)
        BY <1>1, <2>1, <2>2, <3>1 DEF PushEnd, Present
    <3>2. CASE ~OfPeak(c)
      <4>1. SampleEnd(m, c)
          BY <3>2 DEF PushEnd
      <4>2. /\ ~dirty[First] => calls[c].value = Wanted
            /\ Written(c) => wire["power"] \in {Invalid, calls[c].value}
            /\ invalidated[First] /\ ~Written(c) => wire["power"] = Invalid
          BY <1>1, <2>1, <2>2, <3>2 DEF Present
      <4>3. CASE calls[c].step = "ok"
        <5>1. Written(c)
            BY <4>3 DEF Written
        <5>2. invalidated'[First] <=> calls[c].value = Invalid
            BY <2>2, <4>1, <4>3 DEF SampleEnd, WorkerInv, WorkerTypes
        <5>3. QED
            BY <4>2, <5>1, <5>2
      <4>4. CASE calls[c].step # "ok"
        <5>1. ~Written(c)
            BY <1>1, <2>4, <4>4 DEF Written
        <5>2. invalidated'[First] = invalidated[First] /\ ~succeeded'[First]
            BY <2>2, <4>1, <4>4 DEF SampleEnd, WorkerInv, WorkerTypes
        <5>3. QED
            BY <4>2, <5>1, <5>2
      <4>5. QED
          BY <4>3, <4>4
    <3>3. QED
        BY <3>1, <3>2
  <2>6. CASE Freed(c) /\ pushing' = [pushing EXCEPT ![m] = Nobody] /\ Stopped(m)
    <3>1. \A d \in Caller : calls'[d] = NoCall
        BY <1>1, <2>3, <2>6 DEF Freed
    <3>2. pushing'[First] = Nobody /\ \A k \in Manager \ {First} : pushing'[k] = pushing[k]
        BY <2>2, <2>6 DEF Clients
    <3>3. /\ manager'[First] \in {"running", "stopping", "stopped"}
          /\ \A k \in Manager \ {First} : manager'[k] = manager[k]
        BY <2>1, <2>2, <2>6 DEF Stopped, Alone, WorkerInv, WorkerTypes
    <3>4. Alone'
      <4>1. manager'[First] # "running" => manager[First] # "running"
          BY <2>2, <2>6 DEF Stopped, WorkerInv, WorkerTypes
      <4>2. QED
          BY <1>2, <2>1, <3>1, <3>2, <3>3, <4>1 DEF Alone
    <3>5. Shapes'
        BY <1>2, <2>4, <3>1 DEF Shapes, OfPeak, NoCall
    <3>6. Present'
        BY <1>2, <2>5, <3>2 DEF Present, Wanted
    <3>7. QED
        BY <1>3, <3>4, <3>5, <3>6 DEF WorkerInv
  <2>7. CASE PushPeak(m, c, calls[c].value)
    <3>1. /\ calls' = [calls EXCEPT ![c] = [step |-> "sent", value |-> Invalid, has |-> {"peak"}, until |-> 0]]
          /\ pushing' = [pushing EXCEPT ![m] = c] /\ manager' = manager
        BY <2>7 DEF PushPeak, SendPeak
    <3>2. calls'[c].has = {"peak"} /\ \A d \in Caller \ {c} : calls'[d] = NoCall
        BY <1>1, <2>3, <3>1
    <3>3. pushing' = pushing
        BY <3>1 DEF Clients
    <3>4. Alone'
        BY <1>2, <2>1, <2>2, <3>1, <3>2, <3>3 DEF Alone
    <3>5. Shapes'
        BY <1>2, <2>4, <3>2 DEF Shapes, OfPeak, NoCall
    <3>6. Present'
        BY <1>2, <2>2, <2>5, <3>2, <3>3 DEF Present, Wanted, OfPeak
    <3>7. QED
        BY <1>3, <3>4, <3>5, <3>6 DEF WorkerInv
  <2>8. QED
      BY <2>6, <2>7 DEF PushEnd
<1>6. QED
    BY <1>4, <1>5

\* A call is given up, or a second manager starts: nothing more is said of the worker.
LEMMA DisturbedWorks ==
    ASSUME WorkerInv, NEW m \in Manager, GiveUp(m) \/ Replace(m)
    PROVE  WorkerInv'
<1>1. disturbed' = TRUE
    BY DEF GiveUp, Replace, Dropped, WorkerInv, WorkerTypes
<1>2. CASE GiveUp(m)
  <2>1. succeeded' = [succeeded EXCEPT ![m] = FALSE] /\ UNCHANGED <<dirty, invalidated>>
      BY <1>2 DEF GiveUp, Dropped
  <2>2. manager' \in [Manager -> {"new", "running", "replaced", "stopping", "stopped"}]
      BY <1>2 DEF GiveUp, Stopped, PushPeak, WorkerInv, WorkerTypes
  <2>3. QED
      BY <1>1, <2>1, <2>2 DEF WorkerInv, WorkerTypes
<1>3. CASE Replace(m)
    BY <1>1, <1>3 DEF Replace, WorkerInv, WorkerTypes
<1>4. QED
    BY <1>2, <1>3

\* A worker that is cancelled while it awaits nothing leaves what it pushed.
LEMMA CancelWorks ==
    ASSUME Clients, WorkerInv, NEW m \in Manager, StopPrevious(m) \/ Unload(m)
    PROVE  WorkerInv'
<1>1. /\ Cancel(m) /\ manager[m] \in {"replaced", "running"}
      /\ \/ manager' = [manager EXCEPT ![m] = "stopping"] /\ manager[m] = "running"
         \/ manager' = [manager EXCEPT ![m] = "stopped"] /\ manager[m] = "replaced"
    BY DEF StopPrevious, Unload
<1>2. /\ disturbed' = (disturbed \/ pushing[m] # Nobody)
      /\ succeeded' = [succeeded EXCEPT ![m] = FALSE] /\ pushing' = [pushing EXCEPT ![m] = Nobody]
      /\ sensor' = [sensor EXCEPT ![m] = Unavailable] /\ dirty' = [dirty EXCEPT ![m] = FALSE]
      /\ UNCHANGED <<calls, publishMu, wire, invalidated>>
    BY <1>1 DEF Cancel, Dropped, providerVars, servedVars
<1>3. WorkerTypes'
  <2>1. manager' \in [Manager -> {"new", "running", "replaced", "stopping", "stopped"}]
      BY <1>1 DEF WorkerInv, WorkerTypes
  <2>2. disturbed' \in BOOLEAN
      BY <1>2 DEF WorkerInv, WorkerTypes
  <2>3. QED
      BY <1>2, <2>1, <2>2 DEF WorkerInv, WorkerTypes
<1>4. CASE disturbed'
    BY <1>3, <1>4 DEF WorkerInv
<1>5. CASE ~disturbed'
  <2>1. ~disturbed /\ pushing[m] = Nobody
      BY <1>2, <1>5
  <2>2. Alone /\ Shapes /\ Present
      BY <2>1 DEF WorkerInv
  <2>3. m = First /\ manager' = [manager EXCEPT ![First] = "stopping"]
      BY <1>1, <2>2 DEF Alone
  <2>4. pushing'[First] = Nobody /\ sensor'[First] = Unavailable /\ ~succeeded'[First]
      BY <1>2, <2>3 DEF Clients, WorkerInv, WorkerTypes
  <2>5. /\ manager'[First] = "stopping"
        /\ \A k \in Manager \ {First} : manager'[k] = manager[k] /\ pushing'[k] = pushing[k]
      BY <1>2, <2>3 DEF Clients, WorkerInv, WorkerTypes
  <2>6. \A c \in Caller : calls[c] = NoCall
      BY <2>1, <2>2, <2>3, Holders DEF Alone
  <2>7. Alone'
      BY <1>2, <2>2, <2>4, <2>5, <2>6 DEF Alone
  <2>8. Shapes'
      BY <1>2, <2>2 DEF Shapes, OfPeak
  <2>9. Present'
      BY <1>2, <2>1, <2>2, <2>3, <2>4 DEF Present
  <2>10. QED
      BY <1>3, <2>7, <2>8, <2>9 DEF WorkerInv
<1>6. QED
    BY <1>4, <1>5

\* The invalidation of an unloaded manager is one of an unavailable sensor.
LEMMA UnloadWorks ==
    ASSUME ProviderInv, Clients, WorkerInv, NEW m \in Manager, UnloadInvalidate(m)
    PROVE  WorkerInv'
<1>1. /\ manager[m] = "stopping" /\ pushing[m] = Nobody /\ InvalidateUnlessDone(m)
      /\ UNCHANGED <<sensor, dirty, invalidated, disturbed>>
      /\ manager' = [manager EXCEPT ![m] = IF pushing' = pushing THEN "stopped" ELSE @]
    BY DEF UnloadInvalidate
<1>2. \/ manager' = manager
      \/ pushing' = pushing /\ manager' = [manager EXCEPT ![m] = "stopped"]
    BY <1>1 DEF WorkerInv, WorkerTypes
<1>3. CASE disturbed
  <2>1. manager' \in [Manager -> {"new", "running", "replaced", "stopping", "stopped"}]
      BY <1>2 DEF WorkerInv, WorkerTypes
  <2>2. succeeded' \in [Manager -> BOOLEAN]
      BY <1>1 DEF InvalidateUnlessDone, WorkerInv, WorkerTypes
  <2>3. QED
      BY <1>1, <1>3, <2>1, <2>2 DEF WorkerInv, WorkerTypes
<1>4. CASE ~disturbed
  <2>1. m = First /\ sensor[First] = Unavailable
      BY <1>1, <1>4 DEF WorkerInv, Alone
  <2>2. dirty' \in [Manager -> BOOLEAN]
      BY <1>1 DEF WorkerInv, WorkerTypes
  <2>3. QED
      BY <1>1, <1>2, <1>4, <2>1, <2>2, InvalidatesWanted
<1>5. QED
    BY <1>3, <1>4

\* Nobody's call is forgotten, and while nothing disturbs there is none.
LEMMA ForgetWorks == ASSUME Clients, WorkerInv, NEW c \in Caller, Forget(c) PROVE WorkerInv'
<1>1. Orphan(c) /\ UNCHANGED haVars
    BY DEF Forget
<1>2. disturbed
    BY <1>1, ManagerAssumption DEF WorkerInv, Alone, Orphan
<1>3. QED
    BY <1>1, <1>2 DEF WorkerInv, WorkerTypes, haVars

LEMMA WorkerStep ==
    ASSUME ProviderInv, Clients, WorkerInv, [PushNext]_pushVars
    PROVE  WorkerInv'
<1>1. CASE UNCHANGED pushVars
    BY <1>1, BridgeAlone DEF pushVars, providerVars, servedVars
<1>2. CASE Bridge
    BY <1>2, BridgeKeepsWorker
<1>3. ASSUME NEW m \in Manager, Client(m) PROVE WorkerInv'
    BY <1>3, SensorChangeWorks, PushBeginWorks, PushEndWorks, DisturbedWorks, CancelWorks, UnloadWorks
    DEF Client
<1>4. ASSUME NEW c \in Caller, Forget(c) PROVE WorkerInv'
    BY <1>4, ForgetWorks
<1>5. QED
    BY <1>1, <1>2, <1>3, <1>4 DEF PushNext, Client

\* A worker that has nothing to do and whose latest push went well leaves consumers with the
\* sensor's present value, or with none: the event is cleared before the sensor is read
\* (_run), and an invalidation is saved only while the previous one stands
\* (_async_invalidate_grid_data).
THEOREM SensorIsServed == PushSpec => []SensorServed
<1>1. Clients /\ WorkerInv => SensorServed
  <2> SUFFICES ASSUME Clients, WorkerInv, NEW m \in Manager, Settled(m), succeeded[m], ~disturbed
               PROVE  wire["power"] \in {Invalid, sensor[m]}
      BY DEF SensorServed
  <2>1. Alone /\ Present
      BY DEF WorkerInv
  <2>2. m = First /\ pushing[First] = Nobody /\ ~dirty[First]
      BY <2>1 DEF Alone, Settled
  <2>3. wire["power"] \in {Invalid, Wanted}
      BY <2>1, <2>2 DEF Present
  <2>4. QED
      BY <2>2, <2>3 DEF Wanted
<1>2. PushInit => WorkerInv
    BY WorkerInitial
<1>3. ProviderInv /\ Clients /\ WorkerInv /\ [PushNext]_pushVars => WorkerInv'
    BY WorkerStep
<1>4. QED
    BY <1>1, <1>2, <1>3, ProviderInvariant, PTL DEF PushSpec
===============================================================================
