---------------------------- MODULE RecoveryProofs ----------------------------
(***************************************************************************)
(* Proofs about Recovery for any devices, thresholds and delays.           *)
(*                                                                         *)
(* The first part is about the doubling delay: that there is the function  *)
(* which the loop of backoff computes, and that it never decreases.  The   *)
(* second shows that the supervisor never reconnects a device more than    *)
(* MaxAttempts times without an answer in between: the history counts the  *)
(* reconnects since the device answered, the record those since the        *)
(* supervisor took note of it, so the invariant adds that the record never *)
(* forgets one that still counts.  The third follows a device through the  *)
(* tick among what the stack and the registry do to it meanwhile: when     *)
(* attempts are made, and what the restart is decided on.                  *)
(***************************************************************************)
EXTENDS Recovery, NaturalsInduction, SequenceTheorems, WellFoundedInduction, TLAPS

-----------------------------------------------------------------------------
(* The delays.                                                             *)

\* A set of numbers has a least one, which stands in for induction.
LEMMA Least ==
    ASSUME NEW S, S \subseteq Nat, S # {}
    PROVE  \E least \in S : \A k \in S : least <= k
<1> DEFINE Below == OpToRel(<, Nat)
<1>1. IsWellFoundedOn(Below, Nat)
    BY NatLessThanWellFounded
<1>2. \A a, b \in Nat : <<a, b>> \in Below <=> a < b
    BY DEF OpToRel
<1> HIDE DEF Below
<1>3. \E least \in S : \A k \in S : <<k, least>> \notin Below
    BY <1>1, WFMin
<1>4. PICK least \in S : \A k \in S : <<k, least>> \notin Below
    BY <1>3
<1>5. ASSUME NEW k \in S PROVE least <= k
    <2>1. k \in Nat /\ least \in Nat
        OBVIOUS
    <2>2. ~(k < least)
        BY <1>2, <1>4, <2>1
    <2> QED BY <2>1, <2>2
<1> QED BY <1>5

Longer(delay) == Smaller(2 * delay, MaxBackoff)

\* The delays of the attempts up to one of them.
Delays(n) ==
    {f \in [0 .. n -> Nat] :
        \A i \in 0 .. n : f[i] = IF i <= 1 THEN BaseBackoff ELSE Longer(f[i - 1])}

LEMMA LongerType ==
    ASSUME NEW delay \in Nat PROVE Longer(delay) \in Nat
BY ThresholdAssumption DEF Longer, Smaller

LEMMA DelaysExist == \A n \in Nat : Delays(n) # {}
<1> DEFINE S == {n \in Nat : Delays(n) = {}}
<1>1. CASE S # {}
    <2>1. PICK n \in S : \A k \in S : n <= k
        BY <1>1, Least
    <2>2. n \in Nat /\ Delays(n) = {}
        OBVIOUS
    <2>3. CASE n = 0
        <3>1. [i \in 0 .. 0 |-> BaseBackoff] \in Delays(0)
            BY ThresholdAssumption DEF Delays
        <3> QED BY <2>2, <2>3, <3>1
    <2>4. CASE n # 0
        <3>1. n - 1 \in Nat /\ n - 1 \notin S
            BY <2>1, <2>2, <2>4
        <3>2. PICK f : f \in Delays(n - 1)
            BY <3>1
        <3>3. /\ f \in [0 .. n - 1 -> Nat]
              /\ \A i \in 0 .. n - 1 : f[i] = IF i <= 1 THEN BaseBackoff ELSE Longer(f[i - 1])
            BY <3>2 DEF Delays
        <3> DEFINE last == IF n <= 1 THEN BaseBackoff ELSE Longer(f[n - 1])
                   g == [i \in 0 .. n |-> IF i = n THEN last ELSE f[i]]
        <3>4. last \in Nat
            <4>1. f[n - 1] \in Nat
                BY <2>2, <3>1, <3>3
            <4> QED BY <4>1, LongerType, ThresholdAssumption
        <3>5. g \in [0 .. n -> Nat]
            <4>1. \A i \in 0 .. n : i # n => i \in 0 .. n - 1
                BY <2>2
            <4> HIDE DEF last
            <4> QED BY <3>3, <3>4, <4>1
        <3>6. ASSUME NEW i \in 0 .. n
              PROVE  g[i] = IF i <= 1 THEN BaseBackoff ELSE Longer(g[i - 1])
            <4>1. i = n \/ i \in 0 .. n - 1
                BY <2>2
            <4>2. i > 1 => i - 1 \in 0 .. n /\ i - 1 # n /\ i - 1 \in 0 .. n - 1
                BY <2>2
            <4>3. i > 1 => g[i - 1] = f[i - 1]
                BY <4>2
            <4>4. g[i] = IF i = n THEN last ELSE f[i]
                OBVIOUS
            <4>5. CASE i = n
                BY <2>2, <4>3, <4>4, <4>5
            <4>6. CASE i # n
                <5>1. f[i] = IF i <= 1 THEN BaseBackoff ELSE Longer(f[i - 1])
                    BY <3>3, <4>1, <4>6
                <5> QED BY <2>2, <4>3, <4>4, <4>6, <5>1
            <4> QED BY <4>5, <4>6
        <3>7. g \in Delays(n)
            BY <3>5, <3>6 DEF Delays
        <3> QED BY <2>2, <3>7
    <2> QED BY <2>3, <2>4
<1> QED BY <1>1

\* Two of them agree as far as both reach.
LEMMA DelaysAgree ==
    ASSUME NEW n \in Nat, NEW m \in Nat, NEW f \in Delays(n), NEW g \in Delays(m)
    PROVE  \A i \in Nat : i <= n /\ i <= m => f[i] = g[i]
<1> DEFINE S == {i \in Nat : i <= n /\ i <= m /\ f[i] # g[i]}
<1>1. CASE S # {}
    <2>1. PICK i \in S : \A k \in S : i <= k
        BY <1>1, Least
    <2>2. i \in Nat /\ i <= n /\ i <= m /\ f[i] # g[i]
        OBVIOUS
    <2>3. /\ f[i] = IF i <= 1 THEN BaseBackoff ELSE Longer(f[i - 1])
          /\ g[i] = IF i <= 1 THEN BaseBackoff ELSE Longer(g[i - 1])
        BY <2>2 DEF Delays
    <2>4. i > 1
        BY <2>2, <2>3
    <2>5. i - 1 \in Nat /\ i - 1 <= n /\ i - 1 <= m /\ i - 1 \notin S
        BY <2>1, <2>2, <2>4
    <2>6. f[i - 1] = g[i - 1]
        BY <2>5
    <2> QED BY <2>2, <2>3, <2>6
<1> QED BY <1>1

\* So there is the function that doubles the delay from attempt to attempt.
LEMMA BackoffValue ==
    \A n \in Nat : Backoff[n] = IF n <= 1 THEN BaseBackoff ELSE Smaller(2 * Backoff[n - 1], MaxBackoff)
<1> DEFINE f == [n \in Nat |-> (CHOOSE h : h \in Delays(n))[n]]
           Is(b) == b = [n \in Nat |-> IF n <= 1 THEN BaseBackoff ELSE Smaller(2 * b[n - 1], MaxBackoff)]
<1>1. ASSUME NEW n \in Nat
      PROVE  f[n] \in Nat /\ f[n] = IF n <= 1 THEN BaseBackoff ELSE Longer(f[n - 1])
    <2> DEFINE h == CHOOSE h : h \in Delays(n)
    <2>1. h \in Delays(n)
        BY DelaysExist
    <2>2. f[n] = h[n]
        OBVIOUS
    <2> HIDE DEF h
    <2>3. h[n] \in Nat /\ h[n] = IF n <= 1 THEN BaseBackoff ELSE Longer(h[n - 1])
        BY <2>1 DEF Delays
    <2>4. ASSUME n > 1 PROVE f[n - 1] = h[n - 1]
        <3> DEFINE p == n - 1
                   k == CHOOSE k : k \in Delays(p)
        <3>1. p \in Nat /\ p <= n
            BY <2>4
        <3>2. k \in Delays(p)
            BY <3>1, DelaysExist
        <3>3. f[p] = k[p]
            BY <3>1
        <3> HIDE DEF k, p
        <3>4. k[p] = h[p]
            BY <2>1, <3>1, <3>2, DelaysAgree
        <3> QED BY <3>3, <3>4 DEF p
    <2> HIDE DEF f
    <2> QED BY <2>2, <2>3, <2>4
<1>2. Is(f)
    <2>1. f = [n \in Nat |-> f[n]]
        OBVIOUS
    <2> HIDE DEF f
    <2> QED BY <1>1, <2>1 DEF Longer
<1> HIDE DEF f
<1>3. Is(Backoff)
    <2>1. Backoff = CHOOSE b : Is(b)
        BY DEF Backoff
    <2> HIDE DEF Is
    <2> QED BY <1>2, <2>1
<1> DEFINE b == Backoff
<1>4. Is(b)
    BY <1>3
<1> HIDE DEF b
<1>5. \A n \in Nat : b[n] = IF n <= 1 THEN BaseBackoff ELSE Smaller(2 * b[n - 1], MaxBackoff)
    BY <1>4
<1> QED BY <1>5 DEF b

\* No delay is shorter than the first or longer than the longest.
LEMMA BackoffBounds ==
    \A n \in Nat : Backoff[n] \in Nat /\ BaseBackoff <= Backoff[n] /\ Backoff[n] <= MaxBackoff
<1> DEFINE Bounded(n) == Backoff[n] \in Nat /\ BaseBackoff <= Backoff[n] /\ Backoff[n] <= MaxBackoff
           S == {n \in Nat : ~Bounded(n)}
<1>1. CASE S # {}
    <2>1. PICK n \in S : \A k \in S : n <= k
        BY <1>1, Least
    <2>2. n \in Nat /\ ~Bounded(n)
        OBVIOUS
    <2>3. CASE n <= 1
        BY <2>2, <2>3, BackoffValue, ThresholdAssumption, BackoffAssumption
    <2>4. CASE n > 1
        <3>1. n - 1 \in Nat /\ n - 1 \notin S
            BY <2>1, <2>2, <2>4
        <3>2. Bounded(n - 1)
            BY <3>1
        <3>3. Backoff[n] = Smaller(2 * Backoff[n - 1], MaxBackoff)
            BY <2>2, <2>4, BackoffValue
        <3> QED BY <2>2, <3>2, <3>3, ThresholdAssumption, BackoffAssumption DEF Smaller
    <2> QED BY <2>2, <2>3, <2>4
<1> QED BY <1>1

\* More attempts never mean a shorter delay.
LEMMA BackoffGrows ==
    ASSUME NEW n \in Nat, NEW m \in Nat, n <= m PROVE Backoff[n] <= Backoff[m]
<1> DEFINE S == {k \in Nat : n <= k /\ ~(Backoff[n] <= Backoff[k])}
<1>1. CASE S # {}
    <2>1. PICK k \in S : \A i \in S : k <= i
        BY <1>1, Least
    <2>2. k \in Nat /\ n <= k /\ ~(Backoff[n] <= Backoff[k])
        OBVIOUS
    <2>3. Backoff[n] \in Nat /\ Backoff[k] \in Nat
        BY <2>2, BackoffBounds
    <2>4. k # n
        BY <2>2, <2>3
    <2>5. k - 1 \in Nat /\ n <= k - 1 /\ k - 1 \notin S
        BY <2>1, <2>2, <2>4
    <2>6. Backoff[n] <= Backoff[k - 1]
        BY <2>5
    <2>7. /\ Backoff[k - 1] \in Nat /\ Backoff[k - 1] <= MaxBackoff
          /\ BaseBackoff <= Backoff[k - 1]
        BY <2>5, BackoffBounds
    <2>8. CASE k <= 1
        <3>1. Backoff[k] = BaseBackoff /\ Backoff[n] = BaseBackoff
            BY <2>2, <2>8, BackoffValue
        <3> QED BY <2>2, <2>3, <3>1
    <2>9. CASE k > 1
        <3>1. Backoff[k] = Smaller(2 * Backoff[k - 1], MaxBackoff)
            BY <2>2, <2>9, BackoffValue
        <3> QED BY <2>2, <2>3, <2>6, <2>7, <3>1, ThresholdAssumption DEF Smaller
    <2> QED BY <2>2, <2>8, <2>9
<1>2. S = {} => Backoff[n] <= Backoff[m]
    OBVIOUS
<1> QED BY <1>1, <1>2

\* The delays of RecoverySupervisor.backoff: for every number of attempts the doubling is
\* well defined, begins at BaseBackoff, and neither falls back nor exceeds MaxBackoff.
THEOREM BackoffSchedule ==
    \A n \in Nat :
        /\ Backoff[n] \in BaseBackoff .. MaxBackoff
        /\ Backoff[n] <= Backoff[n + 1]
        /\ Backoff[n + 1] = IF n = 0 THEN BaseBackoff ELSE Smaller(2 * Backoff[n], MaxBackoff)
<1> TAKE n \in Nat
<1>1. Backoff[n] \in BaseBackoff .. MaxBackoff
    BY BackoffBounds, ThresholdAssumption
<1>2. Backoff[n] <= Backoff[n + 1]
    BY BackoffGrows
<1>3. Backoff[n + 1] = IF n = 0 THEN BaseBackoff ELSE Smaller(2 * Backoff[n], MaxBackoff)
    <2>1. /\ n + 1 \in Nat /\ n + 1 - 1 = n
          /\ n + 1 <= 1 <=> n = 0
        OBVIOUS
    <2>2. Backoff[n + 1] = IF n + 1 <= 1 THEN BaseBackoff ELSE Smaller(2 * Backoff[n + 1 - 1], MaxBackoff)
        BY <2>1, BackoffValue
    <2> QED BY <2>1, <2>2
<1> QED BY <1>1, <1>2, <1>3

-----------------------------------------------------------------------------
(* The attempts.                                                           *)

RecordType == [state : {"none", "healthy", "untrusted", "disconnected", "grace_period",
                        "recovering", "exhausted"},
               attempts : 0 .. MaxAttempts, wait : Nat, waits : BOOLEAN]

Heard == [SKI -> SUBSET {"read", "beat"}]

Counted(d) ==
    /\ tries[d] <= record[d].attempts
    /\ Success(d, heard[d]) => tries[d] = 0

RecoveryInv ==
    /\ heard \in Heard /\ heardInTick \in Heard
    /\ tries \in [SKI -> Nat]
    /\ record \in [SKI -> RecordType]
    /\ \A d \in SKI : Counted(d)

\* A new record counts no attempts.
LEMMA NoRecordType == NoRecord \in RecordType /\ NoRecord.attempts = 0
<1>1. 0 \in 0 .. MaxAttempts
    BY ThresholdAssumption
<1> QED BY <1>1 DEF NoRecord, RecordType

\* The record of a device is rewritten without touching its attempts.
LEMMA KeepsAttempts ==
    ASSUME RecoveryInv, NEW d \in SKI, NEW new \in RecordType, new.attempts = record[d].attempts,
           Recorded(d, new), UNCHANGED required, UNCHANGED heard, UNCHANGED heardInTick,
           UNCHANGED tries
    PROVE  RecoveryInv'
<1>1. record' \in [SKI -> RecordType] /\ \A e \in SKI : record'[e].attempts = record[e].attempts
    BY DEF RecoveryInv, Recorded
<1> QED BY <1>1 DEF RecoveryInv, Counted, Success

\* recover counts what it does, and leaves the rest.
LEMMA RecoverKeeps ==
    ASSUME RecoveryInv, NEW d \in SKI, Recover(d), UNCHANGED required, UNCHANGED heardInTick
    PROVE  RecoveryInv'
<1> DEFINE r == record[d]
<1>0. r \in RecordType /\ MaxAttempts \in Nat
    BY ThresholdAssumption DEF RecoveryInv
<1>1. CASE UNCHANGED <<record, heard, historyVars>>
    BY <1>1 DEF RecoveryInv, Counted, Success, historyVars
<1>2. CASE Recorded(d, [r EXCEPT !.state = "exhausted"]) /\ UNCHANGED <<heard, historyVars>>
    <2> DEFINE new == [r EXCEPT !.state = "exhausted"]
    <2>1. new \in RecordType /\ new.attempts = r.attempts
        BY <1>0 DEF RecordType
    <2>2. UNCHANGED tries /\ UNCHANGED heard
        BY <1>2 DEF historyVars
    <2> HIDE DEF new
    <2> QED BY <1>2, <2>1, <2>2, KeepsAttempts DEF new
<1>3. CASE /\ r.attempts < MaxAttempts
           /\ Recorded(d, [r EXCEPT !.state = "recovering", !.attempts = @ + 1])
           /\ heard' = [heard EXCEPT ![d] = heardInTick[d]]
           /\ tries' = [tries EXCEPT ![d] = IF Success(d, heardInTick[d]) THEN 0 ELSE @ + 1]
    <2> DEFINE new == [r EXCEPT !.state = "recovering", !.attempts = @ + 1]
    <2>1. new \in RecordType /\ new.attempts = r.attempts + 1
        <3>1. r.attempts \in 0 .. MaxAttempts
            BY <1>0 DEF RecordType
        <3>2. r.attempts + 1 \in 0 .. MaxAttempts
            BY <1>0, <1>3, <3>1
        <3>3. new = [[r EXCEPT !.state = "recovering"] EXCEPT !.attempts = r.attempts + 1]
            BY <1>0 DEF RecordType
        <3> QED BY <1>0, <3>2, <3>3 DEF RecordType
    <2>2. /\ record' \in [SKI -> RecordType] /\ record'[d].attempts = r.attempts + 1
          /\ \A e \in SKI \ {d} : record'[e] = record[e]
        BY <1>3, <2>1 DEF RecoveryInv, Recorded
    <2>3. /\ heard' \in Heard /\ heard'[d] = heardInTick[d]
          /\ \A e \in SKI \ {d} : heard'[e] = heard[e]
        BY <1>3 DEF RecoveryInv, Heard
    <2>4. /\ tries' \in [SKI -> Nat]
          /\ tries'[d] = IF Success(d, heardInTick[d]) THEN 0 ELSE tries[d] + 1
          /\ \A e \in SKI \ {d} : tries'[e] = tries[e]
        BY <1>3 DEF RecoveryInv
    <2>5. Counted(d)'
        <3>1. tries[d] \in Nat /\ r.attempts \in Nat /\ tries[d] <= r.attempts
            BY <1>0 DEF RecoveryInv, Counted, RecordType
        <3>2. tries'[d] <= record'[d].attempts
            BY <2>2, <2>4, <3>1
        <3>3. Success(d, heard[d])' => tries'[d] = 0
            BY <2>3, <2>4 DEF Success
        <3> QED BY <3>2, <3>3 DEF Counted
    <2>6. \A e \in SKI \ {d} : Counted(e)'
        BY <2>2, <2>3, <2>4 DEF RecoveryInv, Counted, Success
    <2> QED BY <2>2, <2>3, <2>4, <2>5, <2>6 DEF RecoveryInv
<1> QED BY <1>1, <1>2, <1>3 DEF Recover

\* An answer ends the count of the device it comes from.
LEMMA HearKeeps ==
    ASSUME RecoveryInv, NEW d \in SKI, NEW what \in {"read", "beat"}, Hear(d, what),
           UNCHANGED required, UNCHANGED record
    PROVE  RecoveryInv'
<1>1. heard' \in Heard /\ heardInTick' \in Heard
    BY DEF RecoveryInv, Hear, Heard
<1>2. /\ tries' \in [SKI -> Nat]
      /\ tries'[d] = IF Success(d, heard'[d]) THEN 0 ELSE tries[d]
      /\ \A e \in SKI \ {d} : tries'[e] = tries[e] /\ heard'[e] = heard[e]
    BY DEF RecoveryInv, Hear, Heard
<1>3. Counted(d)'
    <2>1. tries[d] <= record[d].attempts /\ record[d].attempts \in Nat
        BY DEF RecoveryInv, Counted, RecordType
    <2>2. tries'[d] <= record'[d].attempts
        BY <1>2, <2>1
    <2>3. Success(d, heard[d])' => tries'[d] = 0
        BY <1>2 DEF Success
    <2> QED BY <2>2, <2>3 DEF Counted
<1>4. \A e \in SKI \ {d} : Counted(e)'
    BY <1>2 DEF RecoveryInv, Counted, Success
<1> QED BY <1>1, <1>2, <1>3, <1>4 DEF RecoveryInv

\* Less heard, or more required, makes no success.
LEMMA LessKeeps ==
    ASSUME RecoveryInv, heard' \in Heard, heardInTick' \in Heard,
           \A d \in SKI : heard'[d] \subseteq heard[d],
           \A d \in SKI : d \in required => d \in required' \/ heard'[d] = {},
           UNCHANGED record, UNCHANGED tries
    PROVE  RecoveryInv'
<1>1. \A d \in SKI : Success(d, heard[d])' => Success(d, heard[d])
    BY DEF Success
<1> QED BY <1>1 DEF RecoveryInv, Counted

\* What reconcileHealthy writes of its own.
LEMMA ReconcileKeeps ==
    ASSUME RecoveryInv, NEW d \in SKI, Reconcile(d)
    PROVE  RecoveryInv'
<1> DEFINE r == record[d]
           absent == tick.health[d] \in {"untrusted", "disconnected"}
<1>0. r \in RecordType /\ GracePeriod \in Nat /\ MaxAttempts \in Nat
    BY ThresholdAssumption DEF RecoveryInv
<1>1. UNCHANGED required /\ UNCHANGED heardInTick
    BY DEF Reconcile, registryVars
<1>2. CASE absent /\ Recorded(d, Excused(r, tick.health[d])) /\ UNCHANGED <<heard, historyVars>>
    <2> DEFINE new == Excused(r, tick.health[d])
    <2>1. new \in RecordType /\ new.attempts = r.attempts
        BY <1>0, <1>2 DEF RecordType, Excused
    <2>2. UNCHANGED tries /\ UNCHANGED heard
        BY <1>2 DEF historyVars
    <2> HIDE DEF new
    <2> QED BY <1>1, <1>2, <2>1, <2>2, KeepsAttempts DEF new
<1>3. CASE /\ ~absent /\ Recovered(d)
           /\ Recorded(d, [NoRecord EXCEPT !.state = "healthy"])
           /\ heard' = [heard EXCEPT ![d] = {}]
           /\ UNCHANGED historyVars
    <2>1. tries[d] = 0
        BY <1>0, <1>3 DEF RecoveryInv, Counted, Recovered, RecordType
    <2> DEFINE new == [NoRecord EXCEPT !.state = "healthy"]
    <2>2. new \in RecordType /\ new.attempts = 0
        BY NoRecordType DEF RecordType
    <2>3. /\ record' \in [SKI -> RecordType] /\ record'[d].attempts = 0
          /\ \A e \in SKI \ {d} : record'[e] = record[e]
        BY <1>3, <2>2 DEF RecoveryInv, Recorded
    <2>4. /\ heard' \in Heard /\ heard'[d] = {} /\ heardInTick' \in Heard
          /\ \A e \in SKI \ {d} : heard'[e] = heard[e]
        BY <1>1, <1>3 DEF RecoveryInv, Heard
    <2>5. UNCHANGED tries
        BY <1>3 DEF historyVars
    <2>6. Counted(d)'
        BY <2>1, <2>3, <2>4, <2>5 DEF Counted, Success
    <2>7. \A e \in SKI \ {d} : Counted(e)'
        BY <1>1, <2>3, <2>4, <2>5 DEF RecoveryInv, Counted, Success
    <2> QED BY <2>3, <2>4, <2>5, <2>6, <2>7 DEF RecoveryInv
<1>4. CASE Recover(d)
    BY <1>1, <1>4, RecoverKeeps
<1>5. CASE /\ Recorded(d, IF r.state = "exhausted" THEN r ELSE Grace(r))
           /\ UNCHANGED <<heard, historyVars>>
    <2> DEFINE new == IF r.state = "exhausted" THEN r ELSE Grace(r)
    <2>1. Grace(r) \in RecordType /\ Grace(r).attempts = r.attempts
        <3> DEFINE wait == IF r.waits THEN r.wait ELSE GracePeriod
        <3>1. wait \in Nat
            BY <1>0 DEF RecordType
        <3>2. Grace(r) = [[[r EXCEPT !.state = "grace_period"] EXCEPT !.waits = TRUE]
                              EXCEPT !.wait = wait]
            BY <1>0 DEF RecordType, Grace
        <3> HIDE DEF wait
        <3> QED BY <1>0, <3>1, <3>2 DEF RecordType
    <2>2. new \in RecordType /\ new.attempts = r.attempts
        BY <1>0, <2>1
    <2>3. UNCHANGED tries /\ UNCHANGED heard
        BY <1>5 DEF historyVars
    <2> HIDE DEF new
    <2> QED BY <1>1, <1>5, <2>2, <2>3, KeepsAttempts DEF new
<1> QED BY <1>2, <1>3, <1>4, <1>5 DEF Reconcile

\* No step forgets a reconnect that still counts.
LEMMA RecoveryStep == RecoveryInv /\ [Next]_vars => RecoveryInv'
<1> SUFFICES ASSUME RecoveryInv, [Next]_vars PROVE RecoveryInv'
    OBVIOUS
<1> USE DEF registryVars, stackVars, supervisorVars, heardVars, historyVars
<1>1. ASSUME NEW d \in SKI, Pair(d) \/ Revoke(d) \/ LinkUp(d) \/ LinkDown(d) \/ FallSilent(d)
      PROVE  RecoveryInv'
    BY <1>1 DEF RecoveryInv, Counted, Success, Pair, Revoke, LinkUp, LinkDown, FallSilent
<1>2. ASSUME NEW d \in SKI, Unpair(d) PROVE RecoveryInv'
    <2>1. /\ heard' \in Heard /\ heardInTick' \in Heard
          /\ \A e \in SKI : heard'[e] \subseteq heard[e]
          /\ \A e \in SKI : e \in required => e \in required' \/ heard'[e] = {}
        BY <1>2 DEF RecoveryInv, Unpair, Heard
    <2>2. UNCHANGED record /\ UNCHANGED tries
        BY <1>2 DEF Unpair
    <2> QED BY <2>1, <2>2, LessKeeps
<1>3. ASSUME NEW d \in SKI, Callback(d) PROVE RecoveryInv'
    <2>1. /\ heard' \in Heard /\ heardInTick' \in Heard
          /\ \A e \in SKI : heard'[e] \subseteq heard[e]
        BY <1>3 DEF RecoveryInv, Callback, Heard
    <2>2. UNCHANGED record /\ UNCHANGED tries /\ UNCHANGED required
        BY <1>3 DEF Callback
    <2> QED BY <2>1, <2>2, LessKeeps
<1>4. ASSUME NEW d \in SKI, Support(d) PROVE RecoveryInv'
    <2>1. UNCHANGED record /\ UNCHANGED tries /\ UNCHANGED heard /\ UNCHANGED heardInTick
        BY <1>4 DEF Support
    <2>2. required \subseteq required'
        BY <1>4 DEF Support
    <2> QED BY <2>1, <2>2, LessKeeps DEF RecoveryInv
<1>5. ASSUME NEW d \in SKI, Read(d) PROVE RecoveryInv'
    BY <1>5, HearKeeps DEF Read
<1>6. ASSUME NEW d \in SKI, Beat(d) PROVE RecoveryInv'
    BY <1>6, HearKeeps DEF Beat
<1>7. CASE TickBegin
    <2>1. \A d \in SKI : record[d].wait \in Nat
        BY DEF RecoveryInv, RecordType
    <2>2. record' \in [SKI -> RecordType] /\ \A d \in SKI : record'[d].attempts = record[d].attempts
        <3>1. ASSUME NEW d \in SKI
              PROVE  record'[d] \in RecordType /\ record'[d].attempts = record[d].attempts
            <4> DEFINE left == IF record[d].wait = 0 THEN 0 ELSE record[d].wait - 1
            <4>1. left \in Nat
                BY <2>1
            <4>2. record[d] \in RecordType
                BY DEF RecoveryInv
            <4>3. record'[d] = [record[d] EXCEPT !.wait = left]
                BY <1>7 DEF TickBegin
            <4> HIDE DEF left
            <4> QED BY <4>1, <4>2, <4>3 DEF RecordType
        <3>2. record' = [d \in SKI |-> record'[d]]
            BY <1>7 DEF TickBegin
        <3> QED BY <3>1, <3>2
    <2>3. UNCHANGED required /\ UNCHANGED heard /\ UNCHANGED heardInTick /\ UNCHANGED tries
        BY <1>7 DEF TickBegin
    <2> QED BY <2>2, <2>3 DEF RecoveryInv, Counted, Success
<1>8. CASE TickScan
    BY <1>8 DEF TickScan, RecoveryInv, Counted, Success
<1>9. CASE TickEnd
    BY <1>9 DEF TickEnd, RecoveryInv, Counted, Success, Heard
<1>10. ASSUME NEW d \in SKI, TickStale(d) PROVE RecoveryInv'
    BY <1>10, RecoverKeeps DEF TickStale
<1>11. ASSUME NEW d \in SKI, Unregister(d) PROVE RecoveryInv'
    BY <1>11 DEF Unregister, RecoveryInv, Counted, Success
<1>12. ASSUME NEW d \in SKI, Register(d) PROVE RecoveryInv'
    <2> DEFINE r == record[d]
               new == [r EXCEPT !.state = "grace_period", !.waits = TRUE,
                                !.wait = Backoff[r.attempts]]
    <2>1. r \in RecordType /\ Backoff[r.attempts] \in Nat
        BY BackoffBounds DEF RecoveryInv, RecordType
    <2>2. new \in RecordType /\ new.attempts = r.attempts
        BY <2>1 DEF RecordType
    <2>3. /\ Recorded(d, new) /\ UNCHANGED required /\ UNCHANGED tries
          /\ UNCHANGED heard /\ UNCHANGED heardInTick
        BY <1>12 DEF Register
    <2> HIDE DEF new
    <2> QED BY <2>2, <2>3, KeepsAttempts
<1>13. ASSUME NEW d \in SKI, Reconcile(d) PROVE RecoveryInv'
    BY <1>13, ReconcileKeeps
<1>14. CASE UNCHANGED vars
    BY <1>14 DEF vars, RecoveryInv, Counted, Success
<1> QED BY <1>1, <1>2, <1>3, <1>4, <1>5, <1>6, <1>7, <1>8, <1>9, <1>10, <1>11, <1>12, <1>13, <1>14
        DEF Next, Watchdog

\* No attempt counts in the beginning.
LEMMA RecoveryInit == Init => RecoveryInv
<1> SUFFICES ASSUME Init PROVE RecoveryInv
    OBVIOUS
<1>1. record \in [SKI -> RecordType] /\ \A d \in SKI : record[d].attempts = 0
    BY NoRecordType DEF Init
<1>2. heard \in Heard /\ heardInTick \in Heard /\ tries \in [SKI -> Nat]
    BY DEF Init, Heard
<1>3. \A d \in SKI : heard[d] = {} /\ tries[d] = 0
    BY DEF Init
<1> QED BY <1>1, <1>2, <1>3 DEF RecoveryInv, Counted, Success

\* A device is never reconnected more than MaxAttempts times without an answer in
\* between, whatever becomes of its connection and its trust (recover, reconcileHealthy).
THEOREM RecoveryAttemptsBounded == Spec => []AttemptsBounded
<1>1. Init => RecoveryInv
    BY RecoveryInit
<1>2. RecoveryInv => AttemptsBounded
    <2> SUFFICES ASSUME RecoveryInv, NEW d \in SKI PROVE tries[d] <= MaxAttempts
        BY DEF AttemptsBounded
    <2>1. record[d].attempts \in 0 .. MaxAttempts /\ MaxAttempts \in Nat /\ tries[d] \in Nat
        BY ThresholdAssumption DEF RecoveryInv, RecordType
    <2>2. tries[d] <= record[d].attempts
        BY DEF RecoveryInv, Counted
    <2> QED BY <2>1, <2>2
<1> QED BY <1>1, <1>2, RecoveryStep, PTL DEF Spec

-----------------------------------------------------------------------------
(* The supervisor among the stack and the registry.                        *)

Callbacks == {"connected", "disconnected"}
RowType == [health : {"unknown", "disconnected", "connected"}, trusted : BOOLEAN,
            since : Nat, read : Nat, beat : Nat]
Snapshots == {"unknown", "untrusted", "disconnected", "read", "unread"}
TickType == [step : {"idle", "scan", "run", "unregister", "register"}, at : SUBSET SKI,
             health : [SKI -> Snapshots], stale : SUBSET SKI, todo : SUBSET SKI]

SupervisorTypes ==
    /\ row \in [SKI -> RowType] /\ required \subseteq SKI /\ removed \subseteq SKI
    /\ link \subseteq SKI /\ pending \in [SKI -> Seq(Callbacks)]
    /\ tick \in TickType /\ pause \in [SKI -> Nat]

Live(d) == row[d].health = "connected"
InTick == tick.step \in {"run", "unregister", "register"}
Present(d) == tick.health[d] \in {"read", "unread"}
Excluded(d) == record[d].state \in {"untrusted", "disconnected"}
Newest(queue) == queue[Len(queue)]
Has(queue, callback) == \E i \in 1 .. Len(queue) : queue[i] = callback

\* What the registry knows of a connection is what the stack has, or will have told it.
Known(d) ==
    /\ d \in removed => row[d] = NoRow
    /\ Live(d) => row[d].trusted
    /\ pending[d] = <<>> => (Live(d) => d \in link)
    /\ pending[d] # <<>> => Newest(pending[d]) = IF d \in link THEN "connected" ELSE "disconnected"

\* An attempt is made by one tick from its beginning to its end, and the delay after it is
\* counted down over whatever becomes of the record.
Attempted(d) ==
    /\ record[d].state = "exhausted" => record[d].attempts > 0
    /\ record[d].state \in {"none", "healthy"} => record[d].attempts = 0
    /\ record[d].state = "recovering" => tick.step \in {"unregister", "register"} /\ tick.at = {d}
    /\ d \in tick.at =>
           /\ record[d].state = "recovering" /\ d \in tick.todo
           /\ tick.step \in {"unregister", "register"}
    /\ record[d].attempts > 0 /\ record[d].state # "recovering" =>
           record[d].waits /\ record[d].wait + pause[d] >= Backoff[record[d].attempts]

\* A device that was not connected when a tick began has a new connection, if any, and is
\* not stale until a later tick has seen it.
Absent(d) ==
    /\ tick.step # "idle" /\ ~Present(d) /\ Live(d) => row[d].since = 0
    /\ InTick /\ d \in tick.stale \cap tick.todo => ~Excluded(d)
    /\ Excluded(d) /\ Live(d) =>
           \/ row[d].since = 0
           \/ /\ row[d].since = 1 /\ Present(d)
              /\ tick.step = "scan" \/ (InTick /\ d \in tick.todo)

\* The connection is being closed by the attempt.
Doomed(d) ==
    \/ tick.step = "unregister" /\ d \in tick.at
    \/ /\ Has(pending[d], "disconnected")
       /\ tick.step = "idle" \/ (InTick /\ (d \notin tick.todo \/ d \in tick.at))

\* What the row holds on a connection that was made after an attempt was heard after it, so
\* an exhausted device that the tick has looked at has not been confirmed.
Answered(d) ==
    /\ Live(d) /\ record[d].attempts > 0 /\ ~Doomed(d) =>
           /\ row[d].read # Never => "read" \in heard[d]
           /\ row[d].beat # Never => "beat" \in heard[d]
    /\ InTick /\ d \notin tick.todo \cup tick.stale /\ Present(d) /\ record[d].state = "exhausted"
           => ~Confirmed(d)

Followed(d) == Known(d) /\ Attempted(d) /\ Absent(d) /\ Answered(d)

SupervisorInv == RecoveryInv /\ SupervisorTypes /\ \A d \in SKI : Followed(d)

\* Never exceeds every age that is told apart.
LEMMA NeverExceeds ==
    /\ Never \in Nat /\ Never > 0
    /\ Never > GracePeriod /\ Never > StaleThreshold /\ Never > HeartbeatTolerance
BY ThresholdAssumption DEF Never, Larger

LEMMA AgedType ==
    ASSUME NEW age \in Nat, NEW threshold \in Nat
    PROVE  Aged(age, threshold) \in Nat /\ (age > threshold => Aged(age, threshold) = age)
BY DEF Aged

\* A callback is appended to those that wait.
LEMMA QueueAppended ==
    ASSUME NEW queue \in Seq(Callbacks), NEW callback \in Callbacks
    PROVE  LET new == Append(queue, callback)
           IN  /\ new \in Seq(Callbacks) /\ new # <<>> /\ Newest(new) = callback
               /\ Has(new, callback) /\ \A c \in Callbacks : Has(queue, c) => Has(new, c)
<1> DEFINE new == Append(queue, callback)
<1>1. /\ new \in Seq(Callbacks) /\ Len(new) = Len(queue) + 1 /\ new[Len(queue) + 1] = callback
      /\ \A i \in 1 .. Len(queue) : new[i] = queue[i]
    OBVIOUS
<1>2. Len(queue) \in Nat /\ new # <<>>
    <2>1. Len(queue) \in Nat /\ Len(<<>>) = 0
        OBVIOUS
    <2> HIDE DEF new
    <2> QED BY <1>1, <2>1
<1> HIDE DEF new
<1>3. \A i \in 1 .. Len(queue) : i \in 1 .. Len(new)
    BY <1>1, <1>2
<1>4. Len(new) \in 1 .. Len(new)
    BY <1>1, <1>2
<1>5. \A c \in Callbacks : Has(queue, c) => Has(new, c)
    BY <1>1, <1>3 DEF Has
<1> QED BY <1>1, <1>2, <1>4, <1>5 DEF Newest, Has, new

\* The first of those that wait is run.
LEMMA QueueTaken ==
    ASSUME NEW queue \in Seq(Callbacks), queue # <<>>
    PROVE  /\ Tail(queue) \in Seq(Callbacks) /\ Head(queue) \in Callbacks
           /\ Tail(queue) = <<>> => Newest(queue) = Head(queue)
           /\ Tail(queue) # <<>> => Newest(Tail(queue)) = Newest(queue)
           /\ \A c \in Callbacks : Has(queue, c) => Head(queue) = c \/ Has(Tail(queue), c)
<1> DEFINE rest == Tail(queue)
<1>1. /\ rest \in Seq(Callbacks) /\ Len(rest) = Len(queue) - 1
      /\ \A i \in 1 .. Len(rest) : rest[i] = queue[i + 1]
      /\ Head(queue) = queue[1] /\ Head(queue) \in Callbacks
    BY HeadTailProperties
<1>2. Len(queue) \in Nat /\ Len(queue) >= 1
    BY EmptySeq, LenProperties
<1> HIDE DEF rest
<1>3. rest = <<>> <=> Len(rest) = 0
    BY <1>1, EmptySeq
<1>4. rest = <<>> => Newest(queue) = Head(queue)
    BY <1>1, <1>2, <1>3 DEF Newest
<1>5. rest # <<>> => Newest(rest) = Newest(queue)
    BY <1>1, <1>2, <1>3 DEF Newest
<1>6. ASSUME NEW c \in Callbacks, Has(queue, c) PROVE Head(queue) = c \/ Has(rest, c)
    <2>1. PICK i \in 1 .. Len(queue) : queue[i] = c
        BY <1>6 DEF Has
    <2>2. CASE i = 1
        BY <1>1, <2>1, <2>2
    <2>3. CASE i # 1
        <3>1. i - 1 \in 1 .. Len(rest) /\ rest[i - 1] = queue[i]
            BY <1>1, <1>2, <2>1, <2>3
        <3> QED BY <2>1, <3>1 DEF Has
    <2> QED BY <2>2, <2>3
<1> QED BY <1>1, <1>2, <1>4, <1>5, <1>6 DEF rest

\* Unregistering a device closes its connection, and says so.
LEMMA DropTells ==
    ASSUME SupervisorInv, NEW d \in SKI, Drop(d)
    PROVE  /\ link' = link \ {d} /\ pending' \in [SKI -> Seq(Callbacks)]
           /\ \A e \in SKI \ {d} : pending'[e] = pending[e]
           /\ \A c \in Callbacks : Has(pending[d], c) => Has(pending'[d], c)
           /\ pending'[d] = <<>> => pending[d] = <<>> /\ d \notin link
           /\ pending'[d] # <<>> => Newest(pending'[d]) = "disconnected"
<1>1. pending \in [SKI -> Seq(Callbacks)] /\ Known(d) /\ "disconnected" \in Callbacks
    BY DEF SupervisorInv, SupervisorTypes, Followed, Callbacks
<1> DEFINE new == Append(pending[d], "disconnected")
<1>2. /\ new \in Seq(Callbacks) /\ new # <<>> /\ Newest(new) = "disconnected"
      /\ \A c \in Callbacks : Has(pending[d], c) => Has(new, c)
    BY <1>1, QueueAppended
<1>3. link' = link \ {d} /\ IF d \in link THEN pending' = [pending EXCEPT ![d] = new] ELSE pending' = pending
    BY DEF Drop, Post
<1> HIDE DEF new
<1>4. CASE d \in link
    BY <1>1, <1>2, <1>3, <1>4
<1>5. CASE d \notin link
    BY <1>1, <1>3, <1>5 DEF Known
<1> QED BY <1>4, <1>5

\* What happens to a device outside of the watchdog, but for a new connection.
Calm(d) ==
    /\ record'[d] = record[d] /\ pause'[d] = pause[d]
    /\ Has(pending[d], "disconnected") => Has(pending'[d], "disconnected")
    /\ Live(d)' =>
           /\ Live(d) /\ row'[d].since = row[d].since /\ heard[d] \subseteq heard'[d]
           /\ d \in required => d \in required'
           /\ \/ row'[d].read = row[d].read
              \/ row'[d].read = 0 /\ (record[d].attempts > 0 => "read" \in heard'[d])
           /\ \/ row'[d].beat = row[d].beat
              \/ row'[d].beat = 0 /\ (record[d].attempts > 0 => "beat" \in heard'[d])

LEMMA CalmKeeps ==
    ASSUME SupervisorInv, NEW d \in SKI, tick' = tick, Known(d)', Calm(d)
    PROVE  Followed(d)'
<1>1. Followed(d) /\ InTick' = InTick /\ Present(d)' = Present(d) /\ (Doomed(d) => Doomed(d)')
    BY DEF SupervisorInv, Calm, InTick, Present, Doomed
<1>2. Attempted(d)'
    BY <1>1 DEF Followed, Attempted, Calm
<1>3. Absent(d)'
    <2>1. Excluded(d)' = Excluded(d) /\ (Live(d)' => Live(d) /\ row'[d].since = row[d].since)
        BY DEF Calm, Excluded
    <2> QED BY <1>1, <2>1 DEF Followed, Absent
<1>4. Confirmed(d)' => Confirmed(d)
    BY DEF Confirmed, Calm, Live
<1>5. Answered(d)'
    <2>1. ASSUME Live(d)', record'[d].attempts > 0, ~Doomed(d)'
          PROVE  /\ row'[d].read # Never => "read" \in heard'[d]
                 /\ row'[d].beat # Never => "beat" \in heard'[d]
        <3>1. /\ row[d].read # Never => "read" \in heard[d]
              /\ row[d].beat # Never => "beat" \in heard[d]
            BY <1>1, <2>1 DEF Followed, Answered, Calm
        <3> QED BY <2>1, <3>1 DEF Calm
    <2>2. record'[d] = record[d]
        BY DEF Calm
    <2> QED BY <1>1, <1>4, <2>1, <2>2 DEF Followed, Answered
<1> QED BY <1>2, <1>3, <1>5, <1>1 DEF Followed

\* A device to which nothing happens.
LEMMA SameIsCalm ==
    ASSUME SupervisorInv, NEW d \in SKI, row'[d] = row[d], d \in required => d \in required',
           d \in removed' => d \in removed, pending'[d] = pending[d], d \in link' <=> d \in link,
           heard[d] \subseteq heard'[d], record'[d] = record[d], pause'[d] = pause[d]
    PROVE  Known(d)' /\ Calm(d)
<1>1. Known(d)
    BY DEF SupervisorInv, Followed
<1> QED BY <1>1 DEF Known, Calm, Live

\* What is heard of one device.
LEMMA HearAdds ==
    ASSUME SupervisorInv, NEW d \in SKI, NEW what \in {"read", "beat"}, Hear(d, what)
    PROVE  /\ \A e \in SKI : heard[e] \subseteq heard'[e]
           /\ record[d].attempts > 0 => what \in heard'[d]
BY DEF Hear, SupervisorInv, RecoveryInv, Heard

\* The steps of the devices, the stack and the handlers of the registry.
LEMMA DeviceKeeps ==
    ASSUME SupervisorInv, NEW d \in SKI,
           \/ Pair(d) \/ Unpair(d) \/ Revoke(d) \/ FallSilent(d) \/ LinkUp(d) \/ LinkDown(d)
           \/ Support(d) \/ Read(d) \/ Beat(d)
    PROVE  SupervisorTypes' /\ \A e \in SKI : Followed(e)'
<1>1. tick' = tick /\ record' = record /\ pause' = pause
    BY DEF Pair, Unpair, Revoke, FallSilent, LinkUp, LinkDown, Support, Read, Beat, supervisorVars,
       historyVars
<1>2. SupervisorTypes /\ Known(d) /\ "connected" \in Callbacks /\ "disconnected" \in Callbacks
    BY DEF SupervisorInv, Followed, Callbacks
<1>3. /\ row \in [SKI -> RowType] /\ pending \in [SKI -> Seq(Callbacks)] /\ Never \in Nat
      /\ heard \in Heard /\ row[d] \in RowType /\ NoRow \in RowType
    <2>1. NoRow \in RowType
        BY NeverExceeds DEF NoRow, RowType
    <2> QED BY <1>2, <2>1, NeverExceeds DEF SupervisorInv, SupervisorTypes, RecoveryInv
<1>4. ASSUME Pair(d) \/ Support(d) \/ FallSilent(d) PROVE SupervisorTypes' /\ \A e \in SKI : Known(e)' /\ Calm(e)
    <2>1. /\ pending' = pending /\ link' = link /\ heard' = heard
          /\ required \subseteq required' /\ removed' \subseteq removed /\ required' \subseteq SKI
        BY <1>2, <1>4 DEF Pair, Support, FallSilent, stackVars, heardVars, registryVars, SupervisorTypes
    <2>2. CASE row' = row
        <3>1. SupervisorTypes'
            BY <1>1, <1>2, <2>1, <2>2 DEF SupervisorTypes
        <3> QED BY <1>1, <2>1, <2>2, <3>1, SameIsCalm
    <2>3. CASE row' = [row EXCEPT ![d] = MarkTrusted(@)] /\ d \notin removed'
        <3>1. /\ MarkTrusted(row[d]) \in RowType
              /\ MarkTrusted(row[d]).health = "connected" => row[d].health = "connected"
              /\ MarkTrusted(row[d]).trusted /\ MarkTrusted(row[d]).since = row[d].since
              /\ MarkTrusted(row[d]).read = row[d].read /\ MarkTrusted(row[d]).beat = row[d].beat
            BY <1>3 DEF MarkTrusted, RowType
        <3>2. row'[d] = MarkTrusted(row[d]) /\ \A e \in SKI \ {d} : row'[e] = row[e]
            BY <1>3, <2>3
        <3>3. SupervisorTypes'
            BY <1>1, <1>2, <1>3, <2>1, <2>3, <3>1 DEF SupervisorTypes
        <3>4. Known(d)' /\ Calm(d)
            BY <1>1, <1>2, <2>1, <2>3, <3>1, <3>2 DEF Known, Calm, Live
        <3> QED BY <1>1, <2>1, <3>2, <3>3, <3>4, SameIsCalm
    <2> QED BY <1>4, <2>2, <2>3 DEF Pair, Support, FallSilent, registryVars
<1>5. ASSUME Unpair(d) \/ Revoke(d) PROVE SupervisorTypes' /\ \A e \in SKI : Known(e)' /\ Calm(e)
    <2>1. Drop(d)
        BY <1>5 DEF Unpair, Revoke
    <2>2. /\ link' = link \ {d} /\ pending' \in [SKI -> Seq(Callbacks)]
          /\ \A e \in SKI \ {d} : pending'[e] = pending[e]
          /\ Has(pending[d], "disconnected") => Has(pending'[d], "disconnected")
          /\ pending'[d] = <<>> => pending[d] = <<>> /\ d \notin link
          /\ pending'[d] # <<>> => Newest(pending'[d]) = "disconnected"
        BY <1>2, <2>1, DropTells
    <2>3. /\ \A e \in SKI \ {d} : /\ row'[e] = row[e] /\ heard'[e] = heard[e]
                                  /\ e \in required => e \in required'
                                  /\ e \in removed' => e \in removed
          /\ required' \subseteq SKI /\ removed' \subseteq SKI
        BY <1>2, <1>3, <1>5 DEF Unpair, Revoke, heardVars, SupervisorTypes, Heard
    <2>4. /\ row' \in [SKI -> RowType] /\ row'[d].health # "connected"
          /\ d \in removed' => row'[d] = NoRow
        <3>1. CASE Unpair(d)
            BY <1>3, <3>1 DEF Unpair, NoRow
        <3>2. CASE Revoke(d) /\ d \in removed
            <4>1. row' = row /\ removed' = removed
                BY <1>3, <3>2 DEF Revoke
            <4> QED BY <1>2, <1>3, <3>2, <4>1 DEF Known, NoRow
        <3>3. CASE Revoke(d) /\ d \notin removed
            <4>1. row' = [row EXCEPT ![d] = MarkUntrusted(@)] /\ removed' = removed
                BY <3>3 DEF Revoke
            <4>2. MarkUntrusted(row[d]) \in RowType /\ MarkUntrusted(row[d]).health = "disconnected"
                BY <1>3 DEF MarkUntrusted, RowType
            <4> QED BY <1>3, <3>3, <4>1, <4>2
        <3> QED BY <1>5, <3>1, <3>2, <3>3
    <2>5. SupervisorTypes'
        BY <1>1, <1>2, <2>2, <2>3, <2>4 DEF SupervisorTypes
    <2>6. Known(d)' /\ Calm(d)
        BY <1>1, <2>2, <2>4 DEF Known, Calm, Live
    <2> QED BY <1>1, <2>2, <2>3, <2>5, <2>6, SameIsCalm
<1>6. ASSUME LinkUp(d) \/ LinkDown(d) PROVE SupervisorTypes' /\ \A e \in SKI : Known(e)' /\ Calm(e)
    <2>1. PICK c \in Callbacks :
              /\ pending' = [pending EXCEPT ![d] = Append(@, c)]
              /\ link' = IF c = "connected" THEN link \cup {d} ELSE link \ {d}
        BY <1>2, <1>6 DEF LinkUp, LinkDown, Post
    <2>2. row' = row /\ required' = required /\ removed' = removed /\ heard' = heard
        BY <1>6 DEF LinkUp, LinkDown, registryVars, heardVars
    <2>3. /\ Append(pending[d], c) \in Seq(Callbacks) /\ Append(pending[d], c) # <<>>
          /\ Newest(Append(pending[d], c)) = c
          /\ Has(pending[d], "disconnected") => Has(Append(pending[d], c), "disconnected")
        BY <1>2, <1>3, QueueAppended
    <2>4. /\ pending' \in [SKI -> Seq(Callbacks)] /\ pending'[d] = Append(pending[d], c)
          /\ \A e \in SKI \ {d} : pending'[e] = pending[e] /\ (e \in link' <=> e \in link)
        BY <1>3, <2>1, <2>3
    <2>5. SupervisorTypes'
        BY <1>1, <1>2, <2>1, <2>2, <2>4 DEF SupervisorTypes
    <2>6. d \in link' <=> c = "connected"
        BY <2>1
    <2>7. Known(d)'
        BY <1>2, <2>2, <2>3, <2>4, <2>6 DEF Known, Live, Callbacks
    <2>8. Calm(d)
        BY <1>1, <2>2, <2>3, <2>4 DEF Calm, Live
    <2> QED BY <1>1, <2>2, <2>4, <2>5, <2>7, <2>8, SameIsCalm
<1>7. ASSUME Read(d) PROVE SupervisorTypes' /\ \A e \in SKI : Known(e)' /\ Calm(e)
    <2> DEFINE age == IF row[d].health = "connected" THEN 0 ELSE Never
    <2>1. /\ row' = [row EXCEPT ![d] = [row[d] EXCEPT !.read = age]] /\ age \in Nat
          /\ row[d].health # "unknown" /\ Hear(d, "read")
        BY <1>3, <1>7 DEF Read
    <2>2. /\ required' = required /\ removed' = removed /\ pending' = pending /\ link' = link
        BY <1>7 DEF Read, stackVars
    <2>3. /\ \A e \in SKI : heard[e] \subseteq heard'[e]
          /\ record[d].attempts > 0 => "read" \in heard'[d]
        BY <2>1, HearAdds
    <2>4. /\ [row[d] EXCEPT !.read = age] \in RowType
          /\ [row[d] EXCEPT !.read = age].health = row[d].health
          /\ [row[d] EXCEPT !.read = age].trusted = row[d].trusted
          /\ [row[d] EXCEPT !.read = age].since = row[d].since
          /\ [row[d] EXCEPT !.read = age].beat = row[d].beat
          /\ [row[d] EXCEPT !.read = age].read = age
        BY <1>3, <2>1 DEF RowType
    <2>5. /\ row' \in [SKI -> RowType] /\ \A e \in SKI \ {d} : row'[e] = row[e]
          /\ row'[d] = [row[d] EXCEPT !.read = age]
        BY <1>3, <2>1, <2>4
    <2>6. SupervisorTypes'
        BY <1>1, <1>2, <2>2, <2>5 DEF SupervisorTypes
    <2>7. Known(d)'
        BY <1>2, <2>1, <2>2, <2>4, <2>5 DEF Known, Live, NoRow
    <2>8. Calm(d)
        BY <1>1, <2>2, <2>3, <2>4, <2>5 DEF Calm, Live
    <2> QED BY <1>1, <2>2, <2>3, <2>5, <2>6, <2>7, <2>8, SameIsCalm
<1>8. ASSUME Beat(d) PROVE SupervisorTypes' /\ \A e \in SKI : Known(e)' /\ Calm(e)
    <2>1. /\ row' = [row EXCEPT ![d] = [row[d] EXCEPT !.beat = 0]]
          /\ row[d].health = "connected" /\ Hear(d, "beat")
        BY <1>3, <1>8 DEF Beat
    <2>2. /\ required' = required /\ removed' = removed /\ pending' = pending /\ link' = link
        BY <1>8 DEF Beat, stackVars
    <2>3. /\ \A e \in SKI : heard[e] \subseteq heard'[e]
          /\ record[d].attempts > 0 => "beat" \in heard'[d]
        BY <2>1, HearAdds
    <2>4. /\ [row[d] EXCEPT !.beat = 0] \in RowType
          /\ [row[d] EXCEPT !.beat = 0].health = row[d].health
          /\ [row[d] EXCEPT !.beat = 0].trusted = row[d].trusted
          /\ [row[d] EXCEPT !.beat = 0].since = row[d].since
          /\ [row[d] EXCEPT !.beat = 0].read = row[d].read
          /\ [row[d] EXCEPT !.beat = 0].beat = 0
        BY <1>3 DEF RowType
    <2>5. /\ row' \in [SKI -> RowType] /\ \A e \in SKI \ {d} : row'[e] = row[e]
          /\ row'[d] = [row[d] EXCEPT !.beat = 0]
        BY <1>3, <2>1, <2>4
    <2>6. SupervisorTypes'
        BY <1>1, <1>2, <2>2, <2>5 DEF SupervisorTypes
    <2>7. Known(d)'
        BY <1>2, <2>1, <2>2, <2>4, <2>5 DEF Known, Live, NoRow
    <2>8. Calm(d)
        BY <1>1, <2>2, <2>3, <2>4, <2>5 DEF Calm, Live
    <2> QED BY <1>1, <2>2, <2>3, <2>5, <2>6, <2>7, <2>8, SameIsCalm
<1>9. SupervisorTypes' /\ \A e \in SKI : Known(e)' /\ Calm(e)
    BY <1>4, <1>5, <1>6, <1>7, <1>8
<1> QED BY <1>1, <1>9, CalmKeeps

\* A callback comes to the registry: a connection that is new has age 0 and no reads.
LEMMA CallbackKeeps ==
    ASSUME SupervisorInv, NEW d \in SKI, Callback(d)
    PROVE  SupervisorTypes' /\ \A e \in SKI : Followed(e)'
<1>1. /\ tick' = tick /\ record' = record /\ pause' = pause /\ required' = required
      /\ removed' = removed /\ link' = link
    BY DEF Callback, supervisorVars, historyVars
<1>2. /\ SupervisorTypes /\ Followed(d) /\ row \in [SKI -> RowType] /\ row[d] \in RowType
      /\ pending \in [SKI -> Seq(Callbacks)] /\ heard \in Heard
    BY DEF SupervisorInv, SupervisorTypes, RecoveryInv
<1> DEFINE new == IF d \in removed THEN row[d]
                  ELSE IF Head(pending[d]) = "connected" THEN MarkConnected(row[d])
                  ELSE MarkDisconnected(row[d])
           kept == IF new.beat = Never THEN {"read"} ELSE {"read", "beat"}
<1>3. /\ pending[d] # <<>> /\ pending' = [pending EXCEPT ![d] = Tail(@)]
      /\ row' = [row EXCEPT ![d] = new] /\ row'[d] = new
      /\ \A e \in SKI \ {d} : row'[e] = row[e] /\ pending'[e] = pending[e]
    BY <1>2 DEF Callback
<1>4. /\ heard'[d] = heard[d] \cap kept /\ \A e \in SKI \ {d} : heard'[e] = heard[e]
    BY <1>2, <1>3 DEF Callback, Heard
<1>5. /\ Tail(pending[d]) \in Seq(Callbacks) /\ Head(pending[d]) \in Callbacks
      /\ Tail(pending[d]) = <<>> => Newest(pending[d]) = Head(pending[d])
      /\ Tail(pending[d]) # <<>> => Newest(Tail(pending[d])) = Newest(pending[d])
      /\ \A c \in Callbacks :
            Has(pending[d], c) => Head(pending[d]) = c \/ Has(Tail(pending[d]), c)
    BY <1>2, <1>3, QueueTaken
<1>6. pending'[d] = Tail(pending[d]) /\ pending' \in [SKI -> Seq(Callbacks)]
    BY <1>2, <1>3, <1>5
<1>7. /\ new \in RowType
      /\ d \in removed => new = NoRow
      /\ new.health = "connected" =>
            /\ Head(pending[d]) = "connected" /\ new.trusted
            /\ new = row[d] \/ (new.since = 0 /\ new.read = Never /\ new.beat = Never)
            /\ row[d].health = "connected" => new = row[d]
    <2>1. d \in removed => row[d] = NoRow
        BY <1>2 DEF Followed, Known
    <2>2. row[d].health = "connected" => row[d].trusted
        BY <1>2 DEF Followed, Known, Live
    <2>3. /\ MarkConnected(row[d]) \in RowType
          /\ row[d].health = "connected" => MarkConnected(row[d]) = row[d]
          /\ row[d].health # "connected" =>
                /\ MarkConnected(row[d]).trusted /\ MarkConnected(row[d]).since = 0
                /\ MarkConnected(row[d]).read = Never /\ MarkConnected(row[d]).beat = Never
        BY <1>2, NeverExceeds DEF MarkConnected, RowType
    <2>4. /\ MarkDisconnected(row[d]) \in RowType /\ MarkDisconnected(row[d]).health # "connected"
        BY <1>2 DEF MarkDisconnected, RowType
    <2>5. NoRow.health # "connected"
        BY DEF NoRow
    <2>6. CASE d \in removed
        BY <1>2, <2>1, <2>5, <2>6
    <2>7. CASE d \notin removed /\ Head(pending[d]) = "connected"
        BY <2>2, <2>3, <2>7
    <2>8. CASE d \notin removed /\ Head(pending[d]) # "connected"
        BY <2>4, <2>8
    <2> QED BY <2>6, <2>7, <2>8
<1> HIDE DEF new
<1>8. SupervisorTypes'
    BY <1>1, <1>2, <1>3, <1>6, <1>7 DEF SupervisorTypes
<1>9. Known(d)'
    <2>1. pending'[d] = <<>> => (Live(d)' => d \in link')
        BY <1>1, <1>2, <1>3, <1>5, <1>6, <1>7 DEF Followed, Known, Live
    <2>2. pending'[d] # <<>> => Newest(pending'[d]) = IF d \in link' THEN "connected" ELSE "disconnected"
        BY <1>1, <1>2, <1>3, <1>5, <1>6 DEF Followed, Known
    <2> QED BY <1>1, <1>3, <1>7, <2>1, <2>2 DEF Known, Live
<1>10. /\ Excluded(d)' = Excluded(d) /\ InTick' = InTick /\ Present(d)' = Present(d)
       /\ Live(d)' => row'[d].since = 0 \/ (Live(d) /\ row'[d] = row[d])
    BY <1>1, <1>3, <1>7 DEF Excluded, InTick, Present, Live
<1>11. Attempted(d)' /\ Absent(d)'
    BY <1>1, <1>2, <1>10 DEF Followed, Attempted, Absent
<1>12. Live(d)' /\ Doomed(d) => Doomed(d)'
    BY <1>1, <1>3, <1>5, <1>6, <1>7, <1>10 DEF Doomed, Live, Callbacks
<1>13. Confirmed(d)' => Confirmed(d)
    BY <1>1, <1>3, <1>7 DEF Confirmed
<1>14. Answered(d)'
    <2>1. ASSUME Live(d)', record'[d].attempts > 0, ~Doomed(d)'
          PROVE  /\ row'[d].read # Never => "read" \in heard'[d]
                 /\ row'[d].beat # Never => "beat" \in heard'[d]
        <3>1. CASE row'[d] = row[d]
            <4>1. /\ row[d].read # Never => "read" \in heard[d]
                  /\ row[d].beat # Never => "beat" \in heard[d]
                BY <1>1, <1>2, <1>12, <2>1, <3>1 DEF Followed, Answered, Live
            <4> QED BY <1>3, <1>4, <3>1, <4>1
        <3>2. CASE row'[d] # row[d]
            BY <1>3, <1>7, <2>1, <3>2 DEF Live
        <3> QED BY <3>1, <3>2
    <2> QED BY <1>1, <1>2, <1>10, <1>13, <2>1 DEF Followed, Answered
<1>15. \A e \in SKI \ {d} : Followed(e)'
    BY <1>1, <1>3, <1>4, SameIsCalm, CalmKeeps
<1> QED BY <1>8, <1>9, <1>11, <1>14, <1>15 DEF Followed

\* An interval passes: what is no longer told apart stays so, and a delay is counted down
\* while the pause grows.
LEMMA TickBeginKeeps ==
    ASSUME SupervisorInv, TickBegin
    PROVE  SupervisorTypes' /\ \A e \in SKI : Followed(e)'
<1>1. /\ required' = required /\ removed' = removed /\ pending' = pending /\ link' = link
      /\ heard' = heard /\ tick.step = "idle" /\ \A e \in SKI : pending[e] = <<>>
    BY DEF TickBegin, stackVars, heardVars
<1>2. SupervisorTypes /\ row \in [SKI -> RowType] /\ pause \in [SKI -> Nat] /\ record \in [SKI -> RecordType]
    BY DEF SupervisorInv, SupervisorTypes, RecoveryInv
<1>3. /\ GracePeriod \in Nat /\ StaleThreshold \in Nat /\ HeartbeatTolerance \in Nat /\ MaxBackoff \in Nat
      /\ GracePeriod >= 1
    BY ThresholdAssumption
<1> DEFINE Older(e) == [[[row[e] EXCEPT !.since = Aged(row[e].since, GracePeriod)]
                             EXCEPT !.read = Aged(row[e].read, StaleThreshold)]
                             EXCEPT !.beat = Aged(row[e].beat, HeartbeatTolerance)]
<1>4. ASSUME NEW e \in SKI
      PROVE  /\ row'[e] \in RowType /\ row'[e].health = row[e].health /\ row'[e].trusted = row[e].trusted
             /\ row'[e].since = Aged(row[e].since, GracePeriod)
             /\ row'[e].read # Never => row[e].read # Never
             /\ row'[e].beat # Never => row[e].beat # Never
             /\ row[e] = NoRow => row'[e] = NoRow
    <2>1. row[e] \in RowType /\ row'[e] = Older(e)
        BY <1>2 DEF TickBegin, RowType
    <2>2. /\ Aged(row[e].since, GracePeriod) \in Nat /\ Aged(row[e].read, StaleThreshold) \in Nat
          /\ Aged(row[e].beat, HeartbeatTolerance) \in Nat
        BY <1>3, <2>1, AgedType DEF RowType
    <2>3. /\ Aged(Never, GracePeriod) = Never /\ Aged(Never, StaleThreshold) = Never
          /\ Aged(Never, HeartbeatTolerance) = Never
        BY <1>3, NeverExceeds, AgedType
    <2>4. Older(e) \in RowType
        BY <2>1, <2>2 DEF RowType
    <2>5. /\ Older(e).health = row[e].health /\ Older(e).trusted = row[e].trusted
          /\ Older(e).since = Aged(row[e].since, GracePeriod)
          /\ Older(e).read = Aged(row[e].read, StaleThreshold)
          /\ Older(e).beat = Aged(row[e].beat, HeartbeatTolerance)
        BY <2>1 DEF RowType
    <2> HIDE DEF Older
    <2>6. row[e] = NoRow => Older(e) = NoRow
        <3>1. \A a, b \in RowType :
                  /\ a.health = b.health /\ a.trusted = b.trusted /\ a.since = b.since
                  /\ a.read = b.read /\ a.beat = b.beat
                  => a = b
            BY DEF RowType
        <3>2. NoRow.since = Never /\ NoRow.read = Never /\ NoRow.beat = Never
            BY DEF NoRow
        <3> QED BY <2>1, <2>3, <2>4, <2>5, <3>1, <3>2
    <2> QED BY <2>1, <2>3, <2>4, <2>5, <2>6
<1>5. row' \in [SKI -> RowType]
    <2>1. row' = [e \in SKI |-> row'[e]]
        BY DEF TickBegin
    <2> QED BY <1>4, <2>1
<1>6. /\ tick' \in TickType /\ tick'.step = "scan" /\ tick'.at = {} /\ tick'.todo = {} /\ tick'.stale = {}
      /\ \A e \in SKI : tick'.health[e] = Snapshot(e)
    <2>1. \A e \in SKI : Snapshot(e) \in Snapshots
        BY <1>2 DEF Snapshot, Snapshots, RowType
    <2>2. [e \in SKI |-> Snapshot(e)] \in [SKI -> Snapshots]
        BY <2>1
    <2> QED BY <2>2 DEF TickBegin, NoTick, TickType
<1>7. \A e \in SKI : pause'[e] = Aged(pause[e], MaxBackoff) /\ pause'[e] \in Nat
    BY <1>2, <1>3, AgedType DEF TickBegin
<1>8. pause' \in [SKI -> Nat]
    <2>1. pause' = [e \in SKI |-> pause'[e]]
        BY DEF TickBegin
    <2> QED BY <1>7, <2>1
<1>9. SupervisorTypes'
    BY <1>1, <1>2, <1>5, <1>6, <1>8 DEF SupervisorTypes
<1>10. ASSUME NEW e \in SKI PROVE Followed(e)'
    <2>1. Followed(e) /\ record[e] \in RecordType /\ e \notin tick.at /\ row[e] \in RowType
        BY <1>1, <1>2 DEF SupervisorInv, Followed, Attempted
    <2>2. Known(e)'
        BY <1>1, <1>4, <2>1 DEF Followed, Known, Live
    <2> DEFINE left == IF record[e].wait = 0 THEN 0 ELSE record[e].wait - 1
    <2>3. /\ record'[e].state = record[e].state /\ record'[e].attempts = record[e].attempts
          /\ record'[e].waits = record[e].waits /\ record'[e].wait = left
        <3>1. record'[e] = [record[e] EXCEPT !.wait = left]
            BY DEF TickBegin
        <3> HIDE DEF left
        <3> QED BY <2>1, <3>1 DEF RecordType
    <2>4. record[e].attempts > 0 => left + pause'[e] >= Backoff[record[e].attempts]
        <3>1. /\ record[e].wait \in Nat /\ record[e].attempts \in Nat /\ pause[e] \in Nat
              /\ record[e].state # "recovering"
            BY <1>1, <1>2, <2>1 DEF RecordType, Followed, Attempted
        <3>2. /\ Backoff[record[e].attempts] \in Nat
              /\ Backoff[record[e].attempts] <= MaxBackoff
            BY <3>1, BackoffBounds
        <3>3. record[e].attempts > 0 => record[e].wait + pause[e] >= Backoff[record[e].attempts]
            BY <2>1, <3>1 DEF Followed, Attempted
        <3>4. pause'[e] = IF pause[e] <= MaxBackoff THEN pause[e] + 1 ELSE pause[e]
            BY <1>7 DEF Aged
        <3> QED BY <1>3, <3>1, <3>2, <3>3, <3>4
    <2>5. Attempted(e)'
        BY <1>1, <1>6, <2>1, <2>3, <2>4 DEF Followed, Attempted
    <2>6. Absent(e)'
        <3>1. Live(e)' => Live(e) /\ Present(e)'
            BY <1>4, <1>6, <2>1 DEF Live, Present, Followed, Known, Snapshot
        <3>2. Excluded(e)' => Excluded(e)
            BY <2>3 DEF Excluded
        <3>3. Excluded(e) /\ Live(e) => row[e].since = 0
            BY <1>1, <2>1 DEF Followed, Absent, InTick
        <3>4. row[e].since = 0 => row'[e].since = 1
            BY <1>3, <1>4 DEF Aged
        <3> QED BY <1>6, <3>1, <3>2, <3>3, <3>4 DEF Absent, InTick
    <2>7. Answered(e)'
        <3>1. ~Doomed(e)
            BY <1>1 DEF Doomed, Has
        <3> QED BY <1>1, <1>4, <1>6, <2>1, <2>3, <3>1 DEF Followed, Answered, Live, InTick
    <2> QED BY <2>2, <2>5, <2>6, <2>7 DEF Followed
<1> QED BY <1>9, <1>10

\* The stale devices of a tick are among those that the record does not excuse.
LEMMA TickScanKeeps ==
    ASSUME SupervisorInv, TickScan
    PROVE  SupervisorTypes' /\ \A e \in SKI : Followed(e)'
<1>1. /\ row' = row /\ required' = required /\ removed' = removed /\ pending' = pending /\ link' = link
      /\ heard' = heard /\ record' = record /\ pause' = pause /\ tick.step = "scan"
    BY DEF TickScan, registryVars, stackVars, heardVars, historyVars
<1>2. SupervisorTypes /\ tick \in TickType /\ row \in [SKI -> RowType]
    BY DEF SupervisorInv, SupervisorTypes
<1> DEFINE stale == {d \in SKI : Stale(d)}
           todo == stale \cup {d \in SKI : tick.health[d] # "unknown"}
<1>3. /\ tick' \in TickType /\ tick'.step = "run" /\ tick'.at = tick.at /\ tick'.health = tick.health
      /\ tick'.stale = stale /\ tick'.todo = todo
    <2>1. tick' = [[[tick EXCEPT !.step = "run"] EXCEPT !.stale = stale] EXCEPT !.todo = todo]
        BY <1>2 DEF TickScan, TickType
    <2>2. stale \in SUBSET SKI /\ todo \in SUBSET SKI
        OBVIOUS
    <2> HIDE DEF stale, todo
    <2> QED BY <1>2, <2>1, <2>2 DEF TickType
<1>4. SupervisorTypes'
    BY <1>1, <1>2, <1>3 DEF SupervisorTypes
<1>5. ASSUME NEW e \in SKI PROVE Followed(e)'
    <2>1. Followed(e) /\ e \notin tick.at /\ row[e] \in RowType
        BY <1>1, <1>2 DEF SupervisorInv, Followed, Attempted
    <2>2. Known(e)' /\ Attempted(e)'
        BY <1>1, <1>3, <2>1 DEF Followed, Known, Attempted, Live
    <2>3. Absent(e)'
        <3>1. Present(e)' = Present(e) /\ Live(e)' = Live(e) /\ Excluded(e)' = Excluded(e)
            BY <1>1, <1>3 DEF Present, Live, Excluded
        <3>2. e \in stale => Live(e) /\ row[e].since > GracePeriod
            BY DEF Stale, Live
        <3>3. Present(e) => e \in todo
            BY DEF Present
        <3>4. GracePeriod \in Nat /\ GracePeriod >= 1 /\ row[e].since \in Nat
            BY <2>1, ThresholdAssumption DEF RowType
        <3>5. Excluded(e) /\ Live(e) => row[e].since = 0 \/ (row[e].since = 1 /\ Present(e))
            BY <2>1 DEF Followed, Absent
        <3>6. e \in stale => ~Excluded(e)
            BY <3>2, <3>4, <3>5
        <3> HIDE DEF stale, todo
        <3>7. tick.step # "idle" /\ ~Present(e) /\ Live(e) => row[e].since = 0
            BY <2>1 DEF Followed, Absent
        <3> QED BY <1>1, <1>3, <3>1, <3>3, <3>5, <3>6, <3>7 DEF Absent, InTick
    <2>4. Answered(e)'
        <3>1. ~Doomed(e)
            BY <1>1, <2>1 DEF Doomed, InTick
        <3>2. Present(e)' => e \in tick'.todo
            BY <1>3 DEF Present
        <3> QED BY <1>1, <2>1, <3>1, <3>2 DEF Followed, Answered, Live
    <2> QED BY <2>2, <2>3, <2>4 DEF Followed
<1> QED BY <1>4, <1>5

LEMMA TickEndKeeps ==
    ASSUME SupervisorInv, TickEnd
    PROVE  SupervisorTypes' /\ \A e \in SKI : Followed(e)'
<1>1. /\ row' = row /\ required' = required /\ removed' = removed /\ pending' = pending /\ link' = link
      /\ heard' = heard /\ record' = record /\ pause' = pause /\ tick.step = "run" /\ tick.todo = {}
      /\ tick' = NoTick
    BY DEF TickEnd, registryVars, stackVars, historyVars
<1>2. SupervisorTypes
    BY DEF SupervisorInv
<1>3. /\ NoTick \in TickType /\ NoTick.step = "idle" /\ NoTick.at = {}
    BY DEF NoTick, TickType, Snapshots
<1>4. SupervisorTypes'
    BY <1>1, <1>2, <1>3 DEF SupervisorTypes
<1>5. ASSUME NEW e \in SKI PROVE Followed(e)'
    <2>1. Followed(e) /\ e \notin tick.at
        BY <1>1 DEF SupervisorInv, Followed, Attempted
    <2>2. Known(e)' /\ Attempted(e)'
        BY <1>1, <1>3, <2>1 DEF Followed, Known, Attempted, Live
    <2>3. Absent(e)'
        BY <1>1, <1>3, <2>1 DEF Followed, Absent, InTick, Live, Excluded
    <2>4. Answered(e)'
        BY <1>1, <1>3, <2>1 DEF Followed, Answered, Doomed, InTick, Live
    <2> QED BY <2>2, <2>3, <2>4 DEF Followed
<1> QED BY <1>4, <1>5

-----------------------------------------------------------------------------
(* The tick of the supervisor.                                             *)

\* A device that the tick does not look at.
LEMMA OthersKeep ==
    ASSUME SupervisorInv, NEW d \in SKI, NEW e \in SKI, e # d, InTick, d \in tick.at \/ tick.step = "run",
           row' = row, required' = required, removed' = removed, pending'[e] = pending[e],
           e \in link' <=> e \in link, heard'[e] = heard[e], record'[e] = record[e], pause'[e] = pause[e],
           InTick', tick'.at \subseteq {d}, tick'.health = tick.health, tick'.stale = tick.stale,
           e \in tick'.todo <=> e \in tick.todo
    PROVE  Followed(e)'
<1>1. Followed(e) /\ Followed(d)
    BY DEF SupervisorInv
<1>2. e \notin tick.at /\ e \notin tick'.at /\ record[e].state # "recovering"
    BY <1>1 DEF Followed, Attempted
<1>3. Known(e)'
    BY <1>1 DEF Followed, Known, Live
<1>4. Attempted(e)'
    BY <1>1, <1>2 DEF Followed, Attempted
<1>5. Absent(e)'
    BY <1>1 DEF Followed, Absent, InTick, Present, Live, Excluded
<1>6. Answered(e)'
    <2>1. Doomed(e) => Doomed(e)'
        BY <1>2 DEF Doomed, InTick
    <2>2. Confirmed(e)' = Confirmed(e) /\ Live(e)' = Live(e) /\ Present(e)' = Present(e)
        BY DEF Confirmed, Live, Present
    <2> QED BY <1>1, <2>1, <2>2 DEF Followed, Answered
<1> QED BY <1>3, <1>4, <1>5, <1>6 DEF Followed

\* What the tick writes of the device it is done with.
LEMMA DoneWrites ==
    ASSUME tick \in TickType, NEW d \in SKI, Done(d)
    PROVE  /\ tick' \in TickType /\ tick'.step = "run" /\ tick'.at = {} /\ tick'.todo = tick.todo \ {d}
           /\ tick'.health = tick.health /\ tick'.stale = tick.stale
<1>1. tick' = [[[tick EXCEPT !.step = "run"] EXCEPT !.at = {}] EXCEPT !.todo = tick.todo \ {d}]
    BY DEF Done, TickType
<1>2. tick.todo \ {d} \in SUBSET SKI /\ {} \in SUBSET SKI
    BY DEF TickType
<1> QED BY <1>1, <1>2 DEF TickType

\* A tick that is done with a device leaves the others alone.
LEMMA DoneKeeps ==
    ASSUME SupervisorInv, NEW d \in SKI, Done(d), InTick, d \in tick.at \/ tick.step = "run",
           row' = row, required' = required, removed' = removed, pending' = pending, link' = link,
           pause' = pause, record' \in [SKI -> RecordType],
           \A e \in SKI \ {d} : record'[e] = record[e] /\ heard'[e] = heard[e],
           Attempted(d)', Absent(d)', Answered(d)'
    PROVE  SupervisorTypes' /\ \A e \in SKI : Followed(e)'
<1>1. SupervisorTypes /\ Followed(d) /\ tick \in TickType
    BY DEF SupervisorInv, SupervisorTypes
<1>2. /\ tick' \in TickType /\ tick'.step = "run" /\ tick'.at = {} /\ tick'.todo = tick.todo \ {d}
      /\ tick'.health = tick.health /\ tick'.stale = tick.stale
    BY <1>1, DoneWrites
<1>3. SupervisorTypes'
    BY <1>1, <1>2 DEF SupervisorTypes
<1>4. Followed(d)'
    BY <1>1 DEF Followed, Known, Live
<1>5. \A e \in SKI \ {d} : Followed(e)'
    <2> SUFFICES ASSUME NEW e \in SKI \ {d} PROVE Followed(e)'
        OBVIOUS
    <2>1. InTick' /\ tick'.at \subseteq {d}
        BY <1>2 DEF InTick
    <2>2. e \in tick'.todo <=> e \in tick.todo
        BY <1>2
    <2> QED BY <1>2, <2>1, <2>2, OthersKeep
<1> QED BY <1>3, <1>4, <1>5

\* Nothing is confirmed that an attempt was not answered by.
LEMMA UnansweredUnconfirmed ==
    ASSUME SupervisorInv, NEW d \in SKI, tick.step = "run", d \in tick.todo,
           record[d].attempts > 0, ~Success(d, heard[d])
    PROVE  ~Confirmed(d)
<1>1. Followed(d) /\ ~Doomed(d)
    BY DEF SupervisorInv, Followed, Attempted, Doomed
<1>2. Never \notin 1 .. Never - 1
    BY NeverExceeds
<1> QED BY <1>1, <1>2 DEF Followed, Answered, Success, Confirmed, Live

\* recover keeps to what it found, gives up, or begins an attempt.
LEMMA RecoverFollows ==
    ASSUME SupervisorInv, NEW d \in SKI, tick.step = "run", d \in tick.todo, Recover(d),
           ~Excluded(d), d \in tick.stale \/ ~Success(d, heard[d]) \/ record[d].attempts = 0,
           row' = row, required' = required, removed' = removed, pending' = pending, link' = link
    PROVE  SupervisorTypes' /\ \A e \in SKI : Followed(e)'
<1> DEFINE r == record[d]
<1>1. /\ SupervisorTypes /\ Followed(d) /\ tick \in TickType /\ r \in RecordType /\ InTick
      /\ record \in [SKI -> RecordType] /\ heard \in Heard /\ pause \in [SKI -> Nat]
    BY DEF SupervisorInv, SupervisorTypes, RecoveryInv, InTick
<1>2. MaxAttempts \in Nat /\ MaxAttempts >= 1
    BY ThresholdAssumption
<1>3. /\ r.attempts \in Nat
      /\ r.state # "recovering" /\ d \notin tick.at
    BY <1>1, <1>2 DEF RecordType, Followed, Attempted
<1>4. r.attempts > 0 /\ d \notin tick.stale => ~Confirmed(d)
    BY <1>3, UnansweredUnconfirmed
<1>5. CASE Done(d) /\ record' = record /\ heard' = heard /\ pause' = pause
    <2>1. /\ tick' \in TickType /\ tick'.step = "run" /\ tick'.at = {} /\ tick'.todo = tick.todo \ {d}
          /\ tick'.health = tick.health /\ tick'.stale = tick.stale
        BY <1>1, <1>5, DoneWrites
    <2>2. Attempted(d)'
        BY <1>1, <1>3, <1>5, <2>1 DEF Followed, Attempted
    <2>3. Absent(d)'
        BY <1>1, <1>5, <2>1 DEF Followed, Absent, InTick, Present, Live, Excluded
    <2>4. Answered(d)'
        <3>1. Doomed(d) => Doomed(d)'
            BY <1>3, <1>5, <2>1 DEF Doomed, InTick
        <3>2. r.state = "exhausted" => r.attempts > 0
            BY <1>1 DEF Followed, Attempted
        <3>3. Confirmed(d)' = Confirmed(d) /\ Live(d)' = Live(d)
            BY DEF Confirmed, Live
        <3> QED BY <1>1, <1>4, <1>5, <2>1, <3>1, <3>2, <3>3 DEF Followed, Answered
    <2> QED BY <1>1, <1>5, <2>2, <2>3, <2>4, DoneKeeps
<1>6. CASE /\ r.attempts >= MaxAttempts /\ Recorded(d, [r EXCEPT !.state = "exhausted"])
           /\ Done(d) /\ heard' = heard /\ pause' = pause
    <2>1. /\ tick' \in TickType /\ tick'.step = "run" /\ tick'.at = {} /\ tick'.todo = tick.todo \ {d}
          /\ tick'.health = tick.health /\ tick'.stale = tick.stale
        BY <1>1, <1>6, DoneWrites
    <2> DEFINE new == [r EXCEPT !.state = "exhausted"]
    <2>2. /\ new \in RecordType /\ new.state = "exhausted" /\ new.attempts = r.attempts
          /\ new.waits = r.waits /\ new.wait = r.wait
        BY <1>1 DEF RecordType
    <2>3. Recorded(d, new)
        BY <1>6
    <2> HIDE DEF new
    <2>4. /\ record' \in [SKI -> RecordType] /\ record'[d] = new
          /\ \A e \in SKI \ {d} : record'[e] = record[e]
        BY <1>1, <2>2, <2>3 DEF Recorded
    <2>5. r.attempts > 0
        BY <1>2, <1>3, <1>6
    <2>6. Attempted(d)'
        BY <1>1, <1>3, <1>6, <2>1, <2>2, <2>4, <2>5 DEF Followed, Attempted
    <2>7. Absent(d)'
        BY <1>1, <1>6, <2>1, <2>2, <2>4 DEF Followed, Absent, InTick, Present, Live, Excluded
    <2>8. Answered(d)'
        <3>1. Doomed(d) => Doomed(d)'
            BY <1>3, <1>6, <2>1 DEF Doomed, InTick
        <3>2. Confirmed(d)' = Confirmed(d) /\ Live(d)' = Live(d)
            BY DEF Confirmed, Live
        <3> QED BY <1>1, <1>4, <1>6, <2>1, <2>2, <2>4, <2>5, <3>1, <3>2 DEF Followed, Answered
    <2> QED BY <1>1, <1>6, <2>4, <2>6, <2>7, <2>8, DoneKeeps
<1>7. CASE /\ Recorded(d, [r EXCEPT !.state = "recovering", !.attempts = @ + 1])
           /\ r.attempts < MaxAttempts
           /\ tick' = [tick EXCEPT !.step = "unregister", !.at = {d}]
           /\ heard' = [heard EXCEPT ![d] = heardInTick[d]]
           /\ pause' = [pause EXCEPT ![d] = 0]
    <2>1. /\ tick' \in TickType /\ tick'.step = "unregister" /\ tick'.at = {d} /\ tick'.todo = tick.todo
          /\ tick'.health = tick.health /\ tick'.stale = tick.stale
        <3>1. tick' = [[tick EXCEPT !.step = "unregister"] EXCEPT !.at = {d}]
            BY <1>1, <1>7 DEF TickType
        <3>2. {d} \in SUBSET SKI
            OBVIOUS
        <3> QED BY <1>1, <3>1, <3>2 DEF TickType
    <2>2. /\ record'[d].state = "recovering" /\ record'[d].attempts = r.attempts + 1
          /\ \A e \in SKI \ {d} : record'[e] = record[e]
        <3> DEFINE new == [[r EXCEPT !.state = "recovering"] EXCEPT !.attempts = r.attempts + 1]
        <3>1. new.state = "recovering" /\ new.attempts = r.attempts + 1
            BY <1>1 DEF RecordType
        <3>2. record' = [record EXCEPT ![d] = new]
            BY <1>1, <1>7 DEF Recorded, RecordType
        <3> HIDE DEF new
        <3> QED BY <1>1, <3>1, <3>2
    <2>3. /\ pause' \in [SKI -> Nat] /\ \A e \in SKI \ {d} : pause'[e] = pause[e] /\ heard'[e] = heard[e]
        BY <1>1, <1>7 DEF Heard
    <2>4. SupervisorTypes'
        BY <1>1, <2>1, <2>3 DEF SupervisorTypes
    <2>5. Known(d)'
        BY <1>1 DEF Followed, Known, Live
    <2>6. Attempted(d)'
        BY <1>3, <2>1, <2>2 DEF Attempted
    <2>7. Absent(d)'
        BY <1>1, <2>1, <2>2 DEF Followed, Absent, InTick, Present, Live, Excluded
    <2>8. Answered(d)'
        BY <2>1, <2>2 DEF Answered, Doomed
    <2>9. \A e \in SKI \ {d} : Followed(e)'
        <3>1. InTick'
            BY <2>1 DEF InTick
        <3> QED BY <1>1, <2>1, <2>2, <2>3, <3>1, OthersKeep
    <2> QED BY <2>4, <2>5, <2>6, <2>7, <2>8, <2>9 DEF Followed
<1> QED BY <1>5, <1>6, <1>7 DEF Recover, historyVars

LEMMA TickStaleKeeps ==
    ASSUME SupervisorInv, NEW d \in SKI, TickStale(d)
    PROVE  SupervisorTypes' /\ \A e \in SKI : Followed(e)'
<1>1. /\ row' = row /\ required' = required /\ removed' = removed /\ pending' = pending /\ link' = link
      /\ tick.step = "run" /\ d \in tick.todo /\ d \in tick.stale /\ Recover(d)
    BY DEF TickStale, registryVars, stackVars
<1>2. ~Excluded(d)
    BY <1>1 DEF SupervisorInv, Followed, Absent, InTick
<1> QED BY <1>1, <1>2, RecoverFollows

\* The connection, if there was one, is closed before the device is registered again.
LEMMA UnregisterKeeps ==
    ASSUME SupervisorInv, NEW d \in SKI, Unregister(d)
    PROVE  SupervisorTypes' /\ \A e \in SKI : Followed(e)'
<1>1. /\ row' = row /\ required' = required /\ removed' = removed /\ heard' = heard /\ record' = record
      /\ pause' = pause /\ tick.step = "unregister" /\ d \in tick.at /\ Drop(d)
      /\ tick' = [tick EXCEPT !.step = "register"]
    BY DEF Unregister, registryVars, heardVars, historyVars
<1>2. SupervisorTypes /\ Followed(d) /\ tick \in TickType
    BY DEF SupervisorInv, SupervisorTypes
<1>3. /\ link' = link \ {d} /\ pending' \in [SKI -> Seq(Callbacks)]
      /\ \A e \in SKI \ {d} : pending'[e] = pending[e]
      /\ pending'[d] = <<>> => pending[d] = <<>> /\ d \notin link
      /\ pending'[d] # <<>> => Newest(pending'[d]) = "disconnected"
    BY <1>1, DropTells
<1>4. /\ tick' \in TickType /\ tick'.step = "register" /\ tick'.at = tick.at /\ tick'.todo = tick.todo
      /\ tick'.health = tick.health /\ tick'.stale = tick.stale
    BY <1>1, <1>2 DEF TickType
<1>5. /\ record[d].state = "recovering" /\ d \in tick.todo /\ tick.at = {d} /\ InTick /\ InTick'
    BY <1>1, <1>2, <1>4 DEF Followed, Attempted, InTick
<1>6. SupervisorTypes'
    BY <1>1, <1>2, <1>3, <1>4 DEF SupervisorTypes
<1>7. Known(d)'
    BY <1>1, <1>2, <1>3 DEF Followed, Known, Live
<1>8. Attempted(d)'
    BY <1>1, <1>2, <1>4, <1>5 DEF Followed, Attempted
<1>9. Absent(d)'
    BY <1>1, <1>2, <1>4, <1>5 DEF Followed, Absent, InTick, Present, Live, Excluded
<1>10. Answered(d)'
    <2>1. Live(d)' => Has(pending'[d], "disconnected")
        <3>1. CASE pending'[d] = <<>>
            BY <1>1, <1>2, <1>3, <3>1 DEF Followed, Known, Live
        <3>2. CASE pending'[d] # <<>>
            <4>1. Len(pending'[d]) \in 1 .. Len(pending'[d])
                BY <1>3, <3>2, EmptySeq, LenProperties
            <4> QED BY <1>3, <3>2, <4>1 DEF Has, Newest
        <3> QED BY <3>1, <3>2
    <2> QED BY <1>4, <1>5, <2>1 DEF Answered, Doomed
<1>11. \A e \in SKI \ {d} : Followed(e)'
    BY <1>1, <1>3, <1>4, <1>5, OthersKeep
<1> QED BY <1>6, <1>7, <1>8, <1>9, <1>10, <1>11 DEF Followed

\* The delay of the attempt begins.
LEMMA RegisterKeeps ==
    ASSUME SupervisorInv, NEW d \in SKI, Register(d)
    PROVE  SupervisorTypes' /\ \A e \in SKI : Followed(e)'
<1> DEFINE r == record[d]
           new == [[[r EXCEPT !.state = "grace_period"] EXCEPT !.waits = TRUE]
                       EXCEPT !.wait = Backoff[r.attempts]]
<1>1. /\ row' = row /\ required' = required /\ removed' = removed /\ heard' = heard /\ pending' = pending
      /\ link' = link /\ pause' = pause /\ tick.step = "register" /\ d \in tick.at /\ Done(d)
    BY DEF Register, registryVars, heardVars, historyVars
<1>2. /\ SupervisorTypes /\ Followed(d) /\ tick \in TickType /\ r \in RecordType
      /\ record \in [SKI -> RecordType] /\ pause[d] \in Nat
    BY DEF SupervisorInv, SupervisorTypes, RecoveryInv
<1>3. r.attempts \in Nat /\ Backoff[r.attempts] \in Nat
    BY <1>2, BackoffBounds, ThresholdAssumption DEF RecordType
<1>4. /\ new \in RecordType /\ new.state = "grace_period" /\ new.attempts = r.attempts
      /\ new.waits /\ new.wait = Backoff[r.attempts]
    BY <1>2, <1>3 DEF RecordType
<1>5. Recorded(d, new)
    <2>1. new = [r EXCEPT !.state = "grace_period", !.waits = TRUE, !.wait = Backoff[r.attempts]]
        BY <1>2 DEF RecordType
    <2> HIDE DEF new
    <2> QED BY <2>1 DEF Register
<1> HIDE DEF new
<1>6. /\ record' \in [SKI -> RecordType] /\ record'[d] = new
      /\ \A e \in SKI \ {d} : record'[e] = record[e]
    BY <1>2, <1>4, <1>5 DEF Recorded
<1>7. /\ tick' \in TickType /\ tick'.step = "run" /\ tick'.at = {} /\ tick'.todo = tick.todo \ {d}
      /\ tick'.health = tick.health /\ tick'.stale = tick.stale
    BY <1>1, <1>2, DoneWrites
<1>8. Attempted(d)'
    <2>1. new.wait + pause[d] >= Backoff[new.attempts]
        BY <1>2, <1>3, <1>4
    <2> QED BY <1>1, <1>4, <1>6, <1>7, <2>1 DEF Attempted
<1>9. Absent(d)'
    BY <1>1, <1>2, <1>4, <1>6, <1>7 DEF Followed, Absent, InTick, Present, Live, Excluded
<1>10. Answered(d)'
    <2>1. Doomed(d) => Doomed(d)'
        BY <1>1, <1>7 DEF Doomed, InTick
    <2> QED BY <1>1, <1>2, <1>4, <1>6, <1>7, <2>1 DEF Followed, Answered, Live
<1> QED BY <1>1, <1>6, <1>8, <1>9, <1>10, DoneKeeps DEF InTick

\* A device is excused, found alive, given up, tried, or given time.
LEMMA ReconcileFollows ==
    ASSUME SupervisorInv, NEW d \in SKI, Reconcile(d)
    PROVE  SupervisorTypes' /\ \A e \in SKI : Followed(e)'
<1> DEFINE r == record[d]
           absent == tick.health[d] \in {"untrusted", "disconnected"}
<1>1. /\ row' = row /\ required' = required /\ removed' = removed /\ pending' = pending /\ link' = link
      /\ tick.step = "run" /\ d \in tick.todo /\ d \notin tick.stale
    BY DEF Reconcile, registryVars, stackVars
<1>2. /\ SupervisorTypes /\ Followed(d) /\ tick \in TickType /\ r \in RecordType /\ InTick
      /\ record \in [SKI -> RecordType] /\ heard \in Heard /\ pause[d] \in Nat
    BY <1>1 DEF SupervisorInv, SupervisorTypes, RecoveryInv, InTick
<1>3. /\ r.attempts \in Nat /\ r.wait \in Nat /\ r.waits \in BOOLEAN /\ GracePeriod \in Nat
      /\ r.state # "recovering" /\ d \notin tick.at
    BY <1>1, <1>2, ThresholdAssumption DEF RecordType, Followed, Attempted
<1>4. ~Recovered(d) => ~Success(d, heard[d]) \/ r.attempts = 0
    BY <1>3 DEF Recovered
<1>5. ASSUME NEW new \in RecordType, Recorded(d, new), Done(d), pause' = pause,
             \A e \in SKI \ {d} : heard'[e] = heard[e],
             new.state # "recovering",
             new.state = "exhausted" => new.attempts > 0,
             new.state \in {"none", "healthy"} => new.attempts = 0,
             new.attempts > 0 => new.attempts = r.attempts /\ new.waits = r.waits /\ new.wait = r.wait,
             new.state \in {"untrusted", "disconnected"} => ~Present(d),
             new.attempts > 0 => heard'[d] = heard[d],
             new.state = "exhausted" => ~Success(d, heard[d]) /\ r.attempts > 0
      PROVE  SupervisorTypes' /\ \A e \in SKI : Followed(e)'
    <2>1. /\ record' \in [SKI -> RecordType] /\ record'[d] = new
          /\ \A e \in SKI \ {d} : record'[e] = record[e]
        BY <1>2, <1>5 DEF Recorded
    <2>2. /\ tick' \in TickType /\ tick'.step = "run" /\ tick'.at = {} /\ tick'.todo = tick.todo \ {d}
          /\ tick'.health = tick.health /\ tick'.stale = tick.stale
        BY <1>2, <1>5, DoneWrites
    <2>3. Attempted(d)'
        BY <1>2, <1>3, <1>5, <2>1, <2>2 DEF Followed, Attempted
    <2>4. Absent(d)'
        BY <1>1, <1>2, <1>5, <2>1, <2>2 DEF Followed, Absent, InTick, Present, Live, Excluded
    <2>5. Answered(d)'
        <3>1. Doomed(d) => Doomed(d)'
            BY <1>1, <1>3, <2>2 DEF Doomed, InTick
        <3>2. Confirmed(d)' = Confirmed(d) /\ Live(d)' = Live(d)
            BY <1>1 DEF Confirmed, Live
        <3>3. new.state = "exhausted" => ~Confirmed(d)
            BY <1>1, <1>5, UnansweredUnconfirmed
        <3> QED BY <1>1, <1>2, <1>5, <2>1, <2>2, <3>1, <3>2, <3>3 DEF Followed, Answered
    <2> QED BY <1>1, <1>2, <1>5, <2>1, <2>3, <2>4, <2>5, DoneKeeps
<1>6. CASE absent /\ Recorded(d, Excused(r, tick.health[d])) /\ Done(d) /\ UNCHANGED <<heard, historyVars>>
    <2> DEFINE new == Excused(r, tick.health[d])
    <2>1. /\ new \in RecordType /\ new.state = tick.health[d] /\ new.attempts = r.attempts
          /\ new.waits = r.waits /\ new.wait = r.wait
        BY <1>2, <1>6 DEF RecordType, Excused
    <2> HIDE DEF new
    <2>2. ~Present(d)
        BY <1>6 DEF Present
    <2>3. Recorded(d, new) /\ heard' = heard /\ pause' = pause
        BY <1>6 DEF historyVars, new
    <2> QED BY <1>5, <1>6, <2>1, <2>2, <2>3
<1>7. CASE /\ Recorded(d, [NoRecord EXCEPT !.state = "healthy"]) /\ Done(d)
           /\ heard' = [heard EXCEPT ![d] = {}] /\ UNCHANGED historyVars
    <2> DEFINE new == [NoRecord EXCEPT !.state = "healthy"]
    <2>1. new \in RecordType /\ new.attempts = 0 /\ new.state = "healthy"
        BY NoRecordType DEF RecordType
    <2>2. Recorded(d, new) /\ pause' = pause
        BY <1>7 DEF historyVars
    <2>3. \A e \in SKI \ {d} : heard'[e] = heard[e]
        BY <1>2, <1>7 DEF Heard
    <2> HIDE DEF new
    <2> QED BY <1>5, <1>7, <2>1, <2>2, <2>3
<1>8. CASE ~absent /\ ~Recovered(d) /\ r.state = "grace_period" /\ Recover(d)
    <2>1. ~Excluded(d)
        BY <1>8 DEF Excluded
    <2> QED BY <1>1, <1>4, <1>8, <2>1, RecoverFollows
<1>9. CASE /\ ~absent /\ ~Recovered(d) /\ Recorded(d, IF r.state = "exhausted" THEN r ELSE Grace(r))
           /\ Done(d) /\ UNCHANGED <<heard, historyVars>>
    <2>1. heard' = heard /\ pause' = pause
        BY <1>9 DEF historyVars
    <2>2. CASE r.state = "exhausted"
        <3>1. Recorded(d, r) /\ r.attempts > 0 /\ ~Success(d, heard[d])
            BY <1>2, <1>3, <1>4, <1>9, <2>2 DEF Followed, Attempted
        <3> QED BY <1>2, <1>5, <1>9, <2>1, <2>2, <3>1
    <2>3. CASE r.state # "exhausted"
        <3> DEFINE wait == IF r.waits THEN r.wait ELSE GracePeriod
                   new == [[[r EXCEPT !.state = "grace_period"] EXCEPT !.waits = TRUE] EXCEPT !.wait = wait]
        <3>1. wait \in Nat
            BY <1>3
        <3>2. Grace(r) = new
            BY <1>2 DEF RecordType, Grace
        <3>3. r.attempts > 0 => r.waits /\ wait = r.wait
            BY <1>2, <1>3 DEF Followed, Attempted
        <3> HIDE DEF wait
        <3>4. /\ new \in RecordType /\ new.state = "grace_period" /\ new.attempts = r.attempts
              /\ new.waits /\ new.wait = wait
            BY <1>2, <3>1 DEF RecordType
        <3>5. Recorded(d, new)
            BY <1>9, <2>3, <3>2
        <3> HIDE DEF new
        <3>6. new.attempts > 0 => new.waits = r.waits
            BY <1>3, <3>3, <3>4, Zenon
        <3> QED BY <1>5, <1>9, <2>1, <3>3, <3>4, <3>5, <3>6
    <2> QED BY <2>2, <2>3
<1> QED BY <1>6, <1>7, <1>8, <1>9 DEF Reconcile

LEMMA SupervisorStep == SupervisorInv /\ [Next]_vars => SupervisorInv'
<1> SUFFICES ASSUME SupervisorInv, [Next]_vars PROVE SupervisorInv'
    OBVIOUS
<1>1. RecoveryInv'
    BY RecoveryStep DEF SupervisorInv
<1>2. ASSUME NEW d \in SKI,
             \/ Pair(d) \/ Unpair(d) \/ Revoke(d) \/ FallSilent(d) \/ LinkUp(d) \/ LinkDown(d)
             \/ Support(d) \/ Read(d) \/ Beat(d)
      PROVE  SupervisorTypes' /\ \A e \in SKI : Followed(e)'
    BY <1>2, DeviceKeeps
<1>3. ASSUME NEW d \in SKI, Callback(d) PROVE SupervisorTypes' /\ \A e \in SKI : Followed(e)'
    BY <1>3, CallbackKeeps
<1>4. ASSUME NEW d \in SKI, TickStale(d) \/ Unregister(d) \/ Register(d) \/ Reconcile(d)
      PROVE  SupervisorTypes' /\ \A e \in SKI : Followed(e)'
    BY <1>4, TickStaleKeeps, UnregisterKeeps, RegisterKeeps, ReconcileFollows
<1>5. CASE TickBegin \/ TickScan \/ TickEnd
    <2>1. SupervisorTypes' /\ \A e \in SKI : Followed(e)'
        BY <1>5, TickBeginKeeps, TickScanKeeps, TickEndKeeps
    <2> QED BY <1>1, <2>1 DEF SupervisorInv
<1>6. CASE UNCHANGED vars
    <2>1. /\ row' = row /\ required' = required /\ removed' = removed /\ pending' = pending
          /\ link' = link /\ heard' = heard /\ record' = record /\ pause' = pause /\ tick' = tick
        BY <1>6 DEF vars, registryVars, stackVars, supervisorVars, heardVars, historyVars
    <2>2. SupervisorTypes'
        BY <2>1 DEF SupervisorInv, SupervisorTypes
    <2>3. \A e \in SKI : Followed(e)'
        BY <2>1, SameIsCalm, CalmKeeps
    <2> QED BY <1>1, <2>2, <2>3 DEF SupervisorInv
<1> QED BY <1>1, <1>2, <1>3, <1>4, <1>5, <1>6 DEF SupervisorInv, Next, Watchdog

LEMMA SupervisorInvariant == Spec => []SupervisorInv
<1>1. Init => RecoveryInv
    BY RecoveryInit
<1>2. Init => SupervisorInv
    <2> SUFFICES ASSUME Init PROVE SupervisorInv
        OBVIOUS
    <2>1. /\ NoRow \in RowType /\ NoRow.health = "unknown"
        BY NeverExceeds DEF NoRow, RowType
    <2>2. /\ NoTick \in TickType /\ NoTick.step = "idle" /\ NoTick.at = {}
        BY DEF NoTick, TickType, Snapshots
    <2>3. <<>> \in Seq(Callbacks)
        BY EmptySeq
    <2>4. pending \in [SKI -> Seq(Callbacks)] /\ \A d \in SKI : pending[d] = <<>>
        BY <2>3 DEF Init
    <2>5. row \in [SKI -> RowType] /\ \A d \in SKI : row[d] = NoRow
        BY <2>1 DEF Init
    <2>6. SupervisorTypes
        BY <2>2, <2>4, <2>5, NeverExceeds DEF Init, SupervisorTypes
    <2>7. \A d \in SKI : record[d].state = "none" /\ record[d].attempts = 0
        BY DEF Init, NoRecord
    <2>8. ASSUME NEW d \in SKI PROVE Followed(d)
        <3>1. Known(d)
            BY <2>1, <2>4, <2>5 DEF Init, Known, Live
        <3>2. Attempted(d)
            BY <2>2, <2>7 DEF Init, Attempted
        <3>3. Absent(d) /\ Answered(d)
            BY <2>1, <2>2, <2>5, <2>7 DEF Init, Absent, Answered, Live, InTick, Excluded
        <3> QED BY <3>1, <3>2, <3>3 DEF Followed
    <2> QED BY <1>1, <2>6, <2>8 DEF SupervisorInv
<1> QED BY <1>2, SupervisorStep, PTL DEF Spec

\* A reconnect follows the one before no sooner than the delay of the attempts since the
\* device last answered, over whatever disconnects (backoff, NextAttemptAt).
THEOREM RecoveryRetriesSpaced == Spec => RetriesSpaced
<1> DEFINE Spaced == \A d \in SKI : d \in tick'.at \ tick.at /\ tries[d] > 0 => pause[d] >= Backoff[tries[d]]
<1>1. SupervisorInv /\ [Next]_vars => [Spaced]_vars
    <2> SUFFICES ASSUME SupervisorInv, Next, NEW d \in SKI, d \in tick'.at \ tick.at, tries[d] > 0
                 PROVE  pause[d] >= Backoff[tries[d]]
        OBVIOUS
    <2>1. tick \in TickType /\ Followed(d) /\ NoTick.at = {}
        BY DEF SupervisorInv, SupervisorTypes, NoTick
    <2>2. ASSUME NEW e \in SKI, Done(e) PROVE FALSE
        BY <2>1, <2>2, DoneWrites
    <2>3. PICK e \in SKI : Recover(e) /\ (TickStale(e) \/ (Reconcile(e) /\ record[e].state = "grace_period"))
        <3>1. CASE \E e \in SKI : TickStale(e)
            BY <3>1 DEF TickStale
        <3>2. CASE \E e \in SKI : Reconcile(e)
            BY <2>2, <3>2 DEF Reconcile
        <3>3. CASE \E e \in SKI : Unregister(e) \/ Register(e)
            <4>1. \A e \in SKI : Unregister(e) => tick'.at = tick.at
                BY <2>1 DEF Unregister, TickType
            <4> QED BY <2>2, <3>3, <4>1 DEF Register
        <3>4. CASE TickBegin \/ TickScan \/ TickEnd
            <4>1. TickScan => tick'.at = tick.at
                BY <2>1 DEF TickScan, TickType
            <4>2. TickBegin \/ TickEnd => tick'.at = {}
                BY <2>1 DEF TickBegin, TickEnd, NoTick
            <4> QED BY <3>4, <4>1, <4>2
        <3>5. ASSUME NEW e \in SKI,
                     \/ Pair(e) \/ Unpair(e) \/ Revoke(e) \/ FallSilent(e) \/ LinkUp(e) \/ LinkDown(e)
                     \/ Callback(e) \/ Support(e) \/ Read(e) \/ Beat(e)
              PROVE  tick' = tick
            BY <3>5 DEF Pair, Unpair, Revoke, FallSilent, LinkUp, LinkDown, Callback, Support, Read,
               Beat, supervisorVars
        <3> QED BY <3>1, <3>2, <3>3, <3>4, <3>5 DEF Next, Watchdog
    <2>4. /\ record[e].state \notin {"recovering", "exhausted"} /\ ~Waiting(record[e])
          /\ tick' = [tick EXCEPT !.step = "unregister", !.at = {e}]
        BY <2>2, <2>3 DEF Recover
    <2>5. e = d
        BY <2>1, <2>4 DEF TickType
    <2>6. record[d].state = "grace_period" \/ record[d].state \in {"none", "healthy"}
        <3>1. record[d] \in RecordType
            BY DEF SupervisorInv, RecoveryInv
        <3>2. TickStale(d) => ~Excluded(d)
            BY <2>1 DEF TickStale, Followed, Absent, InTick
        <3> QED BY <2>3, <2>4, <2>5, <3>1, <3>2 DEF RecordType, Excluded
    <2>7. /\ record[d].attempts \in Nat /\ tries[d] \in Nat /\ tries[d] <= record[d].attempts
          /\ record[d].wait \in Nat /\ pause[d] \in Nat
        BY ThresholdAssumption DEF SupervisorInv, SupervisorTypes, RecoveryInv, RecordType, Counted
    <2>8. record[d].attempts > 0
        BY <2>7
    <2>9. record[d].waits /\ record[d].wait + pause[d] >= Backoff[record[d].attempts]
        BY <2>1, <2>4, <2>5, <2>8 DEF Followed, Attempted
    <2>10. record[d].state = "grace_period"
        BY <2>1, <2>6, <2>7, <2>8 DEF Followed, Attempted
    <2>11. record[d].wait = 0
        <3>1. ~(record[d].wait > 0)
            BY <2>4, <2>5, <2>9, <2>10 DEF Waiting
        <3> QED BY <2>7, <3>1
    <2>12. Backoff[tries[d]] <= Backoff[record[d].attempts]
        BY <2>7, BackoffGrows
    <2>13. Backoff[tries[d]] \in Nat /\ Backoff[record[d].attempts] \in Nat
        BY <2>7, BackoffBounds
    <2>14. record[d].wait + pause[d] >= Backoff[record[d].attempts]
        BY <2>9
    <2> QED BY <2>7, <2>11, <2>12, <2>13, <2>14
<1> QED BY <1>1, SupervisorInvariant, PTL DEF Spec, RetriesSpaced

\* The process restarts only when no relevant device works: one that was confirmed on its
\* connection before the tick and is not stale keeps it up (reconcileHealthy, restartDecision).
THEOREM RecoveryRestartJustified == Spec => RestartJustified
<1> DEFINE Justified == restart' /\ ~restart => \A d \in Relevant : Confirmed(d) => d \in tick.stale
<1>1. SupervisorInv /\ [Next]_vars => [Justified]_vars
    <2> SUFFICES ASSUME SupervisorInv, Next, restart', ~restart, NEW d \in Relevant, Confirmed(d)
                 PROVE  d \in tick.stale
        OBVIOUS
    <2>1. TickEnd
        <3>1. ASSUME NEW e \in SKI,
                     \/ Pair(e) \/ Unpair(e) \/ Revoke(e) \/ FallSilent(e) \/ LinkUp(e) \/ LinkDown(e)
                     \/ Callback(e) \/ Support(e) \/ Read(e) \/ Beat(e)
              PROVE  restart' = restart
            BY <3>1 DEF Pair, Unpair, Revoke, FallSilent, LinkUp, LinkDown, Callback, Support, Read,
               Beat, supervisorVars
        <3>2. ASSUME NEW e \in SKI, TickStale(e) \/ Unregister(e) \/ Register(e) \/ Reconcile(e)
              PROVE  restart' = restart
            BY <3>2 DEF TickStale, Unregister, Register, Reconcile
        <3>3. TickBegin \/ TickScan => restart' = restart
            BY DEF TickBegin, TickScan
        <3> QED BY <3>1, <3>2, <3>3 DEF Next, Watchdog
    <2>2. d \in SKI /\ Followed(d) /\ Present(d)
        BY DEF Relevant, SupervisorInv, Present
    <2>3. record[d].state = "exhausted" /\ tick.step = "run" /\ tick.todo = {}
        BY <2>1 DEF TickEnd, RestartRequired
    <2> QED BY <2>2, <2>3 DEF Followed, Answered, InTick
<1> QED BY <1>1, SupervisorInvariant, PTL DEF Spec, RestartJustified
=============================================================================
