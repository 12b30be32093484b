------------------------- MODULE BridgeRuntimeProofs -------------------------
(***************************************************************************)
(* Proofs about BridgeRuntime for any entries, bridges, runtimes and       *)
(* bounds.                                                                 *)
(*                                                                         *)
(* The first part shows that runtimes are counted exactly (CountsExact):   *)
(* what an entry holds changes with Acquire and Release only, and where it *)
(* is in its set-up, handover or unloading tells what Released names.  The *)
(* second part follows the sessions and their streams on the runtimes that *)
(* are held (SessionsOwned), the third the contract under which they were  *)
(* started (ProfileFollows).                                               *)
(***************************************************************************)
EXTENDS BridgeRuntime, FiniteSetTheorems, TLAPS

-----------------------------------------------------------------------------
(* Who holds a runtime.                                                    *)

Staging ==
    {"negotiate", "waiting", "rejected", "negotiated", "registering", "polling", "snapshot", "providers"}
Step == Staging \cup {"unloaded", "loaded", "handover", "leaving", "release", "closing"}

OwnTypes ==
    /\ registry \in [Key -> Runtime \cup {None}] /\ count \in [Key -> Nat]
    /\ key \in [Runtime -> Key \cup {None}]
    /\ life \in [Runtime -> {"open", "sessions", "channel", "closed"}]
    /\ pc \in [Entry -> Step]
    /\ runtime \in [Entry -> Runtime \cup {None}]
    /\ replacement \in [Entry -> Runtime \cup {None}]
    /\ previous \in [Entry -> Runtime \cup {None}]

\* Where an entry is tells which runtimes it has, and from which to which it moves.
Placed(e) ==
    /\ pc[e] = "unloaded" => runtime[e] = None /\ replacement[e] = None
    /\ pc[e] # "unloaded" => runtime[e] # None
    /\ replacement[e] = None <=> previous[e] = None
    /\ replacement[e] # None =>
           runtime[e] \in {replacement[e], previous[e]} /\ replacement[e] # previous[e]
    /\ pc[e] = "loaded" => replacement[e] = None
    /\ pc[e] = "handover" => replacement[e] # None /\ runtime[e] = replacement[e]
    /\ pc[e] \in Staging /\ replacement[e] # None => runtime[e] = previous[e]

\* The registry has the open runtimes, each at its key.
Registered ==
    /\ \A k \in Key : registry[k] # None => key[registry[k]] = k /\ life[registry[k]] = "open"
    /\ \A r \in Runtime : key[r] = None => life[r] = "open"
    /\ \A r \in Runtime : key[r] # None /\ registry[key[r]] # r => life[r] # "open"

\* A runtime that somebody holds is registered.
HeldRegistered == \A e \in Entry : \A r \in Held(e) : key[r] # None /\ registry[key[r]] = r

Holders(r) == {e \in Entry : r \in Held(e)}
Counted == \A k \in Key : count[k] = Cardinality(Holders(registry[k]))

OwnInv == OwnTypes /\ (\A e \in Entry : Placed(e)) /\ Registered /\ HeldRegistered /\ Counted

\* A runtime that is held is an object, and open.
LEMMA HeldOpen ==
    ASSUME OwnTypes, Registered, HeldRegistered, NEW e \in Entry, NEW r \in Held(e)
    PROVE  r \in Runtime /\ key[r] \in Key /\ registry[key[r]] = r /\ life[r] = "open" /\ r # None
<1>1. r \in Runtime /\ r # None
    BY NoneAssumption DEF Held, OwnTypes
<1>2. key[r] # None /\ registry[key[r]] = r
    BY DEF HeldRegistered
<1>3. key[r] \in Key
    BY <1>1, <1>2 DEF OwnTypes
<1> QED BY <1>1, <1>2, <1>3 DEF Registered

\* None of the runtimes held is None, so that a key without a runtime has no holders.
LEMMA NoHolders == Holders(None) = {}
BY DEF Holders, Held

LEMMA HoldersFinite ==
    ASSUME NEW r PROVE IsFiniteSet(Holders(r)) /\ Cardinality(Holders(r)) \in Nat
<1>1. Holders(r) \in SUBSET Entry
    BY DEF Holders
<1>2. IsFiniteSet(Holders(r))
    BY <1>1, EntryAssumption, FS_Subset
<1> QED BY <1>2, FS_CardinalityType

\* What an entry holds, by its step.
LEMMA HeldForms ==
    ASSUME NEW e \in Entry, Placed(e)
    PROVE  /\ pc[e] = "unloaded" => Held(e) = {}
           /\ pc[e] # "unloaded" /\ replacement[e] = None
                => Released(e) = runtime[e]
                   /\ Held(e) = IF pc[e] = "closing" THEN {} ELSE {runtime[e]}
           /\ pc[e] # "unloaded" /\ replacement[e] # None
                => /\ Released(e) \in {replacement[e], previous[e]} /\ Released(e) # runtime[e]
                   /\ Held(e) = IF pc[e] = "closing" THEN {runtime[e]}
                                ELSE {replacement[e], previous[e]}
<1>1. CASE pc[e] = "unloaded"
    BY <1>1 DEF Held
<1>2. CASE pc[e] # "unloaded" /\ replacement[e] = None
    <2>1. runtime[e] # None /\ previous[e] = None /\ Released(e) = runtime[e]
        BY <1>2 DEF Placed, Released
    <2> QED BY <1>2, <2>1 DEF Held
<1>3. CASE pc[e] # "unloaded" /\ replacement[e] # None
    <2>1. /\ previous[e] # None /\ runtime[e] \in {replacement[e], previous[e]}
          /\ replacement[e] # previous[e] /\ runtime[e] # None
        BY <1>3 DEF Placed
    <2>2. Released(e) = IF runtime[e] = replacement[e] THEN previous[e] ELSE replacement[e]
        BY <1>3 DEF Released
    <2> QED BY <1>3, <2>1, <2>2 DEF Held
<1> QED BY <1>1, <1>2, <1>3

\* A step by which no entry acquires, hands over or releases anything.
Onward(e) ==
    \/ pc'[e] = pc[e]
    \/ pc[e] \in Staging /\ pc'[e] \in Staging
    \/ pc[e] \notin {"unloaded", "closing"} /\ pc'[e] \in {"leaving", "release"}

Quiet ==
    /\ registry' = registry /\ count' = count /\ key' = key
    /\ runtime' = runtime /\ replacement' = replacement /\ previous' = previous
    /\ life' = life
    /\ pc' \in [Entry -> Step]
    /\ \A e \in Entry : Onward(e)

LEMMA QuietPlaced ==
    ASSUME NEW e \in Entry, Placed(e), runtime' = runtime, replacement' = replacement,
           previous' = previous, Onward(e)
    PROVE  Placed(e)' /\ Held(e)' = Held(e) /\ Released(e)' = Released(e) /\ Target(e)' = Target(e)
<1>1. Placed(e)'
    BY DEF Placed, Onward, Staging
<1>2. Released(e)' = Released(e) /\ Target(e)' = Target(e)
    BY DEF Released, Target
<1>3. (pc[e] = "unloaded" <=> pc'[e] = "unloaded") /\ (pc[e] = "closing" <=> pc'[e] = "closing")
    BY DEF Onward, Staging
<1>4. Held(e)' = Held(e)
    BY <1>2, <1>3 DEF Held
<1> QED BY <1>1, <1>2, <1>4

\* Nothing changes for the counts if nobody's holdings do, and no open runtime closes.
LEMMA SameHeld ==
    ASSUME OwnInv, \A e \in Entry : Held(e)' = Held(e), registry' = registry, count' = count, key' = key
    PROVE  HeldRegistered' /\ Counted'
<1>1. HeldRegistered'
    BY DEF OwnInv, HeldRegistered
<1>2. \A r : Holders(r)' = Holders(r)
    BY DEF Holders
<1>3. Counted'
    BY <1>2 DEF OwnInv, Counted
<1> QED BY <1>1, <1>3

LEMMA QuietOwn ==
    ASSUME OwnInv, Quiet PROVE OwnInv'
<1>1. \A e \in Entry : Placed(e)' /\ Held(e)' = Held(e)
    BY QuietPlaced DEF OwnInv, Quiet
<1>2. OwnTypes' /\ Registered'
    BY DEF OwnInv, Quiet, OwnTypes, Registered
<1>3. HeldRegistered' /\ Counted'
    BY <1>1, SameHeld DEF Quiet
<1> QED BY <1>1, <1>2, <1>3 DEF OwnInv

\* Where an acquired runtime comes from.
LEMMA AcquireForms ==
    ASSUME OwnInv, NEW k \in Key, NEW r \in Runtime, Available(k), Acquire(k, r)
    PROVE  /\ (registry[k] = r /\ key[r] = k) \/ (registry[k] = None /\ key[r] = None)
           /\ registry' = [registry EXCEPT ![k] = r]
           /\ key' = [key EXCEPT ![r] = k]
           /\ count' = [count EXCEPT ![k] = @ + 1]
           /\ r # None
<1>1. r # None
    BY NoneAssumption
<1>2. CASE registry[k] = None
    BY <1>1, <1>2 DEF Acquire, Available
<1>3. CASE registry[k] # None
    BY <1>3 DEF Acquire, OwnInv, Registered
<1> QED BY <1>1, <1>2, <1>3 DEF Acquire

\* An acquisition counts the runtime once more, for the entry that holds it now.
LEMMA AcquireCounts ==
    ASSUME OwnInv, NEW k \in Key, NEW r \in Runtime, Available(k), Acquire(k, r),
           NEW e \in Entry, r \notin Held(e), Held(e)' = Held(e) \cup {r},
           \A x \in Entry \ {e} : Held(x)' = Held(x), life' = life
    PROVE  Registered' /\ HeldRegistered' /\ Counted'
<1>1. /\ (registry[k] = r /\ key[r] = k) \/ (registry[k] = None /\ key[r] = None)
      /\ registry' = [registry EXCEPT ![k] = r] /\ key' = [key EXCEPT ![r] = k]
      /\ count' = [count EXCEPT ![k] = @ + 1] /\ r # None
    BY AcquireForms
<1>2. /\ registry \in [Key -> Runtime \cup {None}] /\ count \in [Key -> Nat]
      /\ key \in [Runtime -> Key \cup {None}] /\ Registered /\ HeldRegistered
      /\ k # None
    BY NoneAssumption DEF OwnInv, OwnTypes
<1>3. Registered'
    <2>1. ASSUME NEW j \in Key, registry'[j] # None
          PROVE  key'[registry'[j]] = j /\ life'[registry'[j]] = "open"
        <3>1. CASE j = k
            <4>1. registry'[j] = r /\ key'[r] = k
                BY <1>1, <1>2, <3>1
            <4>2. life[r] = "open"
                BY <1>1, <1>2 DEF Registered
            <4> QED BY <3>1, <4>1, <4>2
        <3>2. CASE j # k
            <4>1. registry'[j] = registry[j] /\ registry[j] \in Runtime
                BY <1>1, <1>2, <2>1, <3>2
            <4>2. key[registry[j]] = j /\ life[registry[j]] = "open"
                BY <1>2, <2>1, <4>1 DEF Registered
            <4>3. registry[j] # r
                BY <1>1, <3>2, <4>2, NoneAssumption
            <4> QED BY <1>1, <1>2, <4>1, <4>2, <4>3
        <3> QED BY <3>1, <3>2
    <2>2. ASSUME NEW s \in Runtime, key'[s] = None PROVE life'[s] = "open"
        BY <1>1, <1>2, <2>2 DEF Registered
    <2>3. ASSUME NEW s \in Runtime, key'[s] # None, registry'[key'[s]] # s PROVE life'[s] # "open"
        <3>1. s # r
            BY <1>1, <1>2, <2>3
        <3>2. key'[s] = key[s] /\ key[s] \in Key
            BY <1>1, <1>2, <2>3, <3>1
        <3>3. registry[key[s]] # s
            BY <1>1, <1>2, <2>3, <3>1, <3>2, NoneAssumption
        <3> QED BY <1>2, <3>2, <3>3, NoneAssumption DEF Registered
    <2> QED BY <2>1, <2>2, <2>3 DEF Registered
<1>4. HeldRegistered'
    <2> SUFFICES ASSUME NEW x \in Entry, NEW s \in Held(x)'
                 PROVE  key'[s] # None /\ registry'[key'[s]] = s
        BY DEF HeldRegistered
    <2>1. CASE s = r
        BY <1>1, <1>2, <2>1
    <2>2. CASE s # r
        <3>1. s \in Held(x)
            BY <2>2
        <3>2. s \in Runtime /\ key[s] \in Key /\ registry[key[s]] = s
            BY <3>1, HeldOpen DEF OwnInv
        <3>3. key[s] # k
            BY <1>1, <2>2, <3>2, NoneAssumption
        <3> QED BY <1>1, <1>2, <2>2, <3>2, <3>3, NoneAssumption
    <2> QED BY <2>1, <2>2
<1>5. Holders(r)' = Holders(r) \cup {e} /\ e \notin Holders(r)
    BY DEF Holders
<1>6. \A s : s # r => Holders(s)' = Holders(s)
    BY DEF Holders
<1>7. count[k] = Cardinality(Holders(r))
    <2>1. CASE registry[k] = r
        BY <2>1 DEF OwnInv, Counted
    <2>2. CASE key[r] = None
        <3>1. Holders(r) = {}
            BY <1>2, <2>2 DEF Holders, HeldRegistered
        <3>2. registry[k] = None
            BY <1>1, <1>2, <2>2
        <3> QED BY <3>1, <3>2, NoHolders DEF OwnInv, Counted
    <2> QED BY <1>1, <2>1, <2>2
<1>8. count'[k] = Cardinality(Holders(r)')
    <2>1. Cardinality(Holders(r) \cup {e}) = Cardinality(Holders(r)) + 1
        BY <1>5, HoldersFinite, FS_AddElement
    <2> QED BY <1>1, <1>2, <1>5, <1>7, <2>1
<1>9. Counted'
    <2> SUFFICES ASSUME NEW j \in Key PROVE count'[j] = Cardinality(Holders(registry[j])')
        BY DEF Counted
    <2>1. CASE j = k
        BY <1>1, <1>2, <1>8, <2>1
    <2>2. CASE j # k
        <3>1. registry[j] # r
            BY <1>1, <1>2, <2>2, NoneAssumption DEF Registered
        <3>2. registry'[j] = registry[j] /\ count'[j] = count[j]
            BY <1>1, <1>2, <2>2
        <3>3. Holders(registry[j])' = Holders(registry[j])
            BY <1>6, <3>1, <3>2 DEF Holders
        <3> QED BY <3>2, <3>3 DEF OwnInv, Counted
    <2> QED BY <2>1, <2>2
<1> QED BY <1>3, <1>4, <1>9

\* Setting an entry up makes it hold what it acquires.
LEMMA SetupOwn ==
    ASSUME OwnInv, NEW e \in Entry, Setup(e) PROVE OwnInv'
<1>1. PICK k \in Key, r \in Runtime :
          Available(k) /\ Acquire(k, r) /\ runtime' = [runtime EXCEPT ![e] = r]
    BY DEF Setup
<1>2. /\ pc[e] = "unloaded" /\ pc' = [pc EXCEPT ![e] = "negotiate"]
      /\ replacement' = replacement /\ previous' = previous /\ life' = life
    BY DEF Setup, Goto
<1>3. OwnTypes /\ Placed(e) /\ r # None
    BY NoneAssumption DEF OwnInv
<1>4. OwnTypes'
    <2>1. registry' \in [Key -> Runtime \cup {None}] /\ key' \in [Runtime -> Key \cup {None}]
        BY <1>1, <1>3, AcquireForms DEF OwnTypes
    <2>2. count' \in [Key -> Nat]
        BY <1>1, <1>3, AcquireForms DEF OwnTypes
    <2>3. pc' \in [Entry -> Step]
        BY <1>2, <1>3 DEF OwnTypes, Step, Staging
    <2> QED BY <1>1, <1>2, <1>3, <2>1, <2>2, <2>3 DEF OwnTypes
<1>5. /\ pc'[e] = "negotiate" /\ runtime'[e] = r /\ replacement[e] = None /\ previous[e] = None
    BY <1>1, <1>2, <1>3 DEF OwnTypes, Placed
<1>6. Placed(e)'
    BY <1>2, <1>3, <1>5 DEF Placed
<1>7. Held(e) = {} /\ Held(e)' = {r}
    <2>1. Held(e) = {}
        BY <1>2, <1>3, HeldForms
    <2>2. Held(e)' = {r}
        BY <1>2, <1>3, <1>5 DEF Held
    <2> QED BY <2>1, <2>2
<1>8. ASSUME NEW x \in Entry \ {e} PROVE Placed(x)' /\ Held(x)' = Held(x)
    <2>1. pc'[x] = pc[x] /\ runtime'[x] = runtime[x]
        BY <1>1, <1>2, <1>3 DEF OwnTypes
    <2>2. Placed(x)
        BY DEF OwnInv
    <2> QED BY <1>2, <2>1, <2>2 DEF Placed, Held, Released
<1>9. Registered' /\ HeldRegistered' /\ Counted'
    BY <1>1, <1>2, <1>7, <1>8, AcquireCounts
<1> QED BY <1>4, <1>6, <1>8, <1>9 DEF OwnInv

\* A handover begins with a second runtime, another one than the first.
LEMMA ReloadOwn ==
    ASSUME OwnInv, NEW e \in Entry, Reload(e) PROVE OwnInv'
<1>1. PICK k \in Key, r \in Runtime :
          /\ registry[k] # runtime[e] /\ Available(k) /\ Acquire(k, r)
          /\ replacement' = [replacement EXCEPT ![e] = r]
          /\ previous' = [previous EXCEPT ![e] = runtime[e]]
    BY DEF Reload
<1>2. /\ pc[e] = "loaded" /\ pc' = [pc EXCEPT ![e] = "negotiate"]
      /\ runtime' = runtime /\ life' = life
    BY DEF Reload, Goto
<1>3. OwnTypes /\ Placed(e) /\ r # None
    BY NoneAssumption DEF OwnInv
<1>4. OwnTypes'
    <2>1. registry' \in [Key -> Runtime \cup {None}] /\ key' \in [Runtime -> Key \cup {None}]
        BY <1>1, <1>3, AcquireForms DEF OwnTypes
    <2>2. count' \in [Key -> Nat]
        BY <1>1, <1>3, AcquireForms DEF OwnTypes
    <2>3. pc' \in [Entry -> Step]
        BY <1>2, <1>3 DEF OwnTypes, Step, Staging
    <2> QED BY <1>1, <1>2, <1>3, <2>1, <2>2, <2>3 DEF OwnTypes
<1>5. /\ pc'[e] = "negotiate" /\ replacement'[e] = r /\ previous'[e] = runtime[e]
      /\ runtime[e] # None /\ replacement[e] = None /\ previous[e] = None
    BY <1>1, <1>2, <1>3 DEF OwnTypes, Placed
<1>6. Held(e) = {runtime[e]}
    BY <1>2, <1>3, <1>5, HeldForms
<1>7. r # runtime[e]
    <2>1. runtime[e] \in Held(e)
        BY <1>6
    <2>2. key[runtime[e]] # None
        BY <2>1 DEF OwnInv, HeldRegistered
    <2> QED BY <1>1, <2>2, AcquireForms
<1>8. Placed(e)'
    BY <1>2, <1>3, <1>5, <1>7 DEF Placed
<1>9. Held(e)' = {runtime[e], r}
    BY <1>2, <1>3, <1>5 DEF Held
<1>10. ASSUME NEW x \in Entry \ {e} PROVE Placed(x)' /\ Held(x)' = Held(x)
    <2>1. pc'[x] = pc[x] /\ replacement'[x] = replacement[x] /\ previous'[x] = previous[x]
        BY <1>1, <1>2, <1>3 DEF OwnTypes
    <2>2. Placed(x)
        BY DEF OwnInv
    <2> QED BY <1>2, <2>1, <2>2 DEF Placed, Held, Released
<1>11. Registered' /\ HeldRegistered' /\ Counted'
    BY <1>1, <1>2, <1>6, <1>7, <1>9, <1>10, AcquireCounts
<1> QED BY <1>4, <1>8, <1>10, <1>11 DEF OwnInv

\* A release gives back one of the runtimes that the entry holds, and closes it if nobody
\* else does.
LEMMA ReleaseOwn ==
    ASSUME OwnInv, NEW e \in Entry, Release(e), NEW r, r = Released(e), NEW k, k = key[r]
    PROVE  OwnInv'
<1>1. /\ pc[e] = "release" /\ pc' = [pc EXCEPT ![e] = "closing"]
      /\ count' = [count EXCEPT ![k] = @ - 1]
      /\ count[k] = 1 => registry' = [registry EXCEPT ![k] = None]
                         /\ life' = [life EXCEPT ![r] = "sessions"]
      /\ count[k] # 1 => registry' = registry /\ life' = life
      /\ key' = key /\ runtime' = runtime /\ replacement' = replacement /\ previous' = previous
    BY DEF Release, Goto
<1>2. OwnTypes /\ Registered /\ HeldRegistered /\ Placed(e)
    BY DEF OwnInv
<1>3. r \in Held(e)
    BY <1>1, <1>2, HeldForms
<1>4. r \in Runtime /\ k \in Key /\ registry[k] = r /\ life[r] = "open" /\ r # None
    BY <1>2, <1>3, HeldOpen
<1>5. e \in Holders(r) /\ count[k] = Cardinality(Holders(r))
    BY <1>3, <1>4 DEF Holders, OwnInv, Counted
<1>6. pc'[e] = "closing" /\ \A x \in Entry \ {e} : pc'[x] = pc[x]
    BY <1>1, <1>2 DEF OwnTypes
<1>7. Held(e)' = Held(e) \ {r}
    <2>1. Released(e)' = r
        BY <1>1 DEF Released
    <2> QED BY <1>1, <1>6, <2>1 DEF Held
<1>8. \A x \in Entry \ {e} : Placed(x)' /\ Held(x)' = Held(x)
    BY <1>1, <1>6 DEF Placed, Held, Released, OwnInv
<1>9. Placed(e)'
    BY <1>1, <1>2, <1>6 DEF Placed, Staging
<1>10. Holders(r)' = Holders(r) \ {e} /\ \A s : s # r => Holders(s)' = Holders(s)
    BY <1>7, <1>8 DEF Holders
<1>11. /\ count[k] \in Nat \ {0}
       /\ Cardinality(Holders(r)') = count[k] - 1
       /\ count[k] = 1 => Holders(r)' = {}
    <2>1. IsFiniteSet(Holders(r)) /\ Cardinality(Holders(r)) \in Nat
        BY HoldersFinite
    <2>2. Cardinality(Holders(r) \ {e}) = Cardinality(Holders(r)) - 1 /\ IsFiniteSet(Holders(r) \ {e})
        BY <1>5, <2>1, FS_RemoveElement
    <2>3. Cardinality(Holders(r) \ {e}) \in Nat
        BY <2>2, FS_CardinalityType
    <2>4. count[k] \in Nat \ {0} /\ Cardinality(Holders(r)') = count[k] - 1
        BY <1>5, <1>10, <2>1, <2>2, <2>3
    <2>5. Cardinality(Holders(r) \ {e}) = 0 => Holders(r) \ {e} = {}
        BY <2>2, FS_EmptySet
    <2> QED BY <1>10, <2>4, <2>5
<1>12. OwnTypes'
    <2>1. count' \in [Key -> Nat]
        BY <1>1, <1>2, <1>4, <1>11 DEF OwnTypes
    <2>2. pc' \in [Entry -> Step]
        BY <1>1, <1>2 DEF OwnTypes, Step
    <2>3. registry' \in [Key -> Runtime \cup {None}]
        BY <1>1, <1>2, <1>4 DEF OwnTypes
    <2>4. life' \in [Runtime -> {"open", "sessions", "channel", "closed"}]
        BY <1>1, <1>2, <1>4 DEF OwnTypes
    <2> QED BY <1>1, <1>2, <2>1, <2>2, <2>3, <2>4 DEF OwnTypes
<1>13. Registered'
    <2>1. CASE count[k] # 1
        BY <1>1, <1>2, <2>1 DEF Registered
    <2>2. CASE count[k] = 1
        <3>1. /\ registry' = [registry EXCEPT ![k] = None] /\ life' = [life EXCEPT ![r] = "sessions"]
              /\ key' = key
            BY <1>1, <2>2
        <3>2. ASSUME NEW j \in Key, registry'[j] # None
              PROVE  key'[registry'[j]] = j /\ life'[registry'[j]] = "open"
            <4>1. j # k /\ registry'[j] = registry[j]
                BY <1>2, <1>4, <3>1, <3>2 DEF OwnTypes
            <4>2. registry[j] \in Runtime /\ key[registry[j]] = j /\ life[registry[j]] = "open"
                BY <1>2, <3>2, <4>1 DEF OwnTypes, Registered
            <4> QED BY <1>2, <3>1, <4>1, <4>2 DEF OwnTypes
        <3>3. ASSUME NEW s \in Runtime, key'[s] = None PROVE life'[s] = "open"
            BY <1>2, <1>4, <3>1, <3>3, NoneAssumption DEF OwnTypes, Registered
        <3>4. ASSUME NEW s \in Runtime, key'[s] # None, registry'[key'[s]] # s PROVE life'[s] # "open"
            <4>1. CASE s = r
                BY <1>2, <1>4, <3>1, <4>1 DEF OwnTypes
            <4>2. CASE s # r
                <5>1. key[s] \in Key /\ key[s] # None /\ registry[key[s]] # s
                    BY <1>2, <1>4, <3>1, <3>4, <4>2 DEF OwnTypes
                <5> QED BY <1>2, <3>1, <4>2, <5>1 DEF OwnTypes, Registered
            <4> QED BY <4>1, <4>2
        <3> QED BY <3>2, <3>3, <3>4 DEF Registered
    <2> QED BY <2>1, <2>2
<1>14. HeldRegistered'
    <2> SUFFICES ASSUME NEW x \in Entry, NEW s \in Held(x)'
                 PROVE  key'[s] # None /\ registry'[key'[s]] = s
        BY DEF HeldRegistered
    <2>1. s \in Held(x)
        BY <1>7, <1>8
    <2>2. s \in Runtime /\ key[s] \in Key /\ registry[key[s]] = s /\ key[s] # None
        BY <1>2, <2>1, HeldOpen, NoneAssumption
    <2>3. CASE count[k] # 1
        BY <1>1, <2>2, <2>3
    <2>4. CASE count[k] = 1
        <3>1. s # r
            BY <1>11, <2>4 DEF Holders
        <3>2. key[s] # k
            BY <1>4, <2>2, <3>1
        <3> QED BY <1>1, <1>2, <2>2, <2>4, <3>2 DEF OwnTypes
    <2> QED BY <2>3, <2>4
<1>15. Counted'
    <2> SUFFICES ASSUME NEW j \in Key PROVE count'[j] = Cardinality(Holders(registry[j])')
        BY DEF Counted
    <2>1. CASE j = k
        <3>1. count'[j] = count[k] - 1
            BY <1>1, <1>2, <2>1 DEF OwnTypes
        <3>2. CASE count[k] # 1
            <4>1. registry'[j] = r
                BY <1>1, <1>4, <2>1, <3>2
            <4>2. Holders(registry[j])' = Holders(r)'
                BY <4>1 DEF Holders
            <4> QED BY <1>11, <3>1, <4>2
        <3>3. CASE count[k] = 1
            <4>1. registry'[j] = None
                BY <1>1, <1>2, <1>4, <2>1, <3>3 DEF OwnTypes
            <4>2. Holders(registry[j])' = {}
                BY <4>1 DEF Holders, Held
            <4> QED BY <3>1, <3>3, <4>2, FS_EmptySet
        <3> QED BY <3>2, <3>3
    <2>2. CASE j # k
        <3>1. registry'[j] = registry[j] /\ count'[j] = count[j]
            BY <1>1, <1>2, <1>4, <2>2 DEF OwnTypes
        <3>2. registry[j] # r
            BY <1>2, <1>4, <2>2 DEF Registered
        <3>3. Holders(registry[j])' = Holders(registry[j])
            BY <1>10, <3>1, <3>2 DEF Holders
        <3> QED BY <3>1, <3>3 DEF OwnInv, Counted
    <2> QED BY <2>1, <2>2
<1> QED BY <1>8, <1>9, <1>12, <1>13, <1>14, <1>15 DEF OwnInv

\* A handover commits to the replacement, which the entry holds already.
LEMMA CommitOwn ==
    ASSUME OwnInv, NEW e \in Entry, Commit(e) PROVE OwnInv'
<1>1. /\ pc[e] = "providers"
      /\ IF replacement[e] = None THEN pc' = [pc EXCEPT ![e] = "loaded"] /\ runtime' = runtime
         ELSE /\ pc' = [pc EXCEPT ![e] = "handover"]
              /\ runtime' = [runtime EXCEPT ![e] = replacement[e]]
      /\ registry' = registry /\ count' = count /\ key' = key /\ life' = life
      /\ replacement' = replacement /\ previous' = previous
    BY DEF Commit, Goto, owners
<1>2. OwnTypes /\ Registered /\ Placed(e)
    BY DEF OwnInv
<1>3. OwnTypes' /\ Registered'
    <2>1. pc' \in [Entry -> Step]
        BY <1>1, <1>2 DEF OwnTypes, Step
    <2> QED BY <1>1, <1>2, <2>1 DEF OwnTypes, Registered
<1>4. Placed(e)' /\ Held(e)' = Held(e)
    <2>1. CASE replacement[e] = None
        BY <1>1, <1>2, <2>1 DEF OwnTypes, Placed, Staging, Held
    <2>2. CASE replacement[e] # None
        <3>1. pc'[e] = "handover" /\ runtime'[e] = replacement[e] /\ runtime[e] = previous[e]
              /\ previous[e] # None /\ replacement[e] # previous[e]
            BY <1>1, <1>2, <2>2 DEF OwnTypes, Placed, Staging
        <3> QED BY <1>1, <1>2, <2>2, <3>1 DEF Placed, Held, Staging
    <2> QED BY <2>1, <2>2
<1>5. \A x \in Entry \ {e} : Placed(x)' /\ Held(x)' = Held(x)
    <2>1. \A x \in Entry \ {e} : pc'[x] = pc[x] /\ runtime'[x] = runtime[x] /\ Placed(x)
        BY <1>1, <1>2 DEF OwnTypes, OwnInv
    <2> QED BY <1>1, <2>1 DEF Placed, Held, Released
<1>6. HeldRegistered' /\ Counted'
    BY <1>1, <1>4, <1>5, SameHeld
<1> QED BY <1>3, <1>4, <1>5, <1>6 DEF OwnInv

\* What remains to an entry at its end is its own runtime, or none.
LEMMA FinishOwn ==
    ASSUME OwnInv, NEW e \in Entry, Finish(e) PROVE OwnInv'
<1>1. /\ pc[e] = "closing"
      /\ IF replacement[e] = None
         THEN pc' = [pc EXCEPT ![e] = "unloaded"] /\ runtime' = [runtime EXCEPT ![e] = None]
         ELSE pc' = [pc EXCEPT ![e] = "loaded"] /\ runtime' = runtime
      /\ replacement' = [replacement EXCEPT ![e] = None] /\ previous' = [previous EXCEPT ![e] = None]
      /\ registry' = registry /\ count' = count /\ key' = key /\ life' = life
    BY DEF Finish, Goto, owners
<1>2. OwnTypes /\ Registered /\ Placed(e)
    BY DEF OwnInv
<1>3. OwnTypes' /\ Registered'
    <2>1. pc' \in [Entry -> Step] /\ runtime' \in [Entry -> Runtime \cup {None}]
        BY <1>1, <1>2 DEF OwnTypes, Step
    <2> QED BY <1>1, <1>2, <2>1 DEF OwnTypes, Registered
<1>4. Placed(e)' /\ Held(e)' = Held(e)
    <2>1. replacement'[e] = None /\ previous'[e] = None
        BY <1>1, <1>2 DEF OwnTypes
    <2>2. CASE replacement[e] = None
        <3>1. pc'[e] = "unloaded" /\ runtime'[e] = None /\ Held(e) = {}
            BY <1>1, <1>2, <2>2, HeldForms DEF OwnTypes
        <3> QED BY <2>1, <3>1 DEF Placed, Held, Staging
    <2>3. CASE replacement[e] # None
        <3>1. pc'[e] = "loaded" /\ runtime'[e] = runtime[e] /\ runtime[e] # None
              /\ Held(e) = {runtime[e]}
            BY <1>1, <1>2, <2>3, HeldForms DEF OwnTypes, Placed
        <3> QED BY <2>1, <3>1 DEF Placed, Held, Staging
    <2> QED BY <2>2, <2>3
<1>5. \A x \in Entry \ {e} : Placed(x)' /\ Held(x)' = Held(x)
    <2>1. \A x \in Entry \ {e} : /\ pc'[x] = pc[x] /\ runtime'[x] = runtime[x] /\ Placed(x)
                                /\ replacement'[x] = replacement[x] /\ previous'[x] = previous[x]
        BY <1>1, <1>2 DEF OwnTypes, OwnInv
    <2> QED BY <2>1 DEF Placed, Held, Released
<1>6. HeldRegistered' /\ Counted'
    BY <1>1, <1>4, <1>5, SameHeld
<1> QED BY <1>3, <1>4, <1>5, <1>6 DEF OwnInv

\* A runtime that closes was closed to new holders before.
LEMMA CloseOwn ==
    ASSUME OwnInv, NEW r \in Runtime, CloseSessions(r) \/ CloseChannel(r) PROVE OwnInv'
<1>1. /\ life[r] # "open" /\ \E l \in {"channel", "closed"} : life' = [life EXCEPT ![r] = l]
      /\ registry' = registry /\ count' = count /\ key' = key
      /\ runtime' = runtime /\ replacement' = replacement /\ previous' = previous
    BY DEF CloseSessions, CloseChannel, owners, entries
<1>2. pc' \in [Entry -> Step] /\ \A e \in Entry : Onward(e)
    BY DEF CloseSessions, CloseChannel, entries, Invalidate, Wake, WakeSetups, OwnInv, OwnTypes,
       Onward, Step, Staging
<1>3. \A e \in Entry : Placed(e)' /\ Held(e)' = Held(e)
    BY <1>1, <1>2, QuietPlaced DEF OwnInv
<1>4. OwnTypes'
    BY <1>1, <1>2 DEF OwnInv, OwnTypes
<1>5. Registered'
    BY <1>1 DEF OwnInv, OwnTypes, Registered
<1>6. HeldRegistered' /\ Counted'
    BY <1>1, <1>3, SameHeld
<1> QED BY <1>3, <1>4, <1>5, <1>6 DEF OwnInv

\* The steps of an entry that neither acquire, hand over nor release.
LEMMA GotoQuiet ==
    ASSUME OwnTypes, NEW e \in Entry, NEW step \in Step, Goto(e, step),
           \/ pc[e] \in Staging /\ step \in Staging
           \/ pc[e] \notin {"unloaded", "closing"} /\ step \in {"leaving", "release"}
    PROVE  pc' \in [Entry -> Step] /\ \A x \in Entry : Onward(x)
BY DEF Goto, Onward, OwnTypes

Entrywise == UNCHANGED <<owners, life, runtime, replacement, previous>>

LEMMA EntryQuiet ==
    ASSUME OwnTypes, NEW e \in Entry,
           \/ EnsureContract(e) \/ CreateDeviceSession(e) \/ Synchronize(e) \/ InitialSnapshot(e)
           \/ Leave(e) \/ Left(e) \/ Unload(e) \/ GiveUp(e) \/ Fail(e) \/ FirstPollFails(e)
    PROVE  Quiet
<1>1. Entrywise
    BY DEF Entrywise, EnsureContract, CreateDeviceSession, Synchronize, InitialSnapshot, Leave, Left,
       Unload, GiveUp, Fail, FirstPollFails
<1>2. pc' \in [Entry -> Step] /\ \A x \in Entry : Onward(x)
    <2>1. CASE EnsureContract(e)
        BY <2>1, GotoQuiet DEF EnsureContract, Staging, Step
    <2>2. CASE CreateDeviceSession(e)
        BY <2>2, GotoQuiet DEF CreateDeviceSession, Staging, Step
    <2>3. CASE Synchronize(e)
        BY <2>3, GotoQuiet DEF Synchronize, Staging, Step
    <2>4. CASE InitialSnapshot(e)
        BY <2>4, GotoQuiet DEF InitialSnapshot, Staging, Step
    <2>5. CASE Leave(e)
        BY <2>5, GotoQuiet DEF Leave, Step
    <2>6. CASE Left(e)
        BY <2>6, GotoQuiet DEF Left, Step
    <2>7. CASE Unload(e)
        BY <2>7, GotoQuiet DEF Unload, Step
    <2>8. CASE GiveUp(e)
        BY <2>8, GotoQuiet DEF GiveUp, Step
    <2>9. CASE Fail(e)
        BY <2>9, GotoQuiet DEF Fail, Step
    <2>10. CASE FirstPollFails(e)
        BY <2>10 DEF FirstPollFails, WakeSetups, Onward, OwnTypes, Step, Staging
    <2> QED BY <2>1, <2>2, <2>3, <2>4, <2>5, <2>6, <2>7, <2>8, <2>9, <2>10
<1> QED BY <1>1, <1>2 DEF Quiet, Entrywise, owners

\* So are those of the channels, the polls, the streams and the bridges.
LEMMA OtherQuiet ==
    ASSUME OwnTypes,
           \/ UNCHANGED vars
           \/ \E e \in Entry : Poll(e) \/ PollEnsures(e) \/ PollAnswered(e) \/ PollFails(e)
           \/ \E r \in Runtime : Negotiated(r) \/ NegotiationFails(r)
           \/ \E r \in Runtime, e \in Entry :
                 StreamsStopped(r, e) \/ Reconnects(r, e) \/ FallsBack(r, e) \/ StopForRestart(r, e)
                 \/ Restart(r, e)
           \/ \E k \in Key : Upgrade(k)
    PROVE  Quiet
<1>1. Entrywise
    BY ZenonT(40) DEF Entrywise, vars, entries, Poll, PollEnsures, PollAnswered, PollFails, Negotiated,
       NegotiationFails, StreamsStopped, Reconnects, FallsBack, StopForRestart, Restart, Upgrade
<1>2. \/ pc' = pc
      \/ \E r \in Runtime \cup {None}, step \in {"negotiated", "rejected", "negotiate"} :
            pc' = WakeSetups(r, step)
      \/ \E e \in Entry : pc' = WakeSetups(poll[e].of, "negotiate")
    BY ZenonT(40) DEF vars, entries, Poll, PollEnsures, PollAnswered, PollFails, Negotiated, Wake,
       NegotiationFails, StreamsStopped, Reconnects, FallsBack, StopForRestart, Restart, Upgrade
<1>3. pc' \in [Entry -> Step] /\ \A x \in Entry : Onward(x)
    BY <1>2 DEF WakeSetups, Onward, OwnTypes, Step, Staging
<1> QED BY <1>1, <1>3 DEF Quiet, Entrywise, owners

\* Every step keeps the first invariant.
LEMMA OwnStep ==
    ASSUME OwnInv, [Next]_vars PROVE OwnInv'
<1>1. ASSUME NEW e \in Entry, Setup(e) \/ Release(e) \/ Commit(e) \/ Finish(e) PROVE OwnInv'
    BY <1>1, SetupOwn, ReleaseOwn, CommitOwn, FinishOwn
<1>2. ASSUME NEW e \in Entry, Reload(e) PROVE OwnInv'
    BY <1>2, ReloadOwn
<1>3. ASSUME NEW r \in Runtime, CloseSessions(r) \/ CloseChannel(r) PROVE OwnInv'
    BY <1>3, CloseOwn
<1>4. ASSUME NEW e \in Entry,
             \/ EnsureContract(e) \/ CreateDeviceSession(e) \/ Synchronize(e) \/ InitialSnapshot(e)
             \/ Leave(e) \/ Left(e) \/ Unload(e) \/ GiveUp(e) \/ Fail(e) \/ FirstPollFails(e)
      PROVE  OwnInv'
    BY <1>4, EntryQuiet, QuietOwn DEF OwnInv
<1>5. ASSUME \/ UNCHANGED vars
             \/ \E e \in Entry : Poll(e) \/ PollEnsures(e) \/ PollAnswered(e) \/ PollFails(e)
             \/ \E r \in Runtime : Negotiated(r) \/ NegotiationFails(r)
             \/ \E r \in Runtime, e \in Entry :
                   StreamsStopped(r, e) \/ Reconnects(r, e) \/ FallsBack(r, e) \/ StopForRestart(r, e)
                   \/ Restart(r, e)
             \/ \E k \in Key : Upgrade(k)
      PROVE  OwnInv'
    BY <1>5, OtherQuiet, QuietOwn DEF OwnInv
<1> QED BY <1>1, <1>2, <1>3, <1>4, <1>5, EntryAssumption DEF Next, EntryStep

\* The first invariant holds in every state.
LEMMA OwnInvariant == Spec => []OwnInv
<1>1. Init => OwnInv
    <2> SUFFICES ASSUME Init PROVE OwnInv
        OBVIOUS
    <2>1. OwnTypes
        BY DEF Init, OwnTypes, Step
    <2>2. \A e \in Entry : Placed(e) /\ Held(e) = {}
        BY DEF Init, Placed, Held, Staging
    <2>3. Registered /\ HeldRegistered
        BY <2>2 DEF Init, Registered, HeldRegistered
    <2>4. Counted
        BY NoHolders, FS_EmptySet DEF Init, Counted
    <2> QED BY <2>1, <2>2, <2>3, <2>4 DEF OwnInv
<1>2. OwnInv /\ [Next]_vars => OwnInv'
    BY OwnStep
<1> QED BY <1>1, <1>2, PTL DEF Spec

\* A runtime is counted once for every entry that holds it, whichever steps fail or are
\* cancelled, for any number of entries, bridges and runtimes.
THEOREM RuntimeCountsExact == Spec => []CountsExact
<1>1. OwnInv => CountsExact
    <2> SUFFICES ASSUME OwnInv PROVE CountsExact
        OBVIOUS
    <2>1. \A k \in Key : count[k] = Cardinality({e \in Entry : registry[k] \in Held(e)})
        BY DEF OwnInv, Counted, Holders
    <2>2. \A e \in Entry : \A r \in Held(e) : life[r] = "open" /\ registry[key[r]] = r
        BY HeldOpen DEF OwnInv
    <2> QED BY <2>1, <2>2 DEF CountsExact, OwnInv, Registered
<1> QED BY <1>1, OwnInvariant, PTL

-----------------------------------------------------------------------------
(* Whose sessions run, and on which runtimes.                              *)

Stream ==
    [started : BOOLEAN, running : Profile \cup {None, "fallback"}, pending : BOOLEAN,
     restart : {"no", "begun", "stopped"}, closing : BOOLEAN]

SesTypes ==
    /\ channel \in [Runtime -> {"none", "negotiating", "ready"}]
    /\ bridge \in [Key -> Profile] /\ contract \in [Runtime -> Profile \cup {None}]
    /\ sessions \in [Runtime -> SUBSET Entry]
    /\ streams \in [Runtime -> [Entry -> Stream]]
    /\ poll \in [Entry -> [step : {"idle", "negotiate", "waiting", "negotiated", "rejected"},
                           on : Runtime \cup {None}, of : Runtime \cup {None}]]

\* Only an object that was made has a channel, sessions and streams, and is polled.
Made(r) == r \in Runtime /\ key[r] \in Key
Used ==
    /\ \A r \in Runtime : channel[r] # "none" => Made(r)
    /\ \A r \in Runtime, e \in Entry : e \in sessions[r] => Made(r)
    /\ \A r \in Runtime, e \in Entry : streams[r][e] # Off => Made(r)
    /\ \A e \in Entry : poll[e].step # "idle" => Made(poll[e].on) /\ Made(poll[e].of)

UseInv == SesTypes /\ Used

\* One stream of all is changed.
StreamSet(r, e, s) ==
    /\ streams' \in [Runtime -> [Entry -> Stream]]
    /\ \A q \in Runtime, x \in Entry : streams'[q][x] = IF q = r /\ x = e THEN s ELSE streams[q][x]

LEMMA StreamSets ==
    ASSUME streams \in [Runtime -> [Entry -> Stream]], NEW r \in Runtime, NEW e \in Entry,
           NEW s \in Stream, streams' = [streams EXCEPT ![r][e] = s]
    PROVE  StreamSet(r, e, s)
BY DEF StreamSet

\* What the operations make of a stream.
LEMMA StreamForms ==
    /\ Off \in Stream
    /\ \A s \in Stream :
          /\ \A p \in Profile \cup {None} :
                /\ Started(s, p) \in Stream /\ Started(s, p).started /\ Started(s, p).running = p
                /\ Started(s, p).restart = s.restart /\ Started(s, p).closing = s.closing
          /\ Stopping(s) \in Stream /\ ~Stopping(s).started /\ Stopping(s).restart = "no"
          /\ Stopping(s).closing
          /\ ContractChanged(s) \in Stream
          /\ ~s.started => ContractChanged(s) = s
          /\ s.started => /\ ContractChanged(s).started = s.started
                          /\ ContractChanged(s).closing = s.closing
                          /\ ContractChanged(s).restart # "no"
<1>1. Off \in Stream
    BY DEF Off, Stream
<1>2. ASSUME NEW s \in Stream, NEW p \in Profile \cup {None}
      PROVE  /\ Started(s, p) \in Stream /\ Started(s, p).started /\ Started(s, p).running = p
             /\ Started(s, p).restart = s.restart /\ Started(s, p).closing = s.closing
    BY DEF Stream, Started
<1>3. ASSUME NEW s \in Stream
      PROVE  /\ Stopping(s) \in Stream /\ ~Stopping(s).started /\ Stopping(s).restart = "no"
             /\ Stopping(s).closing
    BY DEF Stream, Stopping
<1>4. ASSUME NEW s \in Stream
      PROVE  /\ ContractChanged(s) \in Stream
             /\ ~s.started => ContractChanged(s) = s
             /\ s.started => /\ ContractChanged(s).started = s.started
                             /\ ContractChanged(s).closing = s.closing
                             /\ ContractChanged(s).restart # "no"
    <2>1. CASE s.started
        <3>1. ContractChanged(s) = [s EXCEPT !.pending = TRUE, !.restart = IF @ = "no" THEN "begun" ELSE @]
            BY <2>1 DEF ContractChanged
        <3> QED BY <2>1, <3>1 DEF Stream
    <2>2. CASE ~s.started
        BY <2>2 DEF ContractChanged
    <2> QED BY <2>1, <2>2
<1> QED BY <1>1, <1>2, <1>3, <1>4

LEMMA OffIsQuiet ==
    ~Off.started /\ Off.running = None /\ Off.restart = "no" /\ ~Off.closing
BY DEF Off

\* The steps of one stream, as what they leave of it.
LEMMA StoppedSets ==
    ASSUME SesTypes, NEW r \in Runtime, NEW e \in Entry, StreamsStopped(r, e)
    PROVE  StreamSet(r, e, Off) /\ streams[r][e].closing
BY StreamSets, StreamForms DEF StreamsStopped, SesTypes

LEMMA FallbackSets ==
    ASSUME SesTypes, NEW r \in Runtime, NEW e \in Entry, FallsBack(r, e)
    PROVE  /\ StreamSet(r, e, [streams[r][e] EXCEPT !.running = "fallback"])
           /\ streams[r][e].running = "consolidated"
<1>1. streams[r][e] \in Stream
    BY DEF SesTypes
<1>2. [streams[r][e] EXCEPT !.running = "fallback"] \in Stream
    BY <1>1 DEF Stream
<1>3. streams' = [streams EXCEPT ![r][e] = [streams[r][e] EXCEPT !.running = "fallback"]]
    BY DEF FallsBack, SesTypes
<1> QED BY <1>2, <1>3, StreamSets DEF SesTypes, FallsBack

LEMMA StopSets ==
    ASSUME SesTypes, NEW r \in Runtime, NEW e \in Entry, StopForRestart(r, e)
    PROVE  /\ StreamSet(r, e, [streams[r][e] EXCEPT !.pending = FALSE, !.running = None,
                                                    !.restart = "stopped"])
           /\ streams[r][e].restart = "begun"
<1>1. streams[r][e] \in Stream
    BY DEF SesTypes
<1>2. [streams[r][e] EXCEPT !.pending = FALSE, !.running = None, !.restart = "stopped"] \in Stream
    BY <1>1 DEF Stream
<1>3. streams' = [streams EXCEPT ![r][e] = [streams[r][e] EXCEPT !.pending = FALSE, !.running = None,
                                                                 !.restart = "stopped"]]
    BY DEF StopForRestart, SesTypes
<1> QED BY <1>2, <1>3, StreamSets DEF SesTypes, StopForRestart

LEMMA RestartSets ==
    ASSUME SesTypes, NEW r \in Runtime, NEW e \in Entry, Restart(r, e)
    PROVE  /\ StreamSet(r, e, [streams[r][e] EXCEPT
                                  !.running = contract[r],
                                  !.restart = IF streams[r][e].pending THEN "begun" ELSE "no"])
           /\ streams[r][e].restart = "stopped"
<1>1. streams[r][e] \in Stream /\ contract[r] \in Profile \cup {None}
    BY DEF SesTypes
<1> DEFINE s == [streams[r][e] EXCEPT !.running = contract[r],
                                      !.restart = IF streams[r][e].pending THEN "begun" ELSE "no"]
<1>2. s \in Stream
    BY <1>1 DEF Stream
<1>3. streams' = [streams EXCEPT ![r][e] = s]
    BY DEF Restart, SesTypes
<1> QED BY <1>2, <1>3, StreamSets DEF SesTypes, Restart

\* The streams and sessions after a session is released.
LEMMA ReleaseSets ==
    ASSUME SesTypes, NEW r \in Runtime, NEW e \in Entry, ReleaseDeviceSession(r, e)
    PROVE  /\ StreamSet(r, e, Stopping(streams[r][e]))
           /\ sessions' \in [Runtime -> SUBSET Entry]
           /\ \A q \in Runtime, x \in Entry :
                 x \in sessions'[q] <=> x \in sessions[q] /\ ~(q = r /\ x = e)
<1>1. Stopping(streams[r][e]) \in Stream
    BY StreamForms DEF SesTypes
<1>2. streams' = [streams EXCEPT ![r][e] = Stopping(streams[r][e])]
    BY DEF ReleaseDeviceSession, SesTypes
<1>3. sessions' = [sessions EXCEPT ![r] = sessions[r] \ {e}]
    BY DEF ReleaseDeviceSession
<1> QED BY <1>1, <1>2, <1>3, StreamSets DEF SesTypes

LEMMA CloseSets ==
    ASSUME SesTypes, NEW r \in Runtime, CloseSessions(r)
    PROVE  /\ streams' \in [Runtime -> [Entry -> Stream]]
           /\ sessions' \in [Runtime -> SUBSET Entry]
           /\ \A q \in Runtime, x \in Entry :
                 streams'[q][x] = IF q = r /\ x \in sessions[r] THEN Stopping(streams[r][x])
                                  ELSE streams[q][x]
           /\ sessions'[r] = {} /\ \A q \in Runtime \ {r} : sessions'[q] = sessions[q]
<1>1. streams' = [streams EXCEPT ![r] = [x \in Entry |-> IF x \in sessions[r] THEN Stopping(streams[r][x])
                                                         ELSE streams[r][x]]]
    BY DEF CloseSessions, SesTypes
<1>2. \A x \in Entry : streams[r][x] \in Stream /\ Stopping(streams[r][x]) \in Stream
    BY StreamForms DEF SesTypes
<1>3. [x \in Entry |-> IF x \in sessions[r] THEN Stopping(streams[r][x]) ELSE streams[r][x]]
        \in [Entry -> Stream]
    BY <1>2
<1> QED BY <1>1, <1>3 DEF SesTypes, CloseSessions

LEMMA NegotiatedSets ==
    ASSUME SesTypes, NEW r \in Runtime, Negotiated(r)
    PROVE  /\ streams' \in [Runtime -> [Entry -> Stream]]
           /\ \A q \in Runtime, x \in Entry :
                 streams'[q][x] = IF q = r /\ x \in sessions[r] /\ contract[r] \notin {None, bridge[key[r]]}
                                  THEN ContractChanged(streams[r][x]) ELSE streams[q][x]
<1>1. CASE contract[r] \in {None, bridge[key[r]]}
    BY <1>1 DEF Negotiated, SesTypes
<1>2. CASE contract[r] \notin {None, bridge[key[r]]}
    <2>1. streams' = [streams EXCEPT ![r] =
              [x \in Entry |-> IF x \in sessions[r] THEN ContractChanged(streams[r][x]) ELSE streams[r][x]]]
        BY <1>2 DEF Negotiated, SesTypes
    <2>2. \A x \in Entry : streams[r][x] \in Stream /\ ContractChanged(streams[r][x]) \in Stream
        BY StreamForms DEF SesTypes
    <2>3. [x \in Entry |-> IF x \in sessions[r] THEN ContractChanged(streams[r][x]) ELSE streams[r][x]]
            \in [Entry -> Stream]
        BY <2>2
    <2> QED BY <1>2, <2>1, <2>3 DEF SesTypes
<1> QED BY <1>1, <1>2

LEMMA StartSets ==
    ASSUME SesTypes, NEW e \in Entry, NEW r \in Runtime, r = Target(e), Synchronize(e)
    PROVE  StreamSet(r, e, Started(streams[r][e], contract[r]))
<1>1. Started(streams[r][e], contract[r]) \in Stream
    <2>1. streams[r][e] \in Stream /\ contract[r] \in Profile \cup {None}
        BY DEF SesTypes
    <2> QED BY <2>1, StreamForms
<1>2. streams' = [streams EXCEPT ![r][e] = Started(streams[r][e], contract[r])]
    BY DEF Synchronize, StartStreams, SesTypes
<1> QED BY <1>1, <1>2, StreamSets DEF SesTypes

\* The runtime that an entry is set up on is one that it holds.
LEMMA TargetHeld ==
    ASSUME OwnInv, NEW e \in Entry, pc[e] \notin {"unloaded", "closing"}
    PROVE  /\ Target(e) \in Held(e) /\ runtime[e] \in Held(e) /\ Released(e) \in Held(e)
           /\ previous[e] # None => previous[e] \in Held(e)
BY HeldForms DEF OwnInv, Placed, Target

LEMMA HeldMade ==
    ASSUME OwnInv, NEW e \in Entry, NEW r \in Held(e) PROVE Made(r) /\ r \in Runtime /\ life[r] = "open"
BY HeldOpen DEF OwnInv, Made

\* An object is made for one key and keeps it.
LEMMA MadeKept ==
    ASSUME OwnInv, [Next]_vars, NEW r, Made(r) PROVE Made(r)' /\ key'[r] = key[r]
<1>1. CASE \E e \in Entry, k \in Key, s \in Runtime : Available(k) /\ Acquire(k, s)
    <2>1. PICK k \in Key, s \in Runtime : Available(k) /\ Acquire(k, s)
        BY <1>1
    <2>2. key' = [key EXCEPT ![s] = k] /\ (key[s] = k \/ key[s] = None)
        BY <2>1, AcquireForms
    <2>3. key[r] # None
        BY NoneAssumption DEF Made
    <2> QED BY <2>2, <2>3 DEF Made, OwnInv, OwnTypes
<1>2. CASE key' = key
    BY <1>2 DEF Made
<1>3. key' = key \/ \E e \in Entry : Setup(e) \/ Reload(e)
    BY ZenonT(40), EntryAssumption DEF Next, EntryStep, Unload, EnsureContract, CreateDeviceSession, Synchronize,
       InitialSnapshot, Commit, Leave, Left, Release, Finish, GiveUp, Fail, FirstPollFails, Poll,
       PollEnsures, PollAnswered, PollFails, Negotiated, NegotiationFails, CloseSessions,
       CloseChannel, StreamsStopped, Reconnects, FallsBack, StopForRestart, Restart, Upgrade,
       owners, vars
<1> QED BY <1>1, <1>2, <1>3 DEF Setup, Reload

\* What is used is made, if what is used anew is.
LEMMA UseKeeps ==
    ASSUME UseInv, SesTypes', \A r : Made(r) => Made(r)',
           \A r \in Runtime : channel'[r] # "none" => channel[r] # "none" \/ Made(r),
           \A r \in Runtime, e \in Entry : e \in sessions'[r] => e \in sessions[r] \/ Made(r),
           \A r \in Runtime, e \in Entry : streams'[r][e] # Off => streams[r][e] # Off \/ Made(r),
           \A e \in Entry : poll'[e].step # "idle" =>
              \/ poll[e].step # "idle" /\ poll'[e].on = poll[e].on /\ poll'[e].of = poll[e].of
              \/ Made(poll'[e].on) /\ Made(poll'[e].of)
    PROVE  UseInv'
BY DEF UseInv, Used

\* Waking changes the step of a poll only.
LEMMA WokenPolls ==
    ASSUME SesTypes, NEW r, NEW step \in {"negotiate", "negotiated", "rejected"}
    PROVE  /\ WakePolls(r, step) \in [Entry -> [step : {"idle", "negotiate", "waiting", "negotiated", "rejected"},
                                               on : Runtime \cup {None}, of : Runtime \cup {None}]]
           /\ \A e \in Entry :
                 /\ WakePolls(r, step)[e].on = poll[e].on /\ WakePolls(r, step)[e].of = poll[e].of
                 /\ WakePolls(r, step)[e].step # "idle" => poll[e].step # "idle"
BY DEF WakePolls, SesTypes

\* The steps of an entry.
LEMMA EntryUses ==
    ASSUME OwnInv, UseInv, NEW e \in Entry, \A r : Made(r) => Made(r)',
           \/ Setup(e) \/ Reload(e) \/ Left(e) \/ Release(e) \/ Finish(e) \/ GiveUp(e)
           \/ InitialSnapshot(e) \/ EnsureContract(e) \/ CreateDeviceSession(e) \/ Synchronize(e)
           \/ Commit(e) \/ Fail(e) \/ FirstPollFails(e) \/ Leave(e) \/ Unload(e)
    PROVE  UseInv'
<1> USE DEF UseInv
<1>1. CASE \/ Setup(e) \/ Reload(e) \/ Left(e) \/ Release(e) \/ Finish(e) \/ GiveUp(e)
           \/ InitialSnapshot(e)
    <2>1. UNCHANGED <<channel, bridge, contract, sessions, streams, poll>>
        BY <1>1 DEF Setup, Reload, Left, Release, Finish, GiveUp, InitialSnapshot, external
    <2> QED BY <2>1, UseKeeps DEF SesTypes
<1>2. CASE EnsureContract(e)
    <2>1. Made(Target(e)) /\ Target(e) \in Runtime
        BY <1>2, TargetHeld, HeldMade DEF EnsureContract
    <2>2. /\ channel' = channel \/ channel' = [channel EXCEPT ![Target(e)] = "negotiating"]
          /\ UNCHANGED <<bridge, contract, sessions, streams, poll>>
        BY <1>2 DEF EnsureContract, Open, external
    <2>3. SesTypes'
        BY <2>1, <2>2 DEF SesTypes
    <2> QED BY <2>1, <2>2, <2>3, UseKeeps DEF SesTypes
<1>3. CASE CreateDeviceSession(e)
    <2>1. Made(Target(e)) /\ Target(e) \in Runtime
        BY <1>3, TargetHeld, HeldMade DEF CreateDeviceSession
    <2>2. /\ sessions' = sessions \/ sessions' = [sessions EXCEPT ![Target(e)] = @ \cup {e}]
          /\ UNCHANGED <<channel, bridge, contract, streams, poll>>
        BY <1>3 DEF CreateDeviceSession, external
    <2>3. SesTypes'
        BY <2>1, <2>2 DEF SesTypes
    <2> QED BY <2>1, <2>2, <2>3, UseKeeps DEF SesTypes
<1>4. CASE Synchronize(e)
    <2>1. Made(Target(e)) /\ Target(e) \in Runtime
        BY <1>4, TargetHeld, HeldMade DEF Synchronize
    <2>2. StreamSet(Target(e), e, Started(streams[Target(e)][e], contract[Target(e)]))
        BY <1>4, <2>1, StartSets
    <2>3. UNCHANGED <<channel, bridge, contract, sessions, poll>>
        BY <1>4 DEF Synchronize, external
    <2>4. SesTypes'
        BY <2>2, <2>3 DEF SesTypes, StreamSet
    <2> QED BY <2>1, <2>2, <2>3, <2>4, UseKeeps DEF StreamSet
<1>5. CASE Commit(e)
    <2>1. UNCHANGED <<channel, bridge, contract, sessions, streams>>
        BY <1>5 DEF Commit, external
    <2>2. CASE replacement[e] = None
        <3>1. poll' = poll
            BY <1>5, <2>2 DEF Commit
        <3> QED BY <2>1, <3>1, UseKeeps DEF SesTypes
    <2>3. CASE replacement[e] # None
        <3>1. replacement[e] \in Runtime /\ Made(replacement[e])
            BY <1>5, <2>3, TargetHeld, HeldMade DEF Commit, Target
        <3>2. poll' = [poll EXCEPT ![e] = [poll[e] EXCEPT !.of = IF poll[e].of = None THEN None ELSE replacement[e]]]
            BY <1>5, <2>3 DEF Commit, SesTypes
        <3>3. poll' \in [Entry -> [step : {"idle", "negotiate", "waiting", "negotiated", "rejected"},
                                   on : Runtime \cup {None}, of : Runtime \cup {None}]]
            BY ZenonT(40), <3>1, <3>2 DEF SesTypes
        <3>4. /\ poll'[e].on = poll[e].on /\ poll'[e].step = poll[e].step
              /\ poll[e].of # None => poll'[e].of = replacement[e]
              /\ \A x \in Entry \ {e} : poll'[x] = poll[x]
            BY <3>2 DEF SesTypes
        <3>5. poll'[e].step # "idle" => Made(poll'[e].on) /\ Made(poll'[e].of)
            BY <3>1, <3>4, NoneAssumption DEF Used, Made
        <3>6. SesTypes'
            BY <2>1, <3>3 DEF SesTypes
        <3> QED BY <2>1, <3>4, <3>5, <3>6, UseKeeps
    <2> QED BY <2>2, <2>3
<1>6. CASE Fail(e) \/ Leave(e) \/ Unload(e)
    <2>1. /\ UNCHANGED <<channel, bridge, contract, poll>>
          /\ \/ UNCHANGED <<sessions, streams>>
             \/ ReleaseDeviceSession(Target(e), e) /\ pc[e] \in Staging
             \/ ReleaseDeviceSession(previous[e], e) /\ pc[e] = "handover"
             \/ ReleaseDeviceSession(runtime[e], e) /\ pc[e] = "loaded"
        BY <1>6 DEF Fail, Leave, Unload, external, Staging
    <2>2. CASE UNCHANGED <<sessions, streams>>
        BY <2>1, <2>2, UseKeeps DEF SesTypes
    <2>3. ASSUME NEW r \in Held(e), ReleaseDeviceSession(r, e) PROVE UseInv'
        <3>1. r \in Runtime /\ Made(r)
            BY HeldMade
        <3>2. SesTypes'
            BY <2>1, <2>3, <3>1, ReleaseSets DEF SesTypes, StreamSet
        <3> QED BY <2>1, <2>3, <3>1, <3>2, ReleaseSets, UseKeeps DEF StreamSet
    <2>4. pc[e] = "handover" => previous[e] # None
        BY DEF OwnInv, Placed
    <2> QED BY <2>1, <2>2, <2>3, <2>4, TargetHeld DEF Staging
<1>7. CASE FirstPollFails(e)
    <2>1. /\ UNCHANGED <<bridge, contract>> /\ pc[e] = "polling"
          /\ channel' = [channel EXCEPT ![runtime[e]] = "none"]
          /\ poll' = WakePolls(runtime[e], "negotiate")
          /\ ReleaseDeviceSession(runtime[e], e)
        BY <1>7 DEF FirstPollFails, external
    <2>2. runtime[e] \in Runtime /\ Made(runtime[e])
        BY <2>1, TargetHeld, HeldMade
    <2>3. SesTypes'
        BY <2>1, <2>2, ReleaseSets, WokenPolls DEF SesTypes, StreamSet
    <2> QED BY SMTT(40), <2>1, <2>2, <2>3, ReleaseSets, WokenPolls, UseKeeps DEF StreamSet, SesTypes
<1> QED BY <1>1, <1>2, <1>3, <1>4, <1>5, <1>6, <1>7

\* The steps of channels, streams, polls and bridges.
LEMMA OtherUses ==
    ASSUME OwnInv, UseInv, \A r : Made(r) => Made(r)',
           \/ UNCHANGED vars
           \/ \E e \in Entry : Poll(e) \/ PollEnsures(e) \/ PollAnswered(e) \/ PollFails(e)
           \/ \E r \in Runtime : Negotiated(r) \/ NegotiationFails(r) \/ CloseSessions(r) \/ CloseChannel(r)
           \/ \E r \in Runtime, e \in Entry :
                 StreamsStopped(r, e) \/ Reconnects(r, e) \/ FallsBack(r, e) \/ StopForRestart(r, e)
                 \/ Restart(r, e)
           \/ \E k \in Key : Upgrade(k)
    PROVE  UseInv'
<1> USE DEF UseInv
<1>1. CASE UNCHANGED vars
    <2>1. UNCHANGED <<channel, bridge, contract, sessions, streams, poll>>
        BY <1>1 DEF vars, external, entries
    <2> QED BY <2>1, UseKeeps DEF SesTypes
<1>2. ASSUME NEW e \in Entry, Poll(e) PROVE UseInv'
    <2>1. /\ UNCHANGED <<channel, bridge, contract, sessions, streams>>
          /\ poll' = [poll EXCEPT ![e] = [step |-> "negotiate", on |-> runtime[e], of |-> runtime[e]]]
          /\ pc[e] = "loaded" \/ replacement[e] # None
        BY <1>2 DEF Poll, external, Initialized
    <2>2. runtime[e] \in Held(e)
        <3>1. Placed(e)
            BY DEF OwnInv
        <3> QED BY <2>1, <3>1, HeldForms DEF Placed
    <2>3. Made(runtime[e]) /\ runtime[e] \in Runtime
        BY <2>2, HeldMade
    <2>4. SesTypes'
        BY <2>1, <2>3 DEF SesTypes
    <2> QED BY <2>1, <2>3, <2>4, UseKeeps DEF SesTypes
<1>3. ASSUME NEW e \in Entry, PollEnsures(e) PROVE UseInv'
    <2>1. /\ UNCHANGED <<bridge, contract, sessions, streams>> /\ poll[e].step = "negotiate"
          /\ channel' = channel \/ channel' = [channel EXCEPT ![poll[e].on] = "negotiating"]
          /\ \E step \in {"waiting", "negotiated"} : poll' = [poll EXCEPT ![e].step = step]
        BY <1>3 DEF PollEnsures, Open, external
    <2>2. Made(poll[e].on) /\ poll[e].on \in Runtime
        BY <2>1 DEF Used, Made
    <2>3. SesTypes'
        <3>1. poll' \in [Entry -> [step : {"idle", "negotiate", "waiting", "negotiated", "rejected"},
                                   on : Runtime \cup {None}, of : Runtime \cup {None}]]
            <4>1. PICK step \in {"waiting", "negotiated"} : poll' = [poll EXCEPT ![e].step = step]
                BY <2>1
            <4>2. poll' = [poll EXCEPT ![e] = [poll[e] EXCEPT !.step = step]]
                BY <4>1 DEF SesTypes
            <4>3. poll[e] \in [step : {"idle", "negotiate", "waiting", "negotiated", "rejected"},
                               on : Runtime \cup {None}, of : Runtime \cup {None}]
                BY DEF SesTypes
            <4> QED BY <4>2, <4>3 DEF SesTypes
        <3>2. channel' \in [Runtime -> {"none", "negotiating", "ready"}]
            BY <2>1, <2>2 DEF SesTypes
        <3> QED BY <2>1, <3>1, <3>2 DEF SesTypes
    <2>4. \A r \in Runtime : channel'[r] # "none" => channel[r] # "none" \/ Made(r)
        BY <2>1, <2>2 DEF SesTypes
    <2>5. \A x \in Entry : poll'[x].step # "idle" =>
              poll[x].step # "idle" /\ poll'[x].on = poll[x].on /\ poll'[x].of = poll[x].of
        BY <2>1 DEF SesTypes
    <2> QED BY <2>1, <2>3, <2>4, <2>5, UseKeeps
<1>4. ASSUME NEW e \in Entry, PollAnswered(e) PROVE UseInv'
    <2>1. /\ UNCHANGED <<channel, bridge, contract, sessions, streams>>
          /\ poll' = [poll EXCEPT ![e] = NoPoll]
        BY <1>4 DEF PollAnswered, external
    <2>2. SesTypes'
        BY <2>1 DEF SesTypes, NoPoll
    <2> QED BY <2>1, <2>2, UseKeeps DEF SesTypes, NoPoll
<1>5. ASSUME NEW e \in Entry, PollFails(e) PROVE UseInv'
    <2>1. /\ UNCHANGED <<bridge, contract, sessions, streams>>
          /\ channel' = [channel EXCEPT ![poll[e].of] = "none"]
          /\ poll' = [WakePolls(poll[e].of, "negotiate") EXCEPT ![e] = NoPoll]
        BY <1>5 DEF PollFails, external
    <2>2. SesTypes'
        BY <2>1, WokenPolls DEF SesTypes, NoPoll
    <2>3. \A r \in Runtime : channel'[r] # "none" => channel[r] # "none"
        BY <2>1 DEF SesTypes
    <2>4. \A x \in Entry : poll'[x].step # "idle" =>
              poll[x].step # "idle" /\ poll'[x].on = poll[x].on /\ poll'[x].of = poll[x].of
        BY <2>1, WokenPolls DEF NoPoll
    <2> QED BY <2>1, <2>2, <2>3, <2>4, UseKeeps
<1>6. ASSUME NEW r \in Runtime, Negotiated(r) PROVE UseInv'
    <2>1. /\ UNCHANGED <<bridge, sessions>> /\ channel[r] = "negotiating"
          /\ channel' = [channel EXCEPT ![r] = "ready"]
          /\ contract' = [contract EXCEPT ![r] = bridge[key[r]]]
          /\ poll' = WakePolls(r, "negotiated")
        BY <1>6 DEF Negotiated, external, Wake
    <2>2. Made(r) /\ bridge[key[r]] \in Profile
        BY <2>1 DEF Used, SesTypes, Made
    <2>3. SesTypes'
        BY <1>6, <2>1, <2>2, NegotiatedSets, WokenPolls DEF SesTypes
    <2>4. \A q \in Runtime : channel'[q] # "none" => channel[q] # "none" \/ Made(q)
        BY <2>1, <2>2 DEF SesTypes
    <2>5. \A q \in Runtime, e \in Entry : streams'[q][e] # Off => streams[q][e] # Off \/ Made(q)
        BY <1>6, <2>2, NegotiatedSets
    <2> QED BY <2>1, <2>3, <2>4, <2>5, WokenPolls, UseKeeps
<1>7. ASSUME NEW r \in Runtime, NegotiationFails(r) PROVE UseInv'
    <2>1. /\ UNCHANGED <<bridge, contract, sessions, streams>>
          /\ channel' = [channel EXCEPT ![r] = "none"]
          /\ poll' = WakePolls(r, "rejected")
        BY <1>7 DEF NegotiationFails, external, Wake
    <2>2. SesTypes'
        BY <2>1, WokenPolls DEF SesTypes
    <2> QED BY <2>1, <2>2, WokenPolls, UseKeeps DEF SesTypes
<1>8. ASSUME NEW r \in Runtime, CloseSessions(r) PROVE UseInv'
    <2>1. UNCHANGED <<channel, bridge, contract, poll>>
        BY <1>8 DEF CloseSessions, external, entries
    <2>2. SesTypes'
        BY <1>8, <2>1, CloseSets DEF SesTypes
    <2>3. \A q \in Runtime, e \in Entry : e \in sessions'[q] => e \in sessions[q]
        BY <1>8, CloseSets
    <2>4. \A q \in Runtime, e \in Entry : streams'[q][e] # Off => streams[q][e] # Off \/ Made(q)
        BY <1>8, CloseSets DEF Used
    <2> QED BY <2>1, <2>2, <2>3, <2>4, UseKeeps
<1>9. ASSUME NEW r \in Runtime, CloseChannel(r) PROVE UseInv'
    <2>1. /\ UNCHANGED <<bridge, contract, sessions, streams>>
          /\ channel' = [channel EXCEPT ![r] = "none"]
          /\ poll' = WakePolls(r, "negotiate")
        BY <1>9 DEF CloseChannel, external, Wake, Invalidate
    <2>2. SesTypes'
        BY <2>1, WokenPolls DEF SesTypes
    <2> QED BY <2>1, <2>2, WokenPolls, UseKeeps DEF SesTypes
<1>10. ASSUME NEW r \in Runtime, NEW e \in Entry, Reconnects(r, e) PROVE UseInv'
    <2>1. /\ UNCHANGED <<bridge, contract, sessions, streams, poll>>
          /\ channel' = [channel EXCEPT ![r] = "negotiating"]
          /\ \/ streams[r][e].running # None
             \/ Target(e) = r /\ pc[e] \in {"registering", "polling"}
        BY <1>10 DEF Reconnects, external, entries, Open
    <2>2. Made(r)
        <3>1. CASE streams[r][e].running # None
            BY <3>1, OffIsQuiet DEF Used
        <3>2. CASE Target(e) = r /\ pc[e] \in {"registering", "polling"}
            BY <3>2, TargetHeld, HeldMade
        <3> QED BY <2>1, <3>1, <3>2
    <2>3. SesTypes'
        BY <2>1 DEF SesTypes
    <2> QED BY <2>1, <2>2, <2>3, UseKeeps DEF SesTypes
<1>11. ASSUME NEW r \in Runtime, NEW e \in Entry, NEW s, StreamSet(r, e, s),
              s = Off \/ streams[r][e] # Off, UNCHANGED <<channel, bridge, contract, sessions, poll>>
       PROVE  UseInv'
    <2>1. SesTypes'
        BY <1>11 DEF SesTypes, StreamSet
    <2>2. \A q \in Runtime, x \in Entry : streams'[q][x] # Off => streams[q][x] # Off
        BY <1>11 DEF StreamSet
    <2> QED BY <1>11, <2>1, <2>2, UseKeeps
<1>12. ASSUME NEW r \in Runtime, NEW e \in Entry,
              StreamsStopped(r, e) \/ FallsBack(r, e) \/ StopForRestart(r, e) \/ Restart(r, e)
       PROVE  UseInv'
    <2>1. UNCHANGED <<channel, bridge, contract, sessions, poll>>
        BY <1>12 DEF StreamsStopped, FallsBack, StopForRestart, Restart, external, entries
    <2>2. CASE StreamsStopped(r, e)
        BY <1>11, <2>1, <2>2, StoppedSets
    <2>3. CASE FallsBack(r, e)
        <3>1. streams[r][e] # Off
            BY <2>3, FallbackSets, OffIsQuiet, NoneAssumption DEF Profile
        <3> QED BY <1>11, <2>1, <2>3, <3>1, FallbackSets
    <2>4. CASE StopForRestart(r, e)
        <3>1. streams[r][e] # Off
            BY <2>4, StopSets, OffIsQuiet
        <3> QED BY <1>11, <2>1, <2>4, <3>1, StopSets
    <2>5. CASE Restart(r, e)
        <3>1. streams[r][e] # Off
            BY <2>5, RestartSets, OffIsQuiet
        <3> QED BY <1>11, <2>1, <2>5, <3>1, RestartSets
    <2> QED BY <1>12, <2>2, <2>3, <2>4, <2>5
<1>13. ASSUME NEW k \in Key, Upgrade(k) PROVE UseInv'
    <2>1. /\ UNCHANGED <<channel, contract, sessions, streams, poll>>
          /\ \E p \in Profile : bridge' = [bridge EXCEPT ![k] = p]
        BY <1>13 DEF Upgrade, entries
    <2>2. SesTypes'
        BY <2>1 DEF SesTypes
    <2> QED BY <2>1, <2>2, UseKeeps DEF SesTypes
<1> QED BY <1>1, <1>2, <1>3, <1>4, <1>5, <1>6, <1>7, <1>8, <1>9, <1>10, <1>12, <1>13

\* Every step keeps what is used made.
LEMMA UseStep ==
    ASSUME OwnInv, UseInv, [Next]_vars PROVE UseInv'
<1>1. \A r : Made(r) => Made(r)'
    BY MadeKept
<1>2. ASSUME NEW e \in Entry,
             \/ Setup(e) \/ Reload(e) \/ Left(e) \/ Release(e) \/ Finish(e) \/ GiveUp(e)
             \/ InitialSnapshot(e) \/ EnsureContract(e) \/ CreateDeviceSession(e) \/ Synchronize(e)
             \/ Commit(e) \/ Fail(e) \/ FirstPollFails(e) \/ Leave(e) \/ Unload(e)
      PROVE  UseInv'
    BY <1>1, <1>2, EntryUses
<1>3. ASSUME \/ UNCHANGED vars
             \/ \E e \in Entry : Poll(e) \/ PollEnsures(e) \/ PollAnswered(e) \/ PollFails(e)
             \/ \E r \in Runtime :
                   Negotiated(r) \/ NegotiationFails(r) \/ CloseSessions(r) \/ CloseChannel(r)
             \/ \E r \in Runtime, e \in Entry :
                   StreamsStopped(r, e) \/ Reconnects(r, e) \/ FallsBack(r, e) \/ StopForRestart(r, e)
                   \/ Restart(r, e)
             \/ \E k \in Key : Upgrade(k)
      PROVE  UseInv'
    BY <1>1, <1>3, OtherUses
<1> QED BY <1>2, <1>3, EntryAssumption DEF Next, EntryStep

Running(e, r) == e \in sessions[r] /\ streams[r][e].started

\* A stream runs for a session, or is being stopped.
Inhabited ==
    \A r \in Runtime, e \in Entry : streams[r][e] # Off => e \in sessions[r] \/ streams[r][e].closing

\* A stream is being stopped while its entry waits for it, or the runtime's close task
\* does, which finds only what a cancelled unloading has left.
ClosingEnds ==
    \A r \in Runtime, e \in Entry : streams[r][e].closing =>
        /\ ~streams[r][e].started /\ streams[r][e].restart = "no"
        /\ pc[e] = "leaving" \/ (<<e, r>> \in abandoned /\ life[r] = "channel")

Owned ==
    \A r \in Runtime, e \in Entry :
        e \in sessions[r] => r \in Held(e) \/ <<e, r>> \in abandoned

\* The sessions an entry has by its step: none yet, or no more, on the runtime that a
\* failure would release; one on the runtime it is set up on; and one on its own for as
\* long as it is loaded or being handed over.
Before == {"negotiate", "waiting", "rejected", "negotiated", "leaving", "release"}
Staged(e) ==
    /\ pc[e] \in Before /\ e \in sessions[Released(e)] => <<e, Released(e)>> \in abandoned
    /\ pc[e] \in {"registering", "polling", "snapshot", "providers"} => e \in sessions[Target(e)]
    /\ pc[e] \in {"snapshot", "providers"} => Running(e, Target(e))
    /\ pc[e] = "loaded" \/ replacement[e] # None => Running(e, runtime[e])

Shut ==
    \A r \in Runtime :
        /\ life[r] \in {"channel", "closed"} => sessions[r] = {}
        /\ life[r] = "closed" => \A e \in Entry : streams[r][e] = Off
        /\ life[r] = "closed" => channel[r] = "none" \/ r \in reopened

SesInv == Inhabited /\ ClosingEnds /\ Owned /\ (\A e \in Entry : Staged(e)) /\ Shut

RunInv == OwnInv /\ UseInv /\ SesInv

\* A step by which no session begins or ends.  Streams may have stopped, and may be
\* restarted or fall back; entries that wait go on; an unloading may be abandoned.
Kept(r, e) ==
    \/ streams'[r][e] = streams[r][e]
    \/ streams[r][e].closing /\ streams'[r][e] = Off
    \/ /\ streams[r][e] # Off
       /\ (streams'[r][e].started <=> streams[r][e].started)
       /\ (streams'[r][e].closing <=> streams[r][e].closing)
       /\ streams[r][e].closing => streams'[r][e].restart = streams[r][e].restart

Advances(e) ==
    /\ \/ pc'[e] = pc[e]
       \/ pc[e] \in Before /\ pc'[e] \in Before \ {"leaving"}
       \/ pc[e] = "snapshot" /\ pc'[e] = "providers"
       \/ pc[e] = "loaded" /\ pc'[e] = "release" /\ <<e, Released(e)>> \in abandoned'
    /\ pc[e] = "leaving" /\ pc'[e] # "leaving" => \A r \in Runtime : ~streams[r][e].closing

LEMMA CalmKeeps ==
    ASSUME RunInv,
           sessions' = sessions, runtime' = runtime, replacement' = replacement, previous' = previous,
           abandoned \subseteq abandoned',
           \A r \in Runtime, e \in Entry : Kept(r, e),
           \A e \in Entry : Advances(e),
           \A r \in Runtime : life[r] = "channel" =>
              life'[r] = "channel" \/ \A e \in Entry : ~streams[r][e].closing,
           Shut'
    PROVE  SesInv'
<1>1. /\ SesTypes /\ Inhabited /\ ClosingEnds /\ Owned /\ \A e \in Entry : Staged(e) /\ Placed(e)
      /\ ~Off.started /\ ~Off.closing
    BY OffIsQuiet DEF RunInv, UseInv, SesInv, OwnInv
<1>2. ASSUME NEW r \in Runtime, NEW e \in Entry
      PROVE  /\ streams'[r][e].closing => streams[r][e].closing
             /\ streams[r][e].started => streams'[r][e].started
             /\ streams'[r][e].closing =>
                   ~streams'[r][e].started /\ streams'[r][e].restart = streams[r][e].restart
             /\ streams'[r][e] # Off => streams[r][e] # Off
             /\ streams[r][e].closing => streams'[r][e].closing \/ streams'[r][e] = Off
    BY ZenonT(40), <1>1 DEF Kept, ClosingEnds
<1>3. \A e \in Entry : Released(e)' = Released(e) /\ Target(e)' = Target(e)
    BY DEF Released, Target
<1>4. \A e \in Entry : Held(e) \subseteq Held(e)'
    BY <1>3 DEF Held, Advances, Before
<1>5. Inhabited'
    BY <1>1, <1>2 DEF Inhabited
<1>6. ClosingEnds'
    <2> SUFFICES ASSUME NEW r \in Runtime, NEW e \in Entry, streams'[r][e].closing
                 PROVE  /\ ~streams'[r][e].started /\ streams'[r][e].restart = "no"
                        /\ pc'[e] = "leaving" \/ (<<e, r>> \in abandoned' /\ life'[r] = "channel")
        BY DEF ClosingEnds
    <2>1. /\ streams[r][e].closing /\ ~streams'[r][e].started
          /\ streams'[r][e].restart = streams[r][e].restart
        BY <1>2
    <2>2. /\ streams[r][e].restart = "no"
          /\ pc[e] = "leaving" \/ (<<e, r>> \in abandoned /\ life[r] = "channel")
        BY <1>1, <2>1 DEF ClosingEnds
    <2> QED BY <2>1, <2>2 DEF Advances
<1>7. Owned'
    BY <1>1, <1>4 DEF Owned
<1>8. ASSUME NEW e \in Entry PROVE Staged(e)'
    <2>1. Staged(e) /\ Placed(e) /\ Advances(e)
        BY <1>1
    <2>2. \A r \in Runtime : Running(e, r) => Running(e, r)'
        BY <1>2 DEF Running
    <2>3. pc'[e] \in Before /\ e \in sessions'[Released(e)] => <<e, Released(e)>> \in abandoned'
        BY <2>1 DEF Staged, Advances, Before
    <2>4. pc[e] \in {"snapshot", "providers"} => Target(e) \in Runtime
        BY TargetHeld, HeldMade DEF RunInv
    <2>5. pc[e] = "loaded" \/ replacement[e] # None => runtime[e] \in Runtime
        BY <2>1 DEF RunInv, OwnInv, OwnTypes, Placed
    <2>6. /\ pc'[e] \in {"registering", "polling", "snapshot", "providers"} => e \in sessions[Target(e)]
          /\ pc'[e] \in {"snapshot", "providers"} => pc[e] \in {"snapshot", "providers"}
          /\ pc'[e] = "loaded" => pc[e] = "loaded"
        BY <2>1 DEF Staged, Advances, Before
    <2>7. pc'[e] \in {"snapshot", "providers"} => Running(e, Target(e))'
        <3>1. pc'[e] \in {"snapshot", "providers"} => Running(e, Target(e)) /\ Target(e) \in Runtime
            BY <2>1, <2>4, <2>6 DEF Staged
        <3> QED BY <1>2, <1>3, <3>1 DEF Running
    <2>8. pc'[e] = "loaded" \/ replacement'[e] # None => Running(e, runtime[e])'
        <3>1. pc'[e] = "loaded" \/ replacement'[e] # None
                => Running(e, runtime[e]) /\ runtime[e] \in Runtime
            BY <2>1, <2>5, <2>6 DEF Staged
        <3> QED BY <1>2, <3>1 DEF Running
    <2> QED BY <1>3, <2>3, <2>6, <2>7, <2>8 DEF Staged
<1> QED BY <1>5, <1>6, <1>7, <1>8 DEF SesInv

\* The channel of a closed runtime is not opened unnoticed.
ChannelsKept ==
    \A r \in Runtime : life[r] = "closed" =>
        channel'[r] = channel[r] \/ channel'[r] = "none" \/ r \in reopened'

\* Nor does a runtime shut in such a step, unless it closes.
LEMMA ShutKept ==
    ASSUME RunInv, sessions' = sessions, life' = life, reopened \subseteq reopened',
           \A r \in Runtime, e \in Entry : Kept(r, e),
           ChannelsKept
    PROVE  Shut'
<1>1. ASSUME NEW r \in Runtime, life[r] = "closed", NEW e \in Entry PROVE streams'[r][e] = Off
    <2>1. streams[r][e] = Off
        BY <1>1 DEF RunInv, SesInv, Shut
    <2> QED BY <2>1, OffIsQuiet DEF Kept
<1> QED BY <1>1 DEF RunInv, SesInv, Shut, ChannelsKept

\* Steps of one entry that are calm.
LEMMA CalmEntry ==
    ASSUME RunInv, NEW e \in Entry,
           \/ EnsureContract(e) \/ GiveUp(e) \/ Left(e) \/ InitialSnapshot(e)
           \/ CreateDeviceSession(e) /\ sessions' = sessions
           \/ Unload(e) /\ sessions' = sessions /\ streams' = streams
              /\ <<e, runtime[e]>> \in abandoned' /\ abandoned \subseteq abandoned' /\ Goto(e, "release")
    PROVE  SesInv'
<1>1. /\ sessions' = sessions /\ streams' = streams /\ life' = life
      /\ runtime' = runtime /\ replacement' = replacement /\ previous' = previous
      /\ abandoned \subseteq abandoned' /\ reopened \subseteq reopened'
    BY DEF EnsureContract, GiveUp, Left, InitialSnapshot, CreateDeviceSession, Unload, Open, history
<1>2. ChannelsKept
    <2>1. CASE channel' = channel
        BY <2>1 DEF ChannelsKept
    <2>2. CASE EnsureContract(e) /\ channel' # channel
        BY <2>2 DEF EnsureContract, Open, RunInv, UseInv, SesTypes, ChannelsKept
    <2> QED BY <2>1, <2>2 DEF GiveUp, Left, InitialSnapshot, CreateDeviceSession, Unload
<1>3. /\ pc \in [Entry -> Step] /\ (\A x \in Entry : Staged(x) /\ Placed(x))
    BY DEF RunInv, SesInv, OwnInv, OwnTypes
<1>4. \A x \in Entry : Advances(x)
    <2>1. CASE EnsureContract(e)
        BY <1>3, <2>1 DEF EnsureContract, Goto, Advances, Before
    <2>2. CASE GiveUp(e)
        BY <1>3, <2>2 DEF GiveUp, Goto, Advances, Before
    <2>3. CASE Left(e)
        BY <1>3, <2>3 DEF Left, Goto, Advances, Before
    <2>4. CASE InitialSnapshot(e)
        BY <1>3, <2>4 DEF InitialSnapshot, Goto, Advances, Before
    <2>5. CASE CreateDeviceSession(e) /\ sessions' = sessions
        <3>1. Target(e) \in Runtime
            BY <2>5, TargetHeld, HeldMade DEF RunInv, CreateDeviceSession
        <3>2. e \in sessions[Target(e)]
            BY <2>5, <3>1 DEF CreateDeviceSession, RunInv, UseInv, SesTypes
        <3>3. pc[e] = "negotiated" /\ pc' = [pc EXCEPT ![e] = "release"]
            BY <2>5, <3>2 DEF CreateDeviceSession, Goto
        <3> QED BY <1>3, <3>3 DEF Advances, Before
    <2>6. CASE Unload(e) /\ sessions' = sessions /\ streams' = streams
              /\ <<e, runtime[e]>> \in abandoned' /\ abandoned \subseteq abandoned' /\ Goto(e, "release")
        <3>1. /\ pc[e] = "loaded" /\ pc' = [pc EXCEPT ![e] = "release"]
              /\ <<e, runtime[e]>> \in abandoned'
            BY <2>6 DEF Unload, Goto
        <3>2. Released(e) = runtime[e]
            BY <1>3, <3>1 DEF Placed, Released
        <3> QED BY <1>3, <3>1, <3>2 DEF Advances
    <2> QED BY <2>1, <2>2, <2>3, <2>4, <2>5, <2>6
<1>5. \A r \in Runtime, x \in Entry : Kept(r, x)
    BY <1>1 DEF Kept
<1>6. Shut'
    BY <1>1, <1>2, <1>5, ShutKept
<1> QED BY <1>1, <1>4, <1>5, <1>6, CalmKeeps

\* Steps of the channels, polls, streams and bridges, all of them calm.
LEMMA WokenSetups ==
    ASSUME NEW r, NEW step \in Before \ {"leaving"}, pc' = WakeSetups(r, step)
    PROVE  \A e \in Entry : Advances(e)
BY DEF WakeSetups, Advances, Before

LEMMA CalmOther ==
    ASSUME RunInv,
           \/ UNCHANGED vars
           \/ \E e \in Entry : Poll(e) \/ PollEnsures(e) \/ PollAnswered(e) \/ PollFails(e)
           \/ \E r \in Runtime : Negotiated(r) \/ NegotiationFails(r)
           \/ \E r \in Runtime, e \in Entry :
                 StreamsStopped(r, e) \/ Reconnects(r, e) \/ FallsBack(r, e) \/ StopForRestart(r, e)
                 \/ Restart(r, e)
           \/ \E k \in Key : Upgrade(k)
    PROVE  SesInv'
<1>1. /\ sessions' = sessions /\ life' = life
      /\ runtime' = runtime /\ replacement' = replacement /\ previous' = previous
      /\ abandoned' = abandoned /\ reopened \subseteq reopened'
    BY ZenonT(40) DEF vars, Poll, PollEnsures, PollAnswered, PollFails, Negotiated, NegotiationFails,
       StreamsStopped, Reconnects, FallsBack, StopForRestart, Restart, Upgrade, Open, history, entries
<1>2. SesTypes /\ ClosingEnds /\ Shut /\ Used
    BY DEF RunInv, UseInv, SesInv
<1>3. ChannelsKept
    <2>1. CASE channel' = channel
        BY <2>1 DEF ChannelsKept
    <2>2. ASSUME NEW r \in Runtime, Open(r) PROVE ChannelsKept
        BY <1>2, <2>2 DEF Open, SesTypes, ChannelsKept
    <2>3. ASSUME NEW r, channel' = [channel EXCEPT ![r] = "none"] PROVE ChannelsKept
        BY <1>2, <2>3 DEF SesTypes, ChannelsKept
    <2>4. ASSUME NEW r \in Runtime, Negotiated(r) PROVE ChannelsKept
        <3>1. channel[r] = "negotiating" /\ channel' = [channel EXCEPT ![r] = "ready"]
            BY <2>4 DEF Negotiated
        <3>2. life[r] = "closed" => r \in reopened'
            BY <1>1, <1>2, <3>1 DEF Shut
        <3> QED BY <1>2, <3>1, <3>2 DEF SesTypes, ChannelsKept
    <2>5. ASSUME NEW e \in Entry, PollEnsures(e) PROVE ChannelsKept
        <3>1. poll[e].on \in Runtime
            BY <1>2, <2>5 DEF PollEnsures, Used, Made
        <3> QED BY <2>1, <2>2, <2>5, <3>1 DEF PollEnsures
    <2>6. ASSUME NEW e \in Entry, PollFails(e) PROVE ChannelsKept
        BY <2>3, <2>6 DEF PollFails
    <2>7. ASSUME NEW r \in Runtime, NegotiationFails(r) PROVE ChannelsKept
        BY <2>3, <2>7 DEF NegotiationFails
    <2>8. ASSUME NEW r \in Runtime, NEW e \in Entry, Reconnects(r, e) PROVE ChannelsKept
        BY <2>2, <2>8 DEF Reconnects
    <2>9. CASE \/ UNCHANGED vars
               \/ \E e \in Entry : Poll(e) \/ PollAnswered(e)
               \/ \E r \in Runtime, e \in Entry :
                     StreamsStopped(r, e) \/ FallsBack(r, e) \/ StopForRestart(r, e) \/ Restart(r, e)
               \/ \E k \in Key : Upgrade(k)
        <3>1. channel' = channel
            BY <2>9 DEF vars, Poll, PollAnswered, StreamsStopped, FallsBack, StopForRestart,
               Restart, Upgrade
        <3> QED BY <2>1, <3>1
    <2> QED BY <2>4, <2>5, <2>6, <2>7, <2>8, <2>9
<1>4. \A e \in Entry : Advances(e)
    <2>1. CASE pc' = pc
        BY <2>1 DEF Advances
    <2>2. CASE \E r \in Runtime : pc' = WakeSetups(r, "negotiated") \/ pc' = WakeSetups(r, "rejected")
        BY <2>2, WokenSetups DEF Before
    <2>3. CASE \E x \in Entry : pc' = WakeSetups(poll[x].of, "negotiate")
        BY <2>3, WokenSetups DEF Before
    <2>4. \/ pc' = pc
          \/ \E r \in Runtime : pc' = WakeSetups(r, "negotiated") \/ pc' = WakeSetups(r, "rejected")
          \/ \E x \in Entry : pc' = WakeSetups(poll[x].of, "negotiate")
        BY ZenonT(40) DEF vars, Poll, PollEnsures, PollAnswered, PollFails, Negotiated, NegotiationFails, Wake,
           StreamsStopped, Reconnects, FallsBack, StopForRestart, Restart, Upgrade, entries
    <2> QED BY <2>1, <2>2, <2>3, <2>4
<1>5. \A r \in Runtime, e \in Entry : Kept(r, e)
    <2>1. CASE streams' = streams
        BY <2>1 DEF Kept
    <2>2. ASSUME NEW r \in Runtime, NEW e \in Entry, StreamsStopped(r, e)
          PROVE  \A q \in Runtime, x \in Entry : Kept(q, x)
        BY <1>2, <2>2, StoppedSets DEF StreamSet, Kept
    <2>3. ASSUME NEW r \in Runtime, NEW e \in Entry, NEW s, StreamSet(r, e, s), streams[r][e] # Off,
                 s.started <=> streams[r][e].started, s.closing <=> streams[r][e].closing,
                 streams[r][e].closing => s.restart = streams[r][e].restart
          PROVE  \A q \in Runtime, x \in Entry : Kept(q, x)
        BY <2>3 DEF StreamSet, Kept
    <2>4. ASSUME NEW r \in Runtime, NEW e \in Entry, FallsBack(r, e)
          PROVE  \A q \in Runtime, x \in Entry : Kept(q, x)
        <3> DEFINE s == [streams[r][e] EXCEPT !.running = "fallback"]
        <3>1. StreamSet(r, e, s) /\ streams[r][e] # Off /\ streams[r][e] \in Stream
            BY <1>2, <2>4, FallbackSets, OffIsQuiet, NoneAssumption DEF Profile, SesTypes
        <3>2. s.started = streams[r][e].started /\ s.closing = streams[r][e].closing
              /\ s.restart = streams[r][e].restart
            BY <3>1 DEF Stream
        <3> HIDE DEF s
        <3> QED BY <2>3, <3>1, <3>2
    <2>5. ASSUME NEW r \in Runtime, NEW e \in Entry, StopForRestart(r, e)
          PROVE  \A q \in Runtime, x \in Entry : Kept(q, x)
        <3> DEFINE s == [streams[r][e] EXCEPT !.pending = FALSE, !.running = None, !.restart = "stopped"]
        <3>4. StreamSet(r, e, s) /\ streams[r][e].restart = "begun"
            BY <1>2, <2>5, StopSets
        <3>1. /\ StreamSet(r, e, s) /\ streams[r][e] # Off /\ streams[r][e] \in Stream
              /\ streams[r][e].restart = "begun"
            BY <1>2, <3>4, OffIsQuiet DEF SesTypes
        <3>2. s.started = streams[r][e].started /\ s.closing = streams[r][e].closing
            BY <3>1 DEF Stream
        <3>3. ~streams[r][e].closing
            BY <1>2, <3>1 DEF ClosingEnds
        <3> HIDE DEF s
        <3> QED BY <2>3, <3>1, <3>2, <3>3
    <2>6. ASSUME NEW r \in Runtime, NEW e \in Entry, Restart(r, e)
          PROVE  \A q \in Runtime, x \in Entry : Kept(q, x)
        <3> DEFINE s == [streams[r][e] EXCEPT !.running = contract[r],
                                              !.restart = IF streams[r][e].pending THEN "begun" ELSE "no"]
        <3>4. StreamSet(r, e, s) /\ streams[r][e].restart = "stopped"
            BY <1>2, <2>6, RestartSets
        <3>1. /\ StreamSet(r, e, s) /\ streams[r][e] # Off /\ streams[r][e] \in Stream
              /\ streams[r][e].restart = "stopped"
            BY <1>2, <3>4, OffIsQuiet DEF SesTypes
        <3>2. s.started = streams[r][e].started /\ s.closing = streams[r][e].closing
            BY <3>1 DEF Stream
        <3>3. ~streams[r][e].closing
            BY <1>2, <3>1 DEF ClosingEnds
        <3> HIDE DEF s
        <3> QED BY <2>3, <3>1, <3>2, <3>3
    <2>7. ASSUME NEW r \in Runtime, Negotiated(r)
          PROVE  \A q \in Runtime, x \in Entry : Kept(q, x)
        <3> SUFFICES ASSUME NEW q \in Runtime, NEW x \in Entry PROVE Kept(q, x)
            OBVIOUS
        <3>1. streams'[q][x] = streams[q][x] \/ streams'[q][x] = ContractChanged(streams[q][x])
            BY <1>2, <2>7, NegotiatedSets
        <3>2. streams[q][x] \in Stream
            BY <1>2 DEF SesTypes
        <3>3. CASE streams[q][x].started
            <4>1. streams[q][x] # Off /\ ~streams[q][x].closing
                BY <1>2, <3>3, OffIsQuiet DEF ClosingEnds
            <4>2. /\ ContractChanged(streams[q][x]).started = streams[q][x].started
                  /\ ContractChanged(streams[q][x]).closing = streams[q][x].closing
                BY <3>2, <3>3, StreamForms
            <4> QED BY <3>1, <4>1, <4>2 DEF Kept
        <3>4. CASE ~streams[q][x].started
            BY <3>1, <3>2, <3>4, StreamForms DEF Kept
        <3> QED BY <3>3, <3>4
    <2>8. \/ streams' = streams
          \/ \E r \in Runtime : Negotiated(r)
          \/ \E r \in Runtime, e \in Entry :
                StreamsStopped(r, e) \/ FallsBack(r, e) \/ StopForRestart(r, e) \/ Restart(r, e)
        BY DEF vars, Poll, PollEnsures, PollAnswered, PollFails, NegotiationFails, Reconnects, Upgrade
    <2> QED BY <2>1, <2>2, <2>4, <2>5, <2>6, <2>7, <2>8
<1>6. Shut'
    BY <1>1, <1>3, <1>5, ShutKept
<1> QED BY <1>1, <1>4, <1>5, <1>6, CalmKeeps

\* What the lemmas below start from.
LEMMA RunFacts ==
    ASSUME RunInv
    PROVE  /\ OwnInv /\ OwnTypes /\ SesTypes /\ Inhabited /\ ClosingEnds /\ Owned /\ Shut
           /\ Registered /\ HeldRegistered
           /\ \A e \in Entry : Staged(e) /\ Placed(e)
           /\ ~Off.started /\ ~Off.closing /\ Off.restart = "no"
BY OffIsQuiet DEF RunInv, OwnInv, UseInv, SesInv

\* An entry that gives up the session it would have to release ends its stream.
LEMMA ReleaseSesKeeps ==
    ASSUME RunInv, NEW e \in Entry, NEW r, r = Released(e), ReleaseDeviceSession(r, e),
           pc[e] \notin {"unloaded", "closing"}, pc'[e] = "leaving",
           \A x \in Entry \ {e} : Advances(x),
           runtime' = runtime, replacement' = replacement, previous' = previous,
           life' = life, abandoned' = abandoned, reopened' = reopened,
           \A q \in Runtime : channel'[q] = channel[q] \/ channel'[q] = "none"
    PROVE  SesInv'
<1>1. /\ OwnInv /\ OwnTypes /\ SesTypes /\ Inhabited /\ ClosingEnds /\ Owned /\ Shut
      /\ \A x \in Entry : Staged(x) /\ Placed(x)
      /\ ~Off.started /\ ~Off.closing /\ Off.restart = "no"
    BY RunFacts
<1>2. r \in Held(e) /\ r \in Runtime /\ life[r] = "open" /\ Made(r)
    BY <1>1, TargetHeld, HeldMade
<1>3. /\ \A q \in Runtime, x \in Entry :
            streams'[q][x] = IF q = r /\ x = e THEN Stopping(streams[r][e]) ELSE streams[q][x]
      /\ \A q \in Runtime, x \in Entry :
            x \in sessions'[q] <=> x \in sessions[q] /\ ~(q = r /\ x = e)
      /\ sessions' \in [Runtime -> SUBSET Entry]
    BY <1>1, <1>2, ReleaseSets DEF StreamSet
<1>4. /\ ~Stopping(streams[r][e]).started /\ Stopping(streams[r][e]).closing
      /\ Stopping(streams[r][e]).restart = "no"
    BY <1>1, <1>2, StreamForms DEF SesTypes
<1>5. \A x \in Entry : Released(x)' = Released(x) /\ Target(x)' = Target(x)
    BY DEF Released, Target
<1>6. \A x \in Entry : Held(x) \subseteq Held(x)'
    BY <1>5 DEF Held, Advances, Before
<1>7. Inhabited'
    BY <1>1, <1>3, <1>4 DEF Inhabited
<1>8. ClosingEnds'
    <2> SUFFICES ASSUME NEW q \in Runtime, NEW x \in Entry, streams'[q][x].closing
                 PROVE  /\ ~streams'[q][x].started /\ streams'[q][x].restart = "no"
                        /\ pc'[x] = "leaving" \/ (<<x, q>> \in abandoned' /\ life'[q] = "channel")
        BY DEF ClosingEnds
    <2>1. CASE x = e
        <3>1. CASE q = r
            BY <1>3, <1>4, <2>1, <3>1
        <3>2. CASE q # r
            BY <1>1, <1>3, <2>1, <3>2 DEF ClosingEnds
        <3> QED BY <3>1, <3>2
    <2>2. CASE x # e
        <3>1. streams'[q][x] = streams[q][x]
            BY <1>3, <2>2
        <3>2. /\ ~streams[q][x].started /\ streams[q][x].restart = "no"
              /\ pc[x] = "leaving" \/ (<<x, q>> \in abandoned /\ life[q] = "channel")
            BY <1>1, <3>1 DEF ClosingEnds
        <3>3. pc[x] = "leaving" => pc'[x] = "leaving"
            BY <2>2, <3>1 DEF Advances
        <3> QED BY <3>1, <3>2, <3>3
    <2> QED BY <2>1, <2>2
<1>9. Owned'
    BY <1>1, <1>3, <1>6 DEF Owned
<1>10. Staged(e)'
    <2>1. e \notin sessions'[r]
        BY <1>2, <1>3
    <2>2. replacement[e] # None => /\ runtime[e] # r /\ runtime[e] \in Runtime
                                   /\ Running(e, runtime[e])
        BY <1>1, HeldForms DEF Staged, OwnTypes, Placed
    <2>3. replacement[e] # None => Running(e, runtime[e])'
        BY <1>3, <2>2 DEF Running
    <2> QED BY <1>5, <2>1, <2>3 DEF Staged
<1>11. ASSUME NEW x \in Entry \ {e} PROVE Staged(x)'
    <2>1. Staged(x) /\ Placed(x) /\ Advances(x) /\ pc[x] \in Step
        BY <1>1 DEF OwnTypes
    <2>2. \A q \in Runtime : /\ x \in sessions'[q] <=> x \in sessions[q]
                             /\ streams'[q][x] = streams[q][x]
        BY <1>3
    <2>3. pc[x] \notin {"unloaded", "closing"} =>
              Released(x) \in Runtime /\ Target(x) \in Runtime
        BY <1>1, TargetHeld, HeldMade
    <2>4. pc[x] = "loaded" \/ replacement[x] # None => runtime[x] \in Runtime
        BY <1>1, <2>1 DEF OwnTypes, Placed
    <2>5. pc'[x] \in Before /\ x \in sessions'[Released(x)] => <<x, Released(x)>> \in abandoned
        <3>1. pc'[x] \in Before => pc[x] \notin {"unloaded", "closing"}
            BY <2>1 DEF Advances, Before
        <3>2. pc'[x] \in Before /\ x \in sessions[Released(x)] => <<x, Released(x)>> \in abandoned
            BY <2>1 DEF Advances, Before, Staged
        <3> QED BY <2>2, <2>3, <3>1, <3>2
    <2>6. /\ pc'[x] \in {"registering", "polling", "snapshot", "providers"} =>
                /\ x \in sessions[Target(x)] /\ pc[x] \notin {"unloaded", "closing"}
          /\ pc'[x] \in {"snapshot", "providers"} => Running(x, Target(x))
          /\ pc'[x] = "loaded" \/ replacement[x] # None =>
                /\ Running(x, runtime[x])
                /\ pc[x] = "loaded" \/ replacement[x] # None
        BY <2>1 DEF Advances, Before, Staged
    <2> QED BY <1>5, <2>2, <2>3, <2>4, <2>5, <2>6 DEF Staged, Running
<1>12. Shut'
    BY <1>1, <1>2, <1>3 DEF Shut
<1> QED BY <1>7, <1>8, <1>9, <1>10, <1>11, <1>12 DEF SesInv

\* The four ways to release a session.
LEMMA LeavingKeeps ==
    ASSUME RunInv, NEW e \in Entry,
           \/ Fail(e) \/ FirstPollFails(e) \/ Leave(e)
           \/ Unload(e) /\ abandoned' = abandoned /\ ReleaseDeviceSession(runtime[e], e) /\ Goto(e, "leaving")
    PROVE  SesInv'
<1>1. OwnTypes /\ Placed(e) /\ SesTypes
    BY RunFacts
<1>2. /\ ReleaseDeviceSession(Released(e), e) /\ pc[e] \notin {"unloaded", "closing"}
      /\ pc' = [pc EXCEPT ![e] = "leaving"] \/ pc' = [WakeSetups(runtime[e], "negotiate") EXCEPT ![e] = "leaving"]
      /\ channel' = channel \/ channel' = [channel EXCEPT ![runtime[e]] = "none"]
    <2>1. CASE Fail(e)
        <3>1. Released(e) = Target(e)
            BY <1>1, <2>1 DEF Fail, Placed, Released, Target, Staging
        <3> QED BY <2>1, <3>1 DEF Fail, Goto
    <2>2. CASE FirstPollFails(e)
        <3>1. Released(e) = runtime[e]
            BY <1>1, <2>2, HeldForms DEF FirstPollFails
        <3> QED BY <2>2, <3>1 DEF FirstPollFails
    <2>3. CASE Leave(e)
        <3>1. Released(e) = previous[e]
            BY <1>1, <2>3 DEF Leave, Placed, Released
        <3> QED BY <2>3, <3>1 DEF Leave, Goto
    <2>4. CASE Unload(e) /\ abandoned' = abandoned /\ ReleaseDeviceSession(runtime[e], e) /\ Goto(e, "leaving")
        <3>1. Released(e) = runtime[e]
            BY <1>1, <2>4 DEF Unload, Placed, Released
        <3> QED BY <2>4, <3>1 DEF Unload, Goto
    <2> QED BY <2>1, <2>2, <2>3, <2>4
<1>3. pc'[e] = "leaving" /\ \A x \in Entry \ {e} : Advances(x)
    BY <1>1, <1>2 DEF OwnTypes, WakeSetups, Advances, Before
<1>4. \A q \in Runtime : channel'[q] = channel[q] \/ channel'[q] = "none"
    BY <1>1, <1>2 DEF SesTypes
<1>5. /\ runtime' = runtime /\ replacement' = replacement /\ previous' = previous
      /\ life' = life /\ abandoned' = abandoned /\ reopened' = reopened
    BY DEF Fail, FirstPollFails, Leave, Unload, history
<1> QED BY <1>2, <1>3, <1>4, <1>5, ReleaseSesKeeps

\* A step that moves one entry, and no session or stream.
LEMMA PointKeeps ==
    ASSUME RunInv, NEW e \in Entry, pc[e] # "leaving",
           UNCHANGED <<sessions, streams, channel, abandoned, reopened>>,
           \A x \in Entry \ {e} : /\ pc'[x] = pc[x] /\ runtime'[x] = runtime[x]
                                  /\ replacement'[x] = replacement[x] /\ previous'[x] = previous[x],
           \A r \in Runtime : life[r] \in {"channel", "closed"} => life'[r] = life[r],
           \A r \in Runtime : life'[r] \in {"channel", "closed"} => life'[r] = life[r],
           \A r \in Runtime : e \in sessions[r] => r \in Held(e)' \/ <<e, r>> \in abandoned,
           Staged(e)'
    PROVE  SesInv'
<1>1. /\ Inhabited /\ ClosingEnds /\ Owned /\ Shut /\ \A x \in Entry : Staged(x)
    BY RunFacts
<1>2. Inhabited' /\ Shut'
    BY <1>1 DEF Inhabited, Shut
<1>3. ClosingEnds'
    BY <1>1 DEF ClosingEnds
<1>4. \A x \in Entry \ {e} :
          Released(x)' = Released(x) /\ Target(x)' = Target(x) /\ Held(x)' = Held(x)
    BY DEF Released, Target, Held
<1>5. Owned'
    BY <1>1, <1>4 DEF Owned
<1>6. \A x \in Entry \ {e} : Staged(x)'
    BY <1>1, <1>4 DEF Staged, Running
<1> QED BY <1>2, <1>3, <1>5, <1>6 DEF SesInv

LEMMA SetupKeeps ==
    ASSUME RunInv, NEW e \in Entry, Setup(e) PROVE SesInv'
<1>1. /\ pc[e] = "unloaded" /\ pc' = [pc EXCEPT ![e] = "negotiate"]
      /\ \E r \in Runtime : runtime' = [runtime EXCEPT ![e] = r]
      /\ replacement' = replacement /\ previous' = previous /\ life' = life
      /\ UNCHANGED <<sessions, streams, channel, abandoned, reopened>>
    BY DEF Setup, Goto, history
<1>2. OwnTypes /\ Placed(e) /\ Owned
    BY RunFacts
<1>3. Held(e) = {} /\ replacement[e] = None
    BY <1>1, <1>2, HeldForms DEF Placed
<1>4. \A r \in Runtime : e \in sessions[r] => <<e, r>> \in abandoned
    BY <1>2, <1>3 DEF Owned
<1>5. pc'[e] = "negotiate" /\ replacement'[e] = None
    BY <1>1, <1>2, <1>3 DEF OwnTypes
<1>6. PICK r \in Runtime : runtime'[e] = r /\ \A x \in Entry \ {e} : runtime'[x] = runtime[x]
    BY <1>1, <1>2 DEF OwnTypes
<1>7. Released(e)' = r
    BY <1>5, <1>6, NoneAssumption DEF Released
<1>8. Staged(e)'
    BY <1>1, <1>4, <1>5, <1>7 DEF Staged
<1>9. \A x \in Entry \ {e} : pc'[x] = pc[x]
    BY <1>1, <1>2 DEF OwnTypes
<1> QED BY <1>1, <1>4, <1>6, <1>8, <1>9, PointKeeps

LEMMA ReloadKeeps ==
    ASSUME RunInv, NEW e \in Entry, Reload(e) PROVE SesInv'
<1>1. PICK k \in Key, r \in Runtime :
          /\ registry[k] # runtime[e] /\ Available(k) /\ Acquire(k, r)
          /\ replacement' = [replacement EXCEPT ![e] = r]
          /\ previous' = [previous EXCEPT ![e] = runtime[e]]
    BY DEF Reload
<1>2. /\ pc[e] = "loaded" /\ pc' = [pc EXCEPT ![e] = "negotiate"]
      /\ runtime' = runtime /\ life' = life
      /\ UNCHANGED <<sessions, streams, channel, abandoned, reopened>>
    BY DEF Reload, Goto, history
<1>3. OwnInv /\ OwnTypes /\ Placed(e) /\ Owned /\ Staged(e) /\ r # None
    BY NoneAssumption, RunFacts
<1>4. replacement[e] = None /\ runtime[e] # None
    BY <1>2, <1>3 DEF Placed
<1>5. Held(e) = {runtime[e]}
    BY <1>2, <1>3, <1>4, HeldForms
<1>6. r # runtime[e]
    <2>1. key[runtime[e]] # None
        BY <1>3, <1>5 DEF OwnInv, HeldRegistered
    <2> QED BY <1>1, <1>3, <2>1, AcquireForms
<1>7. pc'[e] = "negotiate" /\ replacement'[e] = r /\ previous'[e] = runtime[e] /\ runtime'[e] = runtime[e]
    BY <1>1, <1>2, <1>3 DEF OwnTypes
<1>8. Released(e)' = r
    BY <1>3, <1>6, <1>7 DEF Released
<1>9. Held(e)' = {runtime[e], r}
    BY <1>3, <1>4, <1>7 DEF Held
<1>10. \A q \in Runtime : e \in sessions[q] => q = runtime[e] \/ <<e, q>> \in abandoned
    BY <1>3, <1>5 DEF Owned
<1>11. Staged(e)'
    <2>1. Running(e, runtime[e])
        BY <1>2, <1>3 DEF Staged
    <2> QED BY <1>1, <1>2, <1>6, <1>7, <1>8, <1>10, <2>1 DEF Staged, Running
<1>12. \A x \in Entry \ {e} : /\ pc'[x] = pc[x] /\ replacement'[x] = replacement[x]
                               /\ previous'[x] = previous[x]
    BY <1>1, <1>2, <1>3 DEF OwnTypes
<1> QED BY <1>2, <1>9, <1>10, <1>11, <1>12, PointKeeps

LEMMA CommitKeeps ==
    ASSUME RunInv, NEW e \in Entry, Commit(e) PROVE SesInv'
<1>1. /\ pc[e] = "providers"
      /\ IF replacement[e] = None THEN pc' = [pc EXCEPT ![e] = "loaded"] /\ runtime' = runtime
         ELSE /\ pc' = [pc EXCEPT ![e] = "handover"]
              /\ runtime' = [runtime EXCEPT ![e] = replacement[e]]
      /\ replacement' = replacement /\ previous' = previous /\ life' = life
      /\ UNCHANGED <<sessions, streams, channel, abandoned, reopened>>
    BY DEF Commit, Goto, history
<1>2. OwnTypes /\ Placed(e) /\ Owned /\ Staged(e)
    BY RunFacts
<1>3. Running(e, Target(e))
    BY <1>1, <1>2 DEF Staged
<1>4. runtime'[e] = Target(e) /\ pc'[e] \in {"loaded", "handover"}
    BY <1>1, <1>2 DEF OwnTypes, Target
<1>5. Staged(e)'
    BY <1>1, <1>3, <1>4 DEF Staged, Running, Before
<1>6. Held(e) \subseteq Held(e)'
    <2>1. CASE replacement[e] = None
        BY <1>1, <1>2, <2>1 DEF OwnTypes, Held
    <2>2. CASE replacement[e] # None
        BY <1>1, <1>2, <1>4, <2>2 DEF OwnTypes, Held, Placed, Staging
    <2> QED BY <2>1, <2>2
<1>7. \A x \in Entry \ {e} : pc'[x] = pc[x] /\ runtime'[x] = runtime[x]
    BY <1>1, <1>2 DEF OwnTypes
<1> QED BY <1>1, <1>2, <1>5, <1>6, <1>7, PointKeeps DEF Owned

LEMMA ReleaseKeeps ==
    ASSUME RunInv, NEW e \in Entry, NEW r, r = Released(e), Release(e) PROVE SesInv'
<1>1. /\ pc[e] = "release" /\ pc' = [pc EXCEPT ![e] = "closing"]
      /\ life' = life \/ life' = [life EXCEPT ![r] = "sessions"]
      /\ runtime' = runtime /\ replacement' = replacement /\ previous' = previous
      /\ UNCHANGED <<sessions, streams, channel, abandoned, reopened>>
    BY DEF Release, Goto, history
<1>2. OwnInv /\ OwnTypes /\ Placed(e) /\ Owned /\ Staged(e)
    BY RunFacts
<1>3. r \in Runtime /\ life[r] = "open"
    BY <1>1, <1>2, TargetHeld, HeldMade
<1>4. e \in sessions[r] => <<e, r>> \in abandoned
    BY <1>1, <1>2 DEF Staged, Before
<1>5. pc'[e] = "closing" /\ Released(e)' = r /\ \A x \in Entry \ {e} : pc'[x] = pc[x]
    BY <1>1, <1>2 DEF OwnTypes, Released
<1>6. Held(e) \ {r} \subseteq Held(e)'
    BY <1>1, <1>5 DEF Held
<1>7. Staged(e)'
    BY <1>1, <1>2, <1>5 DEF Staged, Running, Before
<1>8. \A q \in Runtime : e \in sessions[q] => q \in Held(e)' \/ <<e, q>> \in abandoned
    BY <1>2, <1>4, <1>6 DEF Owned
<1>9. /\ \A q \in Runtime : life[q] \in {"channel", "closed"} => life'[q] = life[q]
      /\ \A q \in Runtime : life'[q] \in {"channel", "closed"} => life'[q] = life[q]
    BY <1>1, <1>2, <1>3 DEF OwnTypes
<1> QED BY <1>1, <1>5, <1>7, <1>8, <1>9, PointKeeps

LEMMA FinishKeeps ==
    ASSUME RunInv, NEW e \in Entry, Finish(e) PROVE SesInv'
<1>1. /\ pc[e] = "closing"
      /\ IF replacement[e] = None
         THEN pc' = [pc EXCEPT ![e] = "unloaded"] /\ runtime' = [runtime EXCEPT ![e] = None]
         ELSE pc' = [pc EXCEPT ![e] = "loaded"] /\ runtime' = runtime
      /\ replacement' = [replacement EXCEPT ![e] = None] /\ previous' = [previous EXCEPT ![e] = None]
      /\ life' = life /\ UNCHANGED <<sessions, streams, channel, abandoned, reopened>>
    BY DEF Finish, Goto, history
<1>2. OwnTypes /\ Placed(e) /\ Owned /\ Staged(e)
    BY RunFacts
<1>3. replacement'[e] = None /\ previous'[e] = None
    BY <1>1, <1>2 DEF OwnTypes
<1>4. Staged(e)' /\ Held(e) \subseteq Held(e)'
    <2>1. CASE replacement[e] = None
        <3>1. pc'[e] = "unloaded" /\ Held(e) = {}
            BY <1>1, <1>2, <2>1, HeldForms DEF OwnTypes
        <3> QED BY <1>3, <3>1 DEF Staged, Before
    <2>2. CASE replacement[e] # None
        <3>1. pc'[e] = "loaded" /\ runtime'[e] = runtime[e] /\ runtime[e] # None
              /\ Held(e) = {runtime[e]} /\ Running(e, runtime[e])
            BY <1>1, <1>2, <2>2, HeldForms DEF OwnTypes, Placed, Staged
        <3>2. Held(e)' = {runtime[e]}
            BY <1>3, <3>1 DEF Held
        <3>3. Staged(e)'
            BY <1>1, <1>3, <3>1 DEF Staged, Before, Running
        <3> QED BY <3>1, <3>2, <3>3
    <2> QED BY <2>1, <2>2
<1>5. \A x \in Entry \ {e} : /\ pc'[x] = pc[x] /\ runtime'[x] = runtime[x]
                              /\ replacement'[x] = replacement[x] /\ previous'[x] = previous[x]
    BY <1>1, <1>2 DEF OwnTypes
<1> QED BY <1>1, <1>2, <1>4, <1>5, PointKeeps DEF Owned

LEMMA CreateKeeps ==
    ASSUME RunInv, NEW e \in Entry, CreateDeviceSession(e), sessions' # sessions PROVE SesInv'
<1>1. PICK r \in Runtime : r = Target(e) /\ r \in Held(e) /\ life[r] = "open"
    BY RunFacts, TargetHeld, HeldMade DEF CreateDeviceSession
<1>2. /\ pc[e] = "negotiated"
      /\ \E step \in {"registering", "polling"} : pc' = [pc EXCEPT ![e] = step]
      /\ sessions' = [sessions EXCEPT ![r] = sessions[r] \cup {e}]
      /\ UNCHANGED <<streams, channel, abandoned, reopened, life, runtime, replacement, previous>>
    BY <1>1 DEF CreateDeviceSession, Goto, history
<1>3. /\ OwnTypes /\ SesTypes /\ Inhabited /\ ClosingEnds /\ Owned /\ Shut
      /\ \A x \in Entry : Staged(x)
    BY RunFacts
<1>4. /\ \A q \in Runtime, x \in Entry : x \in sessions'[q] <=> x \in sessions[q] \/ (q = r /\ x = e)
      /\ \A q \in Runtime : q # r => sessions'[q] = sessions[q]
      /\ pc'[e] \in {"registering", "polling"} /\ \A x \in Entry \ {e} : pc'[x] = pc[x]
    BY <1>2, <1>3 DEF SesTypes, OwnTypes
<1>5. \A x \in Entry : Released(x)' = Released(x) /\ Target(x)' = Target(x)
    BY <1>2 DEF Released, Target
<1>6. \A x \in Entry : Held(x)' = Held(x)
    BY <1>2, <1>4, <1>5 DEF Held
<1>7. Inhabited' /\ Shut'
    BY <1>1, <1>2, <1>3, <1>4 DEF Inhabited, Shut
<1>8. ClosingEnds'
    BY <1>2, <1>3, <1>4 DEF ClosingEnds
<1>9. Owned'
    BY <1>1, <1>2, <1>3, <1>4, <1>6 DEF Owned
<1>10. Staged(e)'
    <2>1. replacement[e] # None => Running(e, runtime[e]) /\ runtime[e] \in Runtime
        <3>1. Placed(e)
            BY RunFacts
        <3> QED BY <1>2, <1>3, <3>1 DEF Staged, Placed, OwnTypes
    <2>2. replacement'[e] # None => Running(e, runtime[e])'
        BY <1>2, <1>4, <2>1 DEF Running
    <2> QED BY <1>1, <1>4, <1>5, <2>2 DEF Staged, Before
<1>11. ASSUME NEW x \in Entry \ {e} PROVE Staged(x)'
    <2>1. Staged(x) /\ pc'[x] = pc[x] /\ Placed(x) /\ pc[x] \in Step
        BY <1>3, <1>4, RunFacts DEF OwnTypes
    <2>2. \A q \in Runtime : x \in sessions'[q] <=> x \in sessions[q]
        BY <1>4
    <2>3. pc[x] \in Before => Released(x) \in Runtime
        BY TargetHeld, HeldMade, RunFacts DEF Before
    <2>4. pc[x] \in {"registering", "polling", "snapshot", "providers"} => Target(x) \in Runtime
        BY TargetHeld, HeldMade, RunFacts
    <2>5. pc[x] = "loaded" \/ replacement[x] # None => runtime[x] \in Runtime
        BY <1>3, <2>1 DEF OwnTypes, Placed
    <2> QED BY <1>2, <1>5, <2>1, <2>2, <2>3, <2>4, <2>5 DEF Staged, Running
<1> QED BY <1>7, <1>8, <1>9, <1>10, <1>11 DEF SesInv

LEMMA SynchronizeKeeps ==
    ASSUME RunInv, NEW e \in Entry, Synchronize(e) PROVE SesInv'
<1>1. PICK r \in Runtime : r = Target(e) /\ r \in Held(e) /\ life[r] = "open"
    BY RunFacts, TargetHeld, HeldMade DEF Synchronize
<1>2. /\ pc[e] \in {"registering", "polling"}
      /\ \E step \in {"snapshot", "providers"} : pc' = [pc EXCEPT ![e] = step]
      /\ UNCHANGED <<sessions, channel, abandoned, reopened, life, runtime, replacement, previous>>
    BY DEF Synchronize, Goto, history
<1>3. /\ OwnTypes /\ SesTypes /\ Inhabited /\ ClosingEnds /\ Owned /\ Shut
      /\ \A x \in Entry : Staged(x)
    BY RunFacts
<1> DEFINE s == Started(streams[r][e], contract[r])
<1>4. /\ \A q \in Runtime, x \in Entry : streams'[q][x] = IF q = r /\ x = e THEN s ELSE streams[q][x]
      /\ s.started /\ s.closing = streams[r][e].closing
    <2>1. StreamSet(r, e, Started(streams[r][e], contract[r]))
        BY <1>1, <1>3, StartSets
    <2>2. streams[r][e] \in Stream /\ contract[r] \in Profile \cup {None}
        BY <1>3 DEF SesTypes
    <2> QED BY ZenonT(40), <2>1, <2>2, StreamForms DEF StreamSet
<1> HIDE DEF s
<1>5. ~streams[r][e].closing
    BY <1>1, <1>2, <1>3 DEF ClosingEnds
<1>6. ~s.closing
    BY <1>4, <1>5
<1>7. e \in sessions[r]
    BY <1>1, <1>2, <1>3 DEF Staged
<1>8. pc'[e] \in {"snapshot", "providers"} /\ \A x \in Entry \ {e} : pc'[x] = pc[x]
    BY <1>2, <1>3 DEF OwnTypes
<1>9. \A x \in Entry : Released(x)' = Released(x) /\ Target(x)' = Target(x)
    BY <1>2 DEF Released, Target
<1>10. \A x \in Entry : Held(x)' = Held(x)
    BY <1>2, <1>8, <1>9 DEF Held
<1>11. Inhabited' /\ Shut'
    BY <1>1, <1>2, <1>3, <1>4, <1>7 DEF Inhabited, Shut
<1>12. ClosingEnds'
    BY <1>2, <1>3, <1>4, <1>6, <1>8 DEF ClosingEnds
<1>13. Owned'
    BY <1>2, <1>3, <1>10 DEF Owned
<1>14. Staged(e)'
    <2>1. replacement[e] # None => Running(e, runtime[e]) /\ runtime[e] \in Runtime
        <3>1. Placed(e)
            BY RunFacts
        <3> QED BY <1>2, <1>3, <3>1 DEF Staged, Placed, OwnTypes
    <2>2. replacement'[e] # None => Running(e, runtime[e])'
        BY <1>2, <1>4, <2>1 DEF Running
    <2>3. Running(e, Target(e))'
        BY <1>1, <1>2, <1>4, <1>7, <1>9 DEF Running
    <2> QED BY <1>1, <1>2, <1>7, <1>8, <1>9, <2>2, <2>3 DEF Staged, Before
<1>15. ASSUME NEW x \in Entry \ {e} PROVE Staged(x)'
    <2>1. Staged(x) /\ pc'[x] = pc[x] /\ Placed(x) /\ pc[x] \in Step
        BY <1>3, <1>8, RunFacts DEF OwnTypes
    <2>2. \A q \in Runtime : Running(x, q)' <=> Running(x, q)
        BY <1>2, <1>4 DEF Running
    <2>3. pc[x] \in {"snapshot", "providers"} => Running(x, Target(x))'
        <3>1. pc[x] \in {"snapshot", "providers"} => Target(x) \in Runtime /\ Running(x, Target(x))
            BY <2>1, TargetHeld, HeldMade, RunFacts DEF Staged
        <3> QED BY <1>2, <1>4, <1>9, <3>1 DEF Running
    <2>4. pc[x] = "loaded" \/ replacement[x] # None => Running(x, runtime[x])'
        <3>1. pc[x] = "loaded" \/ replacement[x] # None =>
                  runtime[x] \in Runtime /\ Running(x, runtime[x])
            BY <1>3, <2>1 DEF OwnTypes, Placed, Staged
        <3> QED BY <1>2, <1>4, <3>1 DEF Running
    <2> QED BY <1>2, <1>9, <2>1, <2>3, <2>4 DEF Staged
<1> QED BY <1>11, <1>12, <1>13, <1>14, <1>15 DEF SesInv

\* A runtime that nobody holds has no sessions but those of cancelled unloadings.
LEMMA CloseSessionsKeeps ==
    ASSUME RunInv, NEW r \in Runtime, CloseSessions(r) PROVE SesInv'
<1>1. /\ life[r] = "sessions" /\ life' = [life EXCEPT ![r] = "channel"]
      /\ UNCHANGED <<channel, abandoned, reopened, pc, runtime, replacement, previous>>
    BY DEF CloseSessions, history, entries
<1>2. /\ OwnInv /\ OwnTypes /\ SesTypes /\ Inhabited /\ ClosingEnds /\ Owned /\ Shut
      /\ \A x \in Entry : Staged(x) /\ Placed(x)
    BY RunFacts
<1>3. /\ \A q \in Runtime, x \in Entry :
            streams'[q][x] = IF q = r /\ x \in sessions[r] THEN Stopping(streams[r][x]) ELSE streams[q][x]
      /\ sessions'[r] = {} /\ \A q \in Runtime \ {r} : sessions'[q] = sessions[q]
    BY <1>2, CloseSets
<1>4. \A x \in Entry : /\ ~Stopping(streams[r][x]).started /\ Stopping(streams[r][x]).closing
                       /\ Stopping(streams[r][x]).restart = "no"
    BY <1>2, StreamForms DEF SesTypes
<1>5. \A x \in Entry : r \notin Held(x)
    BY <1>1, <1>2, HeldMade
<1>6. \A x \in Entry : /\ Released(x)' = Released(x) /\ Target(x)' = Target(x)
                       /\ Held(x)' = Held(x)
    BY <1>1 DEF Released, Target, Held
<1>7. \A q \in Runtime : life'[q] = IF q = r THEN "channel" ELSE life[q]
    BY <1>1, <1>2 DEF OwnTypes
<1>8. Inhabited' /\ Shut'
    BY <1>1, <1>2, <1>3, <1>4, <1>7 DEF Inhabited, Shut
<1>9. ClosingEnds'
    <2> SUFFICES ASSUME NEW q \in Runtime, NEW x \in Entry, streams'[q][x].closing
                 PROVE  /\ ~streams'[q][x].started /\ streams'[q][x].restart = "no"
                        /\ pc'[x] = "leaving" \/ (<<x, q>> \in abandoned' /\ life'[q] = "channel")
        BY DEF ClosingEnds
    <2>1. CASE q = r /\ x \in sessions[r]
        <3>1. <<x, r>> \in abandoned
            BY <1>2, <1>5, <2>1 DEF Owned
        <3> QED BY <1>1, <1>3, <1>4, <1>7, <2>1, <3>1
    <2>2. CASE ~(q = r /\ x \in sessions[r])
        <3>1. streams'[q][x] = streams[q][x]
            BY <1>3, <2>2
        <3>2. /\ ~streams[q][x].started /\ streams[q][x].restart = "no"
              /\ pc[x] = "leaving" \/ (<<x, q>> \in abandoned /\ life[q] = "channel")
            BY <1>2, <3>1 DEF ClosingEnds
        <3> QED BY <1>1, <1>7, <3>1, <3>2
    <2> QED BY <2>1, <2>2
<1>10. Owned'
    BY <1>1, <1>2, <1>3, <1>6 DEF Owned
<1>11. ASSUME NEW x \in Entry PROVE Staged(x)'
    <2>1. Staged(x) /\ Placed(x)
        BY <1>2
    <2>2. ASSUME NEW q \in Held(x)
          PROVE  /\ x \in sessions'[q] <=> x \in sessions[q]
                 /\ Running(x, q) => Running(x, q)'
        <3>1. q \in Runtime /\ q # r
            BY <1>2, <1>5, HeldMade
        <3> QED BY <1>3, <3>1 DEF Running
    <2>3. pc[x] \in Before => Released(x) \in Held(x)
        BY <1>2, TargetHeld DEF Before
    <2>4. pc[x] \in {"registering", "polling", "snapshot", "providers"} => Target(x) \in Held(x)
        BY <1>2, TargetHeld
    <2>5. pc[x] = "loaded" \/ replacement[x] # None => runtime[x] \in Held(x)
        BY <2>1, HeldForms DEF Placed
    <2>6. pc[x] \in Before /\ x \in sessions'[Released(x)] => <<x, Released(x)>> \in abandoned
        BY <2>1, <2>2, <2>3 DEF Staged
    <2>7. pc[x] \in {"registering", "polling", "snapshot", "providers"} => x \in sessions'[Target(x)]
        BY <2>1, <2>2, <2>4 DEF Staged
    <2>8. pc[x] \in {"snapshot", "providers"} => Running(x, Target(x))'
        <3>1. pc[x] \in {"snapshot", "providers"} =>
                  x \in sessions'[Target(x)] /\ streams'[Target(x)][x].started
            BY <2>1, <2>2, <2>4 DEF Staged, Running
        <3> QED BY <1>6, <3>1 DEF Running
    <2>9. pc[x] = "loaded" \/ replacement[x] # None => Running(x, runtime[x])'
        <3>1. pc[x] = "loaded" \/ replacement[x] # None =>
                  x \in sessions'[runtime[x]] /\ streams'[runtime[x]][x].started
            BY <2>1, <2>2, <2>5 DEF Staged, Running
        <3> QED BY <1>1, <3>1 DEF Running
    <2> QED BY <1>1, <1>6, <2>6, <2>7, <2>8, <2>9 DEF Staged
<1> QED BY <1>8, <1>9, <1>10, <1>11 DEF SesInv

LEMMA CloseChannelKeeps ==
    ASSUME RunInv, NEW r \in Runtime, CloseChannel(r) PROVE SesInv'
<1>1. /\ life[r] = "channel" /\ life' = [life EXCEPT ![r] = "closed"]
      /\ \A e \in Entry : ~streams[r][e].closing
      /\ channel' = [channel EXCEPT ![r] = "none"] /\ pc' = WakeSetups(r, "negotiate")
      /\ UNCHANGED <<sessions, streams, abandoned, reopened, runtime, replacement, previous>>
    BY DEF CloseChannel, Invalidate, Wake, history
<1>2. OwnTypes /\ SesTypes /\ Inhabited /\ Shut
    BY RunFacts
<1>3. \A q \in Runtime, e \in Entry : Kept(q, e)
    BY <1>1 DEF Kept
<1>4. \A e \in Entry : Advances(e)
    BY <1>1, WokenSetups DEF Before
<1>5. sessions[r] = {} /\ \A e \in Entry : streams[r][e] = Off
    BY <1>1, <1>2 DEF Shut, Inhabited
<1>6. \A q \in Runtime : life'[q] = IF q = r THEN "closed" ELSE life[q]
    BY <1>1, <1>2 DEF OwnTypes
<1>7. Shut'
    BY <1>1, <1>2, <1>5, <1>6 DEF Shut, SesTypes
<1>8. \A q \in Runtime : life[q] = "channel" =>
          life'[q] = "channel" \/ \A e \in Entry : ~streams[q][e].closing
    BY <1>1, <1>6
<1> QED BY <1>1, <1>3, <1>4, <1>7, <1>8, CalmKeeps

\* Every step keeps the sessions with their owners.
LEMMA SesStep ==
    ASSUME RunInv, [Next]_vars PROVE SesInv'
<1>1. ASSUME NEW e \in Entry, Setup(e) \/ Reload(e) \/ Commit(e) \/ Release(e) \/ Finish(e) PROVE SesInv'
    BY <1>1, SetupKeeps, ReloadKeeps, CommitKeeps, ReleaseKeeps, FinishKeeps
<1>2. ASSUME NEW e \in Entry, EnsureContract(e) \/ GiveUp(e) \/ Left(e) \/ InitialSnapshot(e) PROVE SesInv'
    BY <1>2, CalmEntry
<1>3. ASSUME NEW e \in Entry, CreateDeviceSession(e) PROVE SesInv'
    BY <1>3, CreateKeeps, CalmEntry
<1>4. ASSUME NEW e \in Entry, Synchronize(e) PROVE SesInv'
    BY <1>4, SynchronizeKeeps
<1>5. ASSUME NEW e \in Entry, Fail(e) \/ FirstPollFails(e) \/ Leave(e) PROVE SesInv'
    BY <1>5, LeavingKeeps
<1>6. ASSUME NEW e \in Entry, Unload(e) PROVE SesInv'
    <2>1. CASE abandoned' = abandoned /\ ReleaseDeviceSession(runtime[e], e) /\ Goto(e, "leaving")
        BY <1>6, <2>1, LeavingKeeps
    <2>2. CASE /\ abandoned' = abandoned \cup {<<e, runtime[e]>>} /\ sessions' = sessions
               /\ streams' = streams /\ Goto(e, "release")
        <3>1. <<e, runtime[e]>> \in abandoned' /\ abandoned \subseteq abandoned'
            BY <2>2
        <3> QED BY <1>6, <2>2, <3>1, CalmEntry
    <2> QED BY <1>6, <2>1, <2>2 DEF Unload
<1>7. ASSUME NEW r \in Runtime, CloseSessions(r) \/ CloseChannel(r) PROVE SesInv'
    BY <1>7, CloseSessionsKeeps, CloseChannelKeeps
<1>8. ASSUME \/ UNCHANGED vars
             \/ \E e \in Entry : Poll(e) \/ PollEnsures(e) \/ PollAnswered(e) \/ PollFails(e)
             \/ \E r \in Runtime : Negotiated(r) \/ NegotiationFails(r)
             \/ \E r \in Runtime, e \in Entry :
                   StreamsStopped(r, e) \/ Reconnects(r, e) \/ FallsBack(r, e) \/ StopForRestart(r, e)
                   \/ Restart(r, e)
             \/ \E k \in Key : Upgrade(k)
      PROVE  SesInv'
    BY <1>8, CalmOther
<1> QED BY <1>1, <1>2, <1>3, <1>4, <1>5, <1>6, <1>7, <1>8, EntryAssumption DEF Next, EntryStep

\* The second invariant holds in every state.
LEMMA RunInvariant == Spec => []RunInv
<1>1. Init => UseInv /\ SesInv
    <2> SUFFICES ASSUME Init PROVE UseInv /\ SesInv
        OBVIOUS
    <2>1. SesTypes
        <3>1. poll \in [Entry -> [step : {"idle", "negotiate", "waiting", "negotiated", "rejected"},
                                  on : Runtime \cup {None}, of : Runtime \cup {None}]]
            BY DEF Init, NoPoll
        <3>2. streams \in [Runtime -> [Entry -> Stream]]
            BY StreamForms DEF Init
        <3> QED BY <3>1, <3>2 DEF Init, SesTypes
    <2>2. Used
        BY DEF Init, Used, NoPoll
    <2>3. Inhabited /\ ClosingEnds /\ Owned /\ Shut
        BY OffIsQuiet DEF Init, Inhabited, ClosingEnds, Owned, Shut
    <2>4. \A e \in Entry : Staged(e)
        BY DEF Init, Staged, Before
    <2> QED BY <2>1, <2>2, <2>3, <2>4 DEF UseInv, SesInv
<1>2. OwnInv /\ (UseInv /\ SesInv) /\ [Next]_vars => UseInv' /\ SesInv'
    BY UseStep, SesStep DEF RunInv
<1>3. OwnInv /\ UseInv /\ SesInv => RunInv
    BY DEF RunInv
<1> QED BY <1>1, <1>2, <1>3, OwnInvariant, PTL DEF Spec

\* Every session that runs has its owner, a loaded entry has one session that runs, and a
\* closed runtime runs nothing, for any number of entries, bridges and runtimes.
THEOREM RuntimeSessionsOwned == Spec => []SessionsOwned
<1>1. RunInv => SessionsOwned
    <2> SUFFICES ASSUME RunInv PROVE SessionsOwned
        OBVIOUS
    <2>1. /\ OwnInv /\ OwnTypes /\ SesTypes /\ Inhabited /\ ClosingEnds /\ Owned /\ Shut
          /\ \A e \in Entry : Staged(e) /\ Placed(e)
        BY RunFacts
    <2>2. ASSUME NEW e \in Entry, pc[e] = "loaded"
          PROVE  /\ e \in sessions[runtime[e]] /\ streams[runtime[e]][e].started
                 /\ \A r \in Runtime \ {runtime[e]} : streams[r][e] = Off \/ <<e, r>> \in abandoned
        <3>1. Running(e, runtime[e])
            BY <2>1, <2>2 DEF Staged
        <3>2. Held(e) = {runtime[e]}
            BY <2>1, <2>2, HeldForms DEF Placed
        <3>3. ASSUME NEW r \in Runtime \ {runtime[e]}, streams[r][e] # Off PROVE <<e, r>> \in abandoned
            <4>1. CASE e \in sessions[r]
                BY <2>1, <3>2, <4>1 DEF Owned
            <4>2. CASE streams[r][e].closing
                BY <2>1, <2>2, <4>2 DEF ClosingEnds
            <4> QED BY <2>1, <3>3, <4>1, <4>2 DEF Inhabited
        <3> QED BY <3>1, <3>3 DEF Running
    <2>3. \A r \in Runtime : \A e \in sessions[r] : r \in Held(e) \/ <<e, r>> \in abandoned
        BY <2>1 DEF Owned, SesTypes
    <2>4. \A r \in Runtime : life[r] = "closed" =>
              /\ sessions[r] = {} /\ \A e \in Entry : streams[r][e] = Off
              /\ channel[r] = "none" \/ r \in reopened
        BY <2>1 DEF Shut
    <2> QED BY <2>2, <2>3, <2>4 DEF SessionsOwned
<1> QED BY <1>1, RunInvariant, PTL

-----------------------------------------------------------------------------
(* The contract that the streams of a session follow.                      *)

Informed == {"negotiated", "registering", "polling"}

\* Nobody gets a channel, and no stream is started, before there is a contract.
Negotiating ==
    /\ \A r \in Runtime : channel[r] = "ready" => contract[r] # None
    /\ \A e \in Entry : pc[e] \in Informed => contract[Target(e)] # None
    /\ \A r \in Runtime, e \in Entry : streams[r][e].started => contract[r] # None

Follows(s, p) ==
    s.started /\ s.restart = "no" => s.running = p \/ (s.running = "fallback" /\ p = "consolidated")

StreamsFollow == \A r \in Runtime, e \in Entry : Follows(streams[r][e], contract[r])

\* A step after which an entry is as informed as it was.
Uninformed(e) ==
    pc'[e] \in Informed =>
        pc[e] \in Informed /\ runtime'[e] = runtime[e] /\ replacement'[e] = replacement[e]

LEMMA WokenUninformed ==
    ASSUME NEW r, NEW step \in Before, step \notin Informed, pc' = WakeSetups(r, step),
           runtime' = runtime, replacement' = replacement
    PROVE  \A e \in Entry : Uninformed(e)
BY DEF WakeSetups, Uninformed

\* Steps that start no stream and negotiate nothing.
LEMMA ProfileKeeps ==
    ASSUME RunInv, Negotiating, StreamsFollow, contract' = contract,
           \A r \in Runtime : channel'[r] = "ready" => channel[r] = "ready",
           \A e \in Entry : Uninformed(e),
           \A r \in Runtime, e \in Entry :
              streams'[r][e] = streams[r][e] \/ ~streams'[r][e].started
    PROVE  Negotiating' /\ StreamsFollow'
<1>1. StreamsFollow'
    BY DEF StreamsFollow, Follows
<1>2. \A e \in Entry : pc'[e] \in Informed => contract[Target(e)'] # None
    <2> SUFFICES ASSUME NEW e \in Entry, pc'[e] \in Informed PROVE contract[Target(e)'] # None
        OBVIOUS
    <2>1. pc[e] \in Informed /\ Target(e)' = Target(e)
        BY DEF Uninformed, Target
    <2> QED BY <2>1 DEF Negotiating
<1>3. Negotiating'
    BY <1>2 DEF Negotiating
<1> QED BY <1>1, <1>3

LEMMA EntryProfile ==
    ASSUME RunInv, Negotiating, StreamsFollow, NEW e \in Entry,
           \/ Setup(e) \/ Reload(e) \/ Left(e) \/ Release(e) \/ Finish(e) \/ GiveUp(e)
           \/ InitialSnapshot(e) \/ CreateDeviceSession(e) \/ Commit(e)
           \/ Fail(e) \/ FirstPollFails(e) \/ Leave(e) \/ Unload(e)
    PROVE  Negotiating' /\ StreamsFollow'
<1>1. contract' = contract
    BY DEF Setup, Reload, Left, Release, Finish, GiveUp, InitialSnapshot, CreateDeviceSession, Commit,
       Fail, FirstPollFails, Leave, Unload
<1>2. OwnInv /\ OwnTypes /\ SesTypes
    BY RunFacts
<1>3. \A r \in Runtime : channel'[r] = "ready" => channel[r] = "ready"
    <2>1. channel' = channel \/ channel' = [channel EXCEPT ![runtime[e]] = "none"]
        BY DEF Setup, Reload, Left, Release, Finish, GiveUp, InitialSnapshot, CreateDeviceSession,
           Commit, Fail, FirstPollFails, Leave, Unload
    <2> QED BY <1>2, <2>1 DEF SesTypes
<1>4. \A x \in Entry : Uninformed(x)
    <2>1. ASSUME NEW step \in Step \ Informed, Goto(e, step),
                 runtime' = runtime \/ \E r : runtime' = [runtime EXCEPT ![e] = r],
                 replacement' = replacement \/ \E r : replacement' = [replacement EXCEPT ![e] = r]
          PROVE  \A x \in Entry : Uninformed(x)
        BY <1>2, <2>1 DEF Goto, OwnTypes, Uninformed
    <2>2. CASE CreateDeviceSession(e)
        BY <1>2, <2>2 DEF CreateDeviceSession, Goto, OwnTypes, Uninformed, Informed
    <2>3. CASE FirstPollFails(e)
        BY <1>2, <2>3 DEF FirstPollFails, WakeSetups, OwnTypes, Uninformed, Informed
    <2>4. CASE Setup(e)
        BY <2>1, <2>4 DEF Setup, Step, Staging, Informed
    <2>5. CASE Reload(e)
        BY <2>1, <2>5 DEF Reload, Step, Staging, Informed
    <2>6. CASE Left(e) \/ GiveUp(e) \/ Release(e) \/ InitialSnapshot(e)
        BY <2>1, <2>6 DEF Left, GiveUp, Release, InitialSnapshot, Step, Staging, Informed
    <2>7. CASE Finish(e)
        BY <2>1, <2>7 DEF Finish, Step, Staging, Informed
    <2>8. CASE Commit(e)
        BY <2>1, <2>8 DEF Commit, Step, Staging, Informed
    <2>9. CASE Fail(e) \/ Leave(e) \/ Unload(e)
        BY <2>1, <2>9 DEF Fail, Leave, Unload, Step, Staging, Informed
    <2> QED BY <2>2, <2>3, <2>4, <2>5, <2>6, <2>7, <2>8, <2>9
<1>5. \A r \in Runtime, x \in Entry : streams'[r][x] = streams[r][x] \/ ~streams'[r][x].started
    <2>1. CASE streams' = streams
        BY <2>1
    <2>2. ASSUME NEW r \in Runtime, ReleaseDeviceSession(r, e)
          PROVE  \A q \in Runtime, x \in Entry : streams'[q][x] = streams[q][x] \/ ~streams'[q][x].started
        <3>1. \A s \in Stream : ~Stopping(s).started
            BY StreamForms
        <3> QED BY <1>2, <2>2, <3>1, ReleaseSets DEF StreamSet, SesTypes
    <2>3. \/ streams' = streams
          \/ ReleaseDeviceSession(Target(e), e) /\ pc[e] \notin {"unloaded", "closing"}
          \/ ReleaseDeviceSession(previous[e], e) /\ pc[e] = "handover"
          \/ ReleaseDeviceSession(runtime[e], e) /\ pc[e] \notin {"unloaded", "closing"}
        BY DEF Setup, Reload, Left, Release, Finish, GiveUp, InitialSnapshot, CreateDeviceSession,
           Commit, Fail, FirstPollFails, Leave, Unload
    <2>4. pc[e] = "handover" => previous[e] # None
        BY <1>2 DEF OwnInv, Placed
    <2> QED BY <1>2, <2>1, <2>2, <2>3, <2>4, TargetHeld, HeldMade
<1> QED BY <1>1, <1>3, <1>4, <1>5, ProfileKeeps

\* An entry is informed once the channel of its runtime is ready.
LEMMA EnsuredProfile ==
    ASSUME RunInv, Negotiating, StreamsFollow, NEW e \in Entry, EnsureContract(e)
    PROVE  Negotiating' /\ StreamsFollow'
<1>1. PICK r \in Runtime : r = Target(e)
    BY RunFacts, TargetHeld, HeldMade DEF EnsureContract
<1>2. /\ contract' = contract /\ streams' = streams /\ runtime' = runtime /\ replacement' = replacement
      /\ \/ channel' = [channel EXCEPT ![r] = "negotiating"] /\ pc' = [pc EXCEPT ![e] = "waiting"]
         \/ channel' = channel /\ pc' = [pc EXCEPT ![e] = "waiting"]
         \/ channel' = channel /\ channel[r] = "ready" /\ pc' = [pc EXCEPT ![e] = "negotiated"]
    BY <1>1 DEF EnsureContract, Open, Goto
<1>3. OwnTypes /\ SesTypes
    BY RunFacts
<1>4. \A x \in Entry : Target(x)' = Target(x)
    BY <1>2 DEF Target
<1>5. \A q \in Runtime : channel'[q] = "ready" => channel[q] = "ready"
    BY <1>2, <1>3 DEF SesTypes
<1>6. \A x \in Entry : pc'[x] \in Informed => pc[x] \in Informed \/ (x = e /\ channel[r] = "ready")
    BY <1>2, <1>3 DEF OwnTypes, Informed
<1>7. Negotiating'
    BY <1>1, <1>2, <1>4, <1>5, <1>6 DEF Negotiating
<1> QED BY <1>2, <1>7 DEF StreamsFollow

\* Streams are started with the contract in force.
LEMMA StartedProfile ==
    ASSUME RunInv, Negotiating, StreamsFollow, NEW e \in Entry, Synchronize(e)
    PROVE  Negotiating' /\ StreamsFollow'
<1>1. PICK r \in Runtime : r = Target(e)
    BY RunFacts, TargetHeld, HeldMade DEF Synchronize
<1>2. /\ contract' = contract /\ channel' = channel /\ runtime' = runtime /\ replacement' = replacement
      /\ pc[e] \in {"registering", "polling"}
      /\ \E step \in {"snapshot", "providers"} : pc' = [pc EXCEPT ![e] = step]
    BY DEF Synchronize, Goto
<1>3. OwnTypes /\ SesTypes
    BY RunFacts
<1> DEFINE begun == Started(streams[r][e], contract[r])
<1>4. \A q \in Runtime, x \in Entry : streams'[q][x] = IF q = r /\ x = e THEN begun ELSE streams[q][x]
    BY <1>1, <1>3, StartSets DEF StreamSet
<1>5. begun.running = contract[r]
    <2>1. streams[r][e] \in Stream /\ contract[r] \in Profile \cup {None}
        BY <1>3 DEF SesTypes
    <2> QED BY <2>1 DEF Started, Stream, begun
<1> HIDE DEF begun
<1>6. contract[r] # None
    BY <1>1, <1>2 DEF Negotiating, Informed
<1>7. \A x \in Entry : Target(x)' = Target(x) /\ (pc'[x] \in Informed => pc[x] \in Informed)
    BY <1>2, <1>3 DEF Target, OwnTypes, Informed
<1>8. Negotiating'
    BY <1>2, <1>4, <1>6, <1>7 DEF Negotiating
<1>9. StreamsFollow'
    BY <1>2, <1>4, <1>5 DEF StreamsFollow, Follows
<1> QED BY <1>8, <1>9

\* A step of one stream that does not start it.
LEMMA StreamProfile ==
    ASSUME RunInv, Negotiating, StreamsFollow, NEW r \in Runtime, NEW e \in Entry,
           StreamsStopped(r, e) \/ FallsBack(r, e) \/ StopForRestart(r, e) \/ Restart(r, e)
    PROVE  Negotiating' /\ StreamsFollow'
<1>1. UNCHANGED <<contract, channel, pc, runtime, replacement>>
    BY DEF StreamsStopped, FallsBack, StopForRestart, Restart, entries
<1>2. SesTypes /\ streams[r][e] \in Stream
    BY RunFacts DEF SesTypes
<1>3. ASSUME NEW s, StreamSet(r, e, s), s.started => streams[r][e].started, Follows(s, contract[r])
      PROVE  Negotiating' /\ StreamsFollow'
    <2>1. \A x \in Entry : Target(x)' = Target(x)
        BY <1>1 DEF Target
    <2>2. \A q \in Runtime, x \in Entry : streams'[q][x] = IF q = r /\ x = e THEN s ELSE streams[q][x]
        BY <1>3 DEF StreamSet
    <2>3. \A q \in Runtime, x \in Entry : streams'[q][x].started => streams[q][x].started
        BY <1>3, <2>2
    <2>4. Negotiating'
        BY <1>1, <2>1, <2>3 DEF Negotiating
    <2>5. StreamsFollow'
        BY <1>1, <1>3, <2>2 DEF StreamsFollow
    <2> QED BY <2>4, <2>5
<1>4. CASE StreamsStopped(r, e)
    <2>1. StreamSet(r, e, Off)
        BY <1>2, <1>4, StoppedSets
    <2> QED BY <1>3, <2>1, OffIsQuiet DEF Follows
<1>5. CASE FallsBack(r, e)
    <2> DEFINE s == [streams[r][e] EXCEPT !.running = "fallback"]
    <2>1. StreamSet(r, e, s) /\ streams[r][e].running = "consolidated"
        BY <1>2, <1>5, FallbackSets
    <2>2. s.started = streams[r][e].started /\ s.restart = streams[r][e].restart /\ s.running = "fallback"
        BY <1>2 DEF Stream
    <2>3. Follows(streams[r][e], contract[r])
        BY DEF StreamsFollow
    <2> HIDE DEF s
    <2>4. Follows(s, contract[r])
        BY <2>1, <2>2, <2>3 DEF Follows
    <2> QED BY <1>3, <2>1, <2>2, <2>4
<1>6. CASE StopForRestart(r, e)
    <2> DEFINE s == [streams[r][e] EXCEPT !.pending = FALSE, !.running = None, !.restart = "stopped"]
    <2>1. StreamSet(r, e, s)
        BY <1>2, <1>6, StopSets
    <2>2. s.started = streams[r][e].started /\ s.restart = "stopped"
        BY <1>2 DEF Stream
    <2> HIDE DEF s
    <2>3. Follows(s, contract[r])
        BY <2>2 DEF Follows
    <2> QED BY <1>3, <2>1, <2>2, <2>3
<1>7. CASE Restart(r, e)
    <2> DEFINE s == [streams[r][e] EXCEPT !.running = contract[r],
                                          !.restart = IF streams[r][e].pending THEN "begun" ELSE "no"]
    <2>1. StreamSet(r, e, s)
        BY <1>2, <1>7, RestartSets
    <2>2. s.started = streams[r][e].started /\ s.running = contract[r]
        BY <1>2 DEF Stream
    <2> HIDE DEF s
    <2>3. Follows(s, contract[r])
        BY <2>2 DEF Follows
    <2> QED BY <1>3, <2>1, <2>2, <2>3
<1> QED BY <1>4, <1>5, <1>6, <1>7

\* A new contract is told to every session whose streams are started.
LEMMA NegotiatedProfile ==
    ASSUME RunInv, Negotiating, StreamsFollow, NEW r \in Runtime, Negotiated(r)
    PROVE  Negotiating' /\ StreamsFollow'
<1> DEFINE p == bridge[key[r]]
<1>1. /\ channel[r] = "negotiating" /\ channel' = [channel EXCEPT ![r] = "ready"]
      /\ contract' = [contract EXCEPT ![r] = p]
      /\ pc' = WakeSetups(r, "negotiated") /\ runtime' = runtime /\ replacement' = replacement
    BY DEF Negotiated, Wake
<1>2. SesTypes /\ Used /\ Inhabited /\ ClosingEnds
    BY RunFacts DEF RunInv, UseInv
<1>3. p \in Profile /\ p # None
    BY <1>1, <1>2, NoneAssumption DEF Used, Made, SesTypes
<1> HIDE DEF p
<1>4. \A q \in Runtime : contract'[q] = IF q = r THEN p ELSE contract[q]
    BY <1>1, <1>2 DEF SesTypes
<1>5. \A q \in Runtime, x \in Entry :
          streams'[q][x] = IF q = r /\ x \in sessions[r] /\ contract[r] \notin {None, p}
                           THEN ContractChanged(streams[r][x]) ELSE streams[q][x]
    BY <1>2, NegotiatedSets DEF p
<1>6. \A q \in Runtime, x \in Entry : streams'[q][x].started => streams[q][x].started
    <2> SUFFICES ASSUME NEW q \in Runtime, NEW x \in Entry, ~streams[q][x].started
                 PROVE  ~streams'[q][x].started
        OBVIOUS
    <2>1. streams[q][x] \in Stream
        BY <1>2 DEF SesTypes
    <2>2. streams'[q][x] = streams[q][x]
        BY <1>5, <2>1, StreamForms
    <2> QED BY <2>2
<1>7. Negotiating'
    <2>1. \A x \in Entry : Target(x)' = Target(x)
        BY <1>1 DEF Target
    <2>2. \A x \in Entry : pc'[x] \in Informed => pc[x] \in Informed \/ Target(x) = r
        BY <1>1 DEF WakeSetups, Informed
    <2>3. \A x \in Entry : pc'[x] \in Informed => contract'[Target(x)] # None
        <3> SUFFICES ASSUME NEW x \in Entry, pc'[x] \in Informed PROVE contract'[Target(x)] # None
            OBVIOUS
        <3>1. CASE Target(x) = r
            BY <1>3, <1>4, <3>1
        <3>2. CASE pc[x] \in Informed /\ Target(x) # r
            <4>1. Target(x) \in Runtime
                BY <3>2, RunFacts, TargetHeld, HeldMade DEF Informed
            <4> QED BY <1>4, <3>2, <4>1 DEF Negotiating
        <3> QED BY <2>2, <3>1, <3>2
    <2>4. \A q \in Runtime : channel'[q] = "ready" => contract'[q] # None
        BY <1>1, <1>2, <1>3, <1>4 DEF SesTypes, Negotiating
    <2>5. \A q \in Runtime, x \in Entry : streams'[q][x].started => contract'[q] # None
        BY <1>3, <1>4, <1>6 DEF Negotiating
    <2> QED BY <2>1, <2>3, <2>4, <2>5 DEF Negotiating
<1>8. StreamsFollow'
    <2> SUFFICES ASSUME NEW q \in Runtime, NEW x \in Entry PROVE Follows(streams'[q][x], contract'[q])
        BY DEF StreamsFollow
    <2>1. CASE q # r
        BY <1>4, <1>5, <2>1 DEF StreamsFollow
    <2>2. CASE ~streams[q][x].started
        BY <1>6, <2>2 DEF Follows
    <2>3. CASE q = r /\ streams[r][x].started
        <3>1. contract[r] # None
            BY <2>3 DEF Negotiating
        <3>2. x \in sessions[r]
            BY <1>2, <2>3, OffIsQuiet DEF Inhabited, ClosingEnds
        <3>3. CASE contract[r] = p
            BY <1>4, <1>5, <2>3, <3>3 DEF StreamsFollow
        <3>4. CASE contract[r] # p
            <4>1. streams'[r][x] = ContractChanged(streams[r][x])
                BY <1>5, <3>1, <3>2, <3>4
            <4>2. streams'[r][x].restart # "no"
                BY <1>2, <2>3, <4>1, StreamForms DEF SesTypes
            <4> QED BY <2>3, <4>2 DEF Follows
        <3> QED BY <3>3, <3>4
    <2> QED BY <2>1, <2>2, <2>3
<1> QED BY <1>7, <1>8

\* The other steps.
LEMMA OtherProfile ==
    ASSUME RunInv, Negotiating, StreamsFollow,
           \/ UNCHANGED vars
           \/ \E e \in Entry : Poll(e) \/ PollEnsures(e) \/ PollAnswered(e) \/ PollFails(e)
           \/ \E r \in Runtime : NegotiationFails(r) \/ CloseSessions(r) \/ CloseChannel(r)
           \/ \E r \in Runtime, e \in Entry : Reconnects(r, e)
           \/ \E k \in Key : Upgrade(k)
    PROVE  Negotiating' /\ StreamsFollow'
<1>1. contract' = contract /\ runtime' = runtime /\ replacement' = replacement
    BY DEF vars, Poll, PollEnsures, PollAnswered, PollFails, NegotiationFails, CloseSessions,
       CloseChannel, Reconnects, Upgrade, entries
<1>2. SesTypes
    BY RunFacts
<1>3. \A r \in Runtime : channel'[r] = "ready" => channel[r] = "ready"
    <2>1. \/ channel' = channel
          \/ \E r : channel' = [channel EXCEPT ![r] = "negotiating"]
          \/ \E r : channel' = [channel EXCEPT ![r] = "none"]
        BY DEF vars, Poll, PollEnsures, PollAnswered, PollFails, NegotiationFails, CloseSessions,
           CloseChannel, Reconnects, Upgrade, Open, Invalidate
    <2> QED BY <1>2, <2>1 DEF SesTypes
<1>4. \A e \in Entry : Uninformed(e)
    <2>1. CASE pc' = pc
        BY <1>1, <2>1 DEF Uninformed
    <2>2. CASE \E r : pc' = WakeSetups(r, "rejected") \/ pc' = WakeSetups(r, "negotiate")
        BY <1>1, <2>2, WokenUninformed DEF Before, Informed
    <2>3. pc' = pc \/ \E r : pc' = WakeSetups(r, "rejected") \/ pc' = WakeSetups(r, "negotiate")
        BY DEF vars, Poll, PollEnsures, PollAnswered, PollFails, NegotiationFails, CloseSessions,
           CloseChannel, Reconnects, Upgrade, Invalidate, Wake, entries
    <2> QED BY <2>1, <2>2, <2>3
<1>5. \A r \in Runtime, e \in Entry : streams'[r][e] = streams[r][e] \/ ~streams'[r][e].started
    <2>1. CASE streams' = streams
        BY <2>1
    <2>2. CASE \E r \in Runtime : CloseSessions(r)
        <3>1. \A s \in Stream : ~Stopping(s).started
            BY StreamForms
        <3> QED BY <1>2, <2>2, <3>1, CloseSets DEF SesTypes
    <2>3. streams' = streams \/ \E r \in Runtime : CloseSessions(r)
        BY DEF vars, Poll, PollEnsures, PollAnswered, PollFails, NegotiationFails,
           CloseChannel, Reconnects, Upgrade
    <2> QED BY <2>1, <2>2, <2>3
<1> QED BY <1>1, <1>3, <1>4, <1>5, ProfileKeeps

LEMMA ProfileStep ==
    ASSUME RunInv, Negotiating, StreamsFollow, [Next]_vars PROVE Negotiating' /\ StreamsFollow'
<1>1. ASSUME NEW e \in Entry,
             \/ Setup(e) \/ Reload(e) \/ Left(e) \/ Release(e) \/ Finish(e) \/ GiveUp(e)
             \/ InitialSnapshot(e) \/ CreateDeviceSession(e) \/ Commit(e)
             \/ Fail(e) \/ FirstPollFails(e) \/ Leave(e) \/ Unload(e)
      PROVE  Negotiating' /\ StreamsFollow'
    BY <1>1, EntryProfile
<1>2. ASSUME NEW e \in Entry, EnsureContract(e) \/ Synchronize(e) PROVE Negotiating' /\ StreamsFollow'
    BY <1>2, EnsuredProfile, StartedProfile
<1>3. ASSUME NEW r \in Runtime, NEW e \in Entry,
             StreamsStopped(r, e) \/ FallsBack(r, e) \/ StopForRestart(r, e) \/ Restart(r, e)
      PROVE  Negotiating' /\ StreamsFollow'
    BY <1>3, StreamProfile
<1>4. ASSUME NEW r \in Runtime, Negotiated(r) PROVE Negotiating' /\ StreamsFollow'
    BY <1>4, NegotiatedProfile
<1>5. ASSUME \/ UNCHANGED vars
             \/ \E e \in Entry : Poll(e) \/ PollEnsures(e) \/ PollAnswered(e) \/ PollFails(e)
             \/ \E r \in Runtime : NegotiationFails(r) \/ CloseSessions(r) \/ CloseChannel(r)
             \/ \E r \in Runtime, e \in Entry : Reconnects(r, e)
             \/ \E k \in Key : Upgrade(k)
      PROVE  Negotiating' /\ StreamsFollow'
    BY <1>5, OtherProfile
<1> QED BY <1>1, <1>2, <1>3, <1>4, <1>5, EntryAssumption DEF Next, EntryStep

\* The streams of a session are those of the contract in force on its runtime, whenever
\* that changed, for any number of entries, bridges and runtimes.
THEOREM RuntimeProfileFollows == Spec => []ProfileFollows
<1>1. Init => Negotiating /\ StreamsFollow
    BY OffIsQuiet DEF Init, Negotiating, StreamsFollow, Follows, Informed
<1>2. RunInv /\ (Negotiating /\ StreamsFollow) /\ [Next]_vars => Negotiating' /\ StreamsFollow'
    BY ProfileStep
<1>3. StreamsFollow => ProfileFollows
    BY DEF StreamsFollow, Follows, ProfileFollows
<1> QED BY <1>1, <1>2, <1>3, RunInvariant, PTL DEF Spec
=============================================================================
