--------------------------- MODULE LifecycleProofs ---------------------------
(***************************************************************************)
(* The safety of Lifecycle, for any number of goroutines in Start and Stop *)
(* and of clients, and for every set of optional use cases: the gate       *)
(* admits calls only while the bridge is whole (ServesWhole); a component  *)
(* runs only on those it was started on (StackOutlives); and who returns   *)
(* leaves nothing running (ReturnedClean).                                 *)
(*                                                                         *)
(* The first invariant follows the one startup there can be.  It holds     *)
(* startupMu from its first component to its end, so that no rollback      *)
(* takes a stage away meanwhile; the ledger and the registered use cases   *)
(* grow with its progress; and a Stop that began before is seen by the     *)
(* commit.  The second one counts the stages: they are the first of the    *)
(* order, in the ledger during the startup and on the list of the rollback *)
(* after it, and all that runs is one of them, or in the hands of the      *)
(* startup, or did not stop.                                               *)
(***************************************************************************)
EXTENDS Lifecycle, SequenceTheorems, TLAPS

\* The steps of a startup that has not failed, and those within startupMu.
Early == {"startup", "setup", "announce"}
Wiring == {"wire", "register"}
Wired == {"bridge", "module", "ready", "watch", "commit"}
Building == Early \cup {"prepare"} \cup Wiring \cup Wired
Holding == (Building \ {"startup"}) \cup {"abandon", "fail", "committed", "undo", "drain"}

AllRegistrations == UNION {Registrations(m) : m \in ToSet(Modules)}
Remaining(s) == UNION {Registrations(m) : m \in ToSet(todo[s])}

Step == Holding \cup {"idle", "refused", "startup", "stop", "close", "cancel", "wait", "serve", "returned"}
Name == {"Device", "LPC", "Monitoring", "DHW", "HVAC", "OHPCF", "Providers", "EEBUS", "gRPC", "watchdog"}

Typed ==
    /\ pc \in [Thread -> Step]
    /\ todo \in [Thread -> Seq(Name)]
    /\ ledger \in [stages : Seq(Name), closed : BOOLEAN]
    /\ started \in BOOLEAN /\ stopped \in BOOLEAN /\ serving \in BOOLEAN
    /\ \A t \in Thread : pc[t] = "drain" => todo[t] # <<>>

Locked == \A t \in Thread : pc[t] \in Holding => startupMu = t

OneStartup ==
    /\ \A s \in Starter : pc[s] \in Building => started
    /\ \A s, r \in Starter : pc[s] \in Building /\ pc[r] \in Building => s = r

\* A rollback comes after the gate was closed.
ClosedAfterGate ==
    /\ \A t \in Thread : pc[t] \in {"cancel", "wait", "undo", "drain"} => stopped
    /\ ledger.closed => stopped

\* The ledger of a startup at each of its steps.
LedgerGrows ==
    /\ ~started => ledger.stages = <<>> /\ useCases = {}
    /\ \A s \in Starter :
        /\ pc[s] \in Early => ledger.closed \/ ledger.stages = <<>>
        /\ pc[s] \in Building \ Early => ~ledger.closed
        /\ pc[s] \in {"prepare", "bridge"} \cup Wiring => ledger.stages = <<"EEBUS">>
        /\ pc[s] = "module" => ledger.stages \o todo[s] = <<"EEBUS">> \o Starting
        /\ pc[s] = "ready" => ledger.stages = <<"EEBUS">> \o Starting
        /\ pc[s] = "watch" => Append(ledger.stages, "watchdog") = Order
        /\ pc[s] = "commit" => ledger.stages = Order

\* The use cases that are registered and those still to be are all that there are.
Registers ==
    \A s \in Starter :
        /\ pc[s] \in Early \cup {"prepare"} => useCases = {}
        /\ pc[s] \in Wiring => useCases \cup Remaining(s) = AllRegistrations
        /\ pc[s] = "register" => todo[s] # <<>>
        /\ pc[s] \in Wired => useCases = AllRegistrations

GateOpen ==
    serving =>
        /\ ~stopped /\ ~ledger.closed
        /\ ledger.stages = Order /\ useCases = AllRegistrations
        /\ \A s \in Starter : pc[s] \notin Building

LifecycleInv == Typed /\ Locked /\ OneStartup /\ ClosedAfterGate /\ LedgerGrows /\ Registers /\ GateOpen

\* What the invariant speaks of.
view == <<pc, todo, ledger, started, stopped, startupMu, serving, composed, useCases>>

\* All registrations are the use cases of the modules without the optional ones that do
\* not exist: the form in which ServesWhole states it.
LEMMA AllRegistrationsIs ==
    AllRegistrations = (UNION {UseCasesOf[m] : m \in ToSet(Modules)}) \ (Optional \ composed)
BY DEF AllRegistrations, Registrations

LEMMA LifecycleInitial == Init => LifecycleInv
<1> SUFFICES ASSUME Init PROVE LifecycleInv
    OBVIOUS
<1> USE DEF Init
<1>1. Typed
  <2>1. pc \in [Thread -> Step]
      BY DEF Step
  <2>2. <<>> \in Seq(Name)
      OBVIOUS
  <2>3. todo \in [Thread -> Seq(Name)] /\ ledger \in [stages : Seq(Name), closed : BOOLEAN]
      BY <2>2
  <2>4. QED
      BY <2>1, <2>3 DEF Typed
<1>2. \A t \in Thread : pc[t] = "idle"
    OBVIOUS
<1>3. Locked /\ OneStartup /\ ClosedAfterGate
    BY <1>2 DEF Locked, OneStartup, ClosedAfterGate, Holding, Building, Early, Wiring, Wired, Thread
<1>4. LedgerGrows /\ Registers /\ GateOpen
    BY <1>2 DEF LedgerGrows, Registers, GateOpen, Building, Early, Wiring, Wired, Thread
<1>5. QED
    BY <1>1, <1>3, <1>4 DEF LifecycleInv

\* The tables are sequences of names.
LEMMA Tables ==
    /\ Modules \in Seq(Name) /\ Modules # <<>>
    /\ Starting \in Seq(Name) /\ <<"EEBUS">> \in Seq(Name)
    /\ <<>> \in Seq(Name)
    /\ Append(<<>>, "EEBUS") = <<"EEBUS">>
    /\ Append(Append(<<"EEBUS">> \o Starting, "gRPC"), "watchdog") = Order
BY DEF Modules, Starting, Order, Name

\* A sequence is taken from its front: what is left of a list of modules, and the ledger
\* to which the front was added.
LEMMA TakeFront ==
    ASSUME NEW S, NEW q \in Seq(S), q # <<>>
    PROVE  /\ Head(q) \in S /\ Tail(q) \in Seq(S)
           /\ ToSet(q) = {Head(q)} \cup ToSet(Tail(q))
           /\ \A p \in Seq(S) : Append(p, Head(q)) \o Tail(q) = p \o q
<1>1. Head(q) \in S /\ Tail(q) \in Seq(S) /\ Len(q) \in Nat \ {0} /\ Len(Tail(q)) = Len(q) - 1
    BY HeadTailProperties, LenProperties, EmptySeq
<1>2. q = <<Head(q)>> \o Tail(q)
    BY <1>1
<1>3. ToSet(q) = {Head(q)} \cup ToSet(Tail(q))
  <2>1. \A i \in 1..Len(q) : i = 1 \/ (i - 1) \in 1..Len(Tail(q))
      BY <1>1
  <2>2. q[1] = Head(q) /\ \A i \in 1..Len(Tail(q)) : Tail(q)[i] = q[i + 1] /\ i + 1 \in 1..Len(q)
      BY <1>1
  <2>3. DOMAIN q = 1..Len(q) /\ DOMAIN Tail(q) = 1..Len(Tail(q))
      BY <1>1, LenProperties
  <2>4. ToSet(q) \subseteq {Head(q)} \cup ToSet(Tail(q))
    <3> SUFFICES ASSUME NEW i \in 1..Len(q) PROVE q[i] \in {Head(q)} \cup ToSet(Tail(q))
        BY <2>3 DEF ToSet
    <3>1. CASE i = 1
        BY <3>1, <2>2
    <3>2. CASE (i - 1) \in 1..Len(Tail(q))
      <4>1. Tail(q)[i - 1] = q[i]
          BY <3>2, <2>2
      <4>2. QED
          BY <3>2, <4>1, <2>3 DEF ToSet
    <3>3. QED
        BY <3>1, <3>2, <2>1
  <2>5. {Head(q)} \cup ToSet(Tail(q)) \subseteq ToSet(q)
      BY <1>1, <2>2, <2>3 DEF ToSet
  <2>6. QED
      BY <2>4, <2>5
<1>4. \A p \in Seq(S) : Append(p, Head(q)) \o Tail(q) = p \o q
  <2> TAKE p \in Seq(S)
  <2>1. Append(p, Head(q)) = p \o <<Head(q)>> /\ <<Head(q)>> \in Seq(S)
      BY <1>1, AppendIsConcat
  <2>2. QED
      BY <1>1, <1>2, <2>1, ConcatAssociative
<1>5. QED
    BY <1>1, <1>3, <1>4

\* A step that leaves the view alone preserves the invariant.
LEMMA ViewUnchanged ==
    ASSUME LifecycleInv, UNCHANGED view
    PROVE  LifecycleInv'
<1> USE DEF view
<1>1. AllRegistrations' = AllRegistrations /\ \A s : Remaining(s)' = Remaining(s)
    BY DEF AllRegistrations, Remaining, Registrations
<1>2. Typed' /\ Locked' /\ OneStartup' /\ ClosedAfterGate' /\ LedgerGrows'
    BY DEF LifecycleInv, Typed, Locked, OneStartup, ClosedAfterGate, LedgerGrows
<1>3. Registers' /\ GateOpen'
    BY <1>1 DEF LifecycleInv, Registers, GateOpen
<1>4. QED
    BY <1>2, <1>3 DEF LifecycleInv

-----------------------------------------------------------------------------
(* Start.                                                                  *)

\* A stage is recorded in an open ledger; a closed one ends the startup.
LEMMA AddStage ==
    ASSUME Typed, NEW s \in Thread, NEW stage \in Name, NEW next \in Step, Add(s, stage, next)
    PROVE  /\ ledger' \in [stages : Seq(Name), closed : BOOLEAN] /\ pc' \in [Thread -> Step]
           /\ ledger'.closed = ledger.closed
           /\ \A r \in Thread \ {s} : pc'[r] = pc[r]
           /\ IF ledger.closed THEN pc'[s] = "fail" /\ ledger' = ledger
                               ELSE pc'[s] = next /\ ledger'.stages = Append(ledger.stages, stage)
<1> USE DEF Typed
<1>1. CASE ledger.closed
    BY <1>1 DEF Add, Goto, Step, Holding
<1>2. CASE ~ledger.closed
  <2>1. Append(ledger.stages, stage) \in Seq(Name)
      BY AppendProperties
  <2>2. ledger' = [stages |-> Append(ledger.stages, stage), closed |-> FALSE] /\ pc' = [pc EXCEPT ![s] = next]
      BY <1>2 DEF Add, Goto
  <2>3. QED
      BY <1>2, <2>1, <2>2
<1>3. QED
    BY <1>1, <1>2

LEMMA StartPreserves ==
    ASSUME LifecycleInv, NEW s \in Starter, Start(s)
    PROVE  LifecycleInv'
<1> USE DEF Start, Goto, application, modules, LifecycleInv, Thread
<1>1. Typed'
    BY DEF Typed, Step
<1>2. AllRegistrations' = AllRegistrations /\ \A r : Remaining(r)' = Remaining(r)
    BY DEF AllRegistrations, Remaining, Registrations
<1>3. Locked' /\ OneStartup' /\ ClosedAfterGate'
    BY DEF Typed, Locked, OneStartup, ClosedAfterGate, Holding, Building, Early, Wiring, Wired
<1>4. LedgerGrows' /\ Registers' /\ GateOpen'
    BY <1>2 DEF Typed, OneStartup, ClosedAfterGate, LedgerGrows, Registers, GateOpen, Building, Early, Wiring, Wired
<1>5. QED
    BY <1>1, <1>3, <1>4

LEMMA StartComponentsPreserves ==
    ASSUME LifecycleInv, NEW s \in Starter, StartComponents(s)
    PROVE  LifecycleInv'
<1> USE DEF StartComponents, Goto, Add, application, modules, LifecycleInv, Thread
<1>1. Typed'
    BY Tables DEF Typed, Step, Name, Holding, Building, Early, Wiring, Wired
<1>2. AllRegistrations' = AllRegistrations
    BY DEF AllRegistrations, Registrations
<1>3. Locked' /\ OneStartup' /\ ClosedAfterGate'
    BY ThreadAssumption DEF Typed, Locked, OneStartup, ClosedAfterGate, Holding, Building, Early, Wiring, Wired
<1>4. LedgerGrows'
    BY Tables DEF Typed, OneStartup, ClosedAfterGate, LedgerGrows, Building, Early, Wiring, Wired
<1>5. Registers'
    BY <1>2, Tables DEF Typed, OneStartup, LedgerGrows, Registers, Remaining, Registrations, Building, Early, Wiring, Wired
<1>6. GateOpen'
    BY <1>2 DEF Typed, LedgerGrows, Registers, GateOpen, Building, Early, Wiring, Wired
<1>7. QED
    BY <1>1, <1>3, <1>4, <1>5, <1>6

LEMMA SetUpPreserves ==
    ASSUME LifecycleInv, NEW s \in Starter, SetUp(s)
    PROVE  LifecycleInv'
<1> USE DEF SetUp, Goto, Add, application, modules, LifecycleInv, Thread
<1>1. Typed'
    BY Tables DEF Typed, Step, Name, Holding, Building, Early, Wiring, Wired
<1>2. AllRegistrations' = AllRegistrations
    BY DEF AllRegistrations, Registrations
<1>3. Locked' /\ OneStartup' /\ ClosedAfterGate'
    BY ZenonT(40) DEF Typed, Locked, OneStartup, ClosedAfterGate, Holding, Building, Early, Wiring, Wired
<1>4. LedgerGrows'
    BY Tables DEF Typed, OneStartup, ClosedAfterGate, LedgerGrows, Building, Early, Wiring, Wired
<1>5. Registers'
    BY <1>2, Tables DEF Typed, OneStartup, LedgerGrows, Registers, Remaining, Registrations, Building, Early, Wiring, Wired
<1>6. GateOpen'
    BY <1>2 DEF Typed, LedgerGrows, Registers, GateOpen, Building, Early, Wiring, Wired
<1>7. QED
    BY <1>1, <1>3, <1>4, <1>5, <1>6

LEMMA AnnounceLocalIdentityPreserves ==
    ASSUME LifecycleInv, NEW s \in Starter, AnnounceLocalIdentity(s)
    PROVE  LifecycleInv'
<1> USE DEF AnnounceLocalIdentity, application, modules, LifecycleInv, Thread
<1>1. AllRegistrations' = AllRegistrations /\ useCases = {}
    BY DEF AllRegistrations, Registrations, Registers, Early
<1>2. pc[s] = "announce" /\ (ledger.closed \/ ledger.stages = <<>>)
    BY DEF LedgerGrows, Early
<1>3. /\ ledger' \in [stages : Seq(Name), closed : BOOLEAN] /\ pc' \in [Thread -> Step]
      /\ \A r \in Thread \ {s} : pc'[r] = pc[r]
      /\ \/ pc'[s] = "fail" /\ ledger' = ledger
         \/ pc'[s] = "prepare" /\ ledger'.stages = <<"EEBUS">> /\ ~ledger'.closed /\ ~ledger.closed
  <2>1. CASE Goto(s, "fail") /\ UNCHANGED ledger
      BY <2>1 DEF Goto, Typed, Step, Holding
  <2>2. CASE Add(s, "EEBUS", "prepare")
      BY <1>2, <2>2, AddStage, Tables, s \in Thread, "EEBUS" \in Name, "prepare" \in Step DEF Step, Name, Holding, Building
  <2>3. QED
      BY <2>1, <2>2
<1>4. Typed' /\ Locked' /\ OneStartup' /\ ClosedAfterGate'
    BY <1>2, <1>3 DEF Typed, Locked, OneStartup, ClosedAfterGate, Holding, Building, Early, Wiring, Wired
<1>5. LedgerGrows' /\ Registers' /\ GateOpen'
    BY <1>1, <1>2, <1>3 DEF OneStartup, LedgerGrows, Registers, GateOpen, Building, Early, Wiring, Wired
<1>6. QED
    BY <1>4, <1>5

LEMMA ComposePreserves ==
    ASSUME LifecycleInv, NEW s \in Starter, Compose(s)
    PROVE  LifecycleInv'
<1> USE DEF Compose, Goto, application, modules, LifecycleInv, Thread
<1>1. CASE Goto(s, "fail") /\ UNCHANGED <<composed, todo>>
  <2>1. pc' = [pc EXCEPT ![s] = "fail"] /\ pc' \in [Thread -> Step]
      BY <1>1 DEF Typed, Step, Holding
  <2>2. AllRegistrations' = AllRegistrations
      BY <1>1 DEF AllRegistrations, Registrations
  <2>3. Typed' /\ Locked' /\ OneStartup' /\ ClosedAfterGate'
      BY <1>1, <2>1 DEF Typed, Locked, OneStartup, ClosedAfterGate, Holding, Building, Early, Wiring, Wired
  <2>4. LedgerGrows' /\ Registers' /\ GateOpen'
      BY <1>1, <2>1, <2>2 DEF Typed, OneStartup, LedgerGrows, Registers, GateOpen, Building, Early, Wiring, Wired
  <2>5. QED
      BY <2>3, <2>4
<1>2. CASE todo' = [todo EXCEPT ![s] = Modules] /\ Goto(s, "wire")
  <2>1. /\ pc' = [pc EXCEPT ![s] = "wire"] /\ pc' \in [Thread -> Step]
        /\ todo' \in [Thread -> Seq(Name)] /\ todo'[s] = Modules
      BY <1>2, Tables DEF Typed, Step, Holding, Building, Wiring
  <2>2. Typed' /\ Locked' /\ OneStartup' /\ ClosedAfterGate'
      BY <2>1 DEF Typed, Locked, OneStartup, ClosedAfterGate, Holding, Building, Early, Wiring, Wired
  <2>3. Remaining(s)' = AllRegistrations'
      BY <2>1 DEF Remaining, AllRegistrations
  <2>4. LedgerGrows' /\ Registers' /\ GateOpen'
      BY <2>1, <2>3 DEF Typed, OneStartup, LedgerGrows, Registers, GateOpen, Building, Early, Wiring, Wired
  <2>5. QED
      BY <2>2, <2>4
<1>3. QED
    BY <1>1, <1>2

LEMMA SetUpModulePreserves ==
    ASSUME LifecycleInv, NEW s \in Starter, SetUpModule(s)
    PROVE  LifecycleInv'
<1> USE DEF SetUpModule, Goto, Add, application, modules, LifecycleInv, Thread
<1>1. Typed'
    BY Tables DEF Typed, Step, Name, Holding, Building, Early, Wiring, Wired
<1>2. AllRegistrations' = AllRegistrations
    BY DEF AllRegistrations, Registrations
<1>3. Locked' /\ OneStartup' /\ ClosedAfterGate'
    BY SMTT(40) DEF Typed, Locked, OneStartup, ClosedAfterGate, Holding, Building, Early, Wiring, Wired
<1>4. LedgerGrows'
    BY Tables DEF Typed, OneStartup, ClosedAfterGate, LedgerGrows, Building, Early, Wiring, Wired
<1>5. Registers'
    BY <1>2, Tables DEF Typed, OneStartup, LedgerGrows, Registers, Remaining, Registrations, Building, Early, Wiring, Wired
<1>6. GateOpen'
    BY <1>2 DEF Typed, LedgerGrows, Registers, GateOpen, Building, Early, Wiring, Wired
<1>7. QED
    BY <1>1, <1>3, <1>4, <1>5, <1>6

LEMMA RegisterUseCasesPreserves ==
    ASSUME LifecycleInv, NEW s \in Starter, RegisterUseCases(s)
    PROVE  LifecycleInv'
<1> USE DEF RegisterUseCases, Goto, application, modules, LifecycleInv, Thread
<1>1. /\ AllRegistrations' = AllRegistrations /\ pc[s] = "register" /\ todo[s] # <<>> /\ todo[s] \in Seq(Name)
      /\ useCases \cup Remaining(s) = AllRegistrations
    BY DEF AllRegistrations, Registrations, Registers, Typed, Wiring
<1>2. Tail(todo[s]) \in Seq(Name) /\ ToSet(todo[s]) = {Head(todo[s])} \cup ToSet(Tail(todo[s]))
    BY <1>1, TakeFront
<1>3. CASE Goto(s, "fail") /\ UNCHANGED todo
  <2>1. pc' = [pc EXCEPT ![s] = "fail"] /\ pc' \in [Thread -> Step]
      BY <1>3 DEF Typed, Step, Holding
  <2>2. Typed' /\ Locked' /\ OneStartup' /\ ClosedAfterGate'
      BY <1>1, <1>3, <2>1 DEF Typed, Locked, OneStartup, ClosedAfterGate, Holding, Building, Early, Wiring, Wired
  <2>3. LedgerGrows' /\ Registers' /\ GateOpen'
      BY <1>1, <1>3, <2>1 DEF Typed, OneStartup, LedgerGrows, Registers, GateOpen, Building, Early, Wiring, Wired
  <2>4. QED
      BY <2>2, <2>3
<1>4. CASE /\ useCases' = useCases \cup Registrations(Head(todo[s]))
           /\ Goto(s, "wire") /\ todo' = [todo EXCEPT ![s] = Tail(@)]
  <2>1. /\ pc' = [pc EXCEPT ![s] = "wire"] /\ pc' \in [Thread -> Step]
        /\ todo' \in [Thread -> Seq(Name)] /\ todo'[s] = Tail(todo[s])
      BY <1>2, <1>4 DEF Typed, Step, Holding, Building, Wiring
  <2>2. Typed' /\ Locked' /\ OneStartup' /\ ClosedAfterGate'
      BY <1>1, <2>1 DEF Typed, Locked, OneStartup, ClosedAfterGate, Holding, Building, Early, Wiring, Wired
  <2>3. useCases' \cup Remaining(s)' = AllRegistrations'
    <3>1. Remaining(s) = Registrations(Head(todo[s])) \cup Remaining(s)'
        BY <1>2, <2>1 DEF Remaining, Registrations
    <3>2. QED
        BY <1>1, <1>4, <3>1
  <2>4. LedgerGrows' /\ Registers' /\ GateOpen'
      BY <1>1, <2>1, <2>3 DEF Typed, OneStartup, LedgerGrows, Registers, GateOpen, Building, Early, Wiring, Wired
  <2>5. QED
      BY <2>2, <2>4
<1>5. QED
    BY <1>3, <1>4

LEMMA PrepareForStartPreserves ==
    ASSUME LifecycleInv, NEW s \in Starter, PrepareForStart(s)
    PROVE  LifecycleInv'
<1> USE DEF PrepareForStart, Goto, Add, application, modules, LifecycleInv, Thread
<1>1. Typed'
    BY Tables DEF Typed, Step, Name, Holding, Building, Early, Wiring, Wired
<1>2. AllRegistrations' = AllRegistrations
    BY DEF AllRegistrations, Registrations
<1>3. Locked' /\ OneStartup' /\ ClosedAfterGate'
    BY DEF Typed, Locked, OneStartup, ClosedAfterGate, Holding, Building, Early, Wiring, Wired
<1>4. LedgerGrows'
    BY Tables DEF Typed, OneStartup, ClosedAfterGate, LedgerGrows, Building, Early, Wiring, Wired
<1>5. Registers'
  <2>1. Remaining(s) = {}
      BY DEF PrepareForStart, Remaining, ToSet
  <2>2. useCases = AllRegistrations
      BY <2>1 DEF PrepareForStart, Registers, Wiring
  <2>3. QED
      BY <1>2, <2>2 DEF Typed, OneStartup, Registers, Building, Early, Wiring, Wired
<1>6. GateOpen'
    BY <1>2 DEF Typed, LedgerGrows, Registers, GateOpen, Building, Early, Wiring, Wired
<1>7. QED
    BY <1>1, <1>3, <1>4, <1>5, <1>6

LEMMA StartBridgePreserves ==
    ASSUME LifecycleInv, NEW s \in Starter, StartBridge(s)
    PROVE  LifecycleInv'
<1> USE DEF StartBridge, Goto, application, modules, LifecycleInv, Thread
<1>1. pc[s] = "bridge" /\ AllRegistrations' = AllRegistrations
    BY DEF AllRegistrations, Registrations
<1>2. /\ pc' \in [Thread -> Step] /\ todo' \in [Thread -> Seq(Name)]
      /\ \/ pc' = [pc EXCEPT ![s] = "fail"] /\ todo' = todo
         \/ pc' = [pc EXCEPT ![s] = "module"] /\ todo'[s] = Starting
  <2>1. CASE Goto(s, "fail") /\ UNCHANGED todo
      BY <2>1 DEF Typed, Step, Holding
  <2>2. CASE Goto(s, "module") /\ todo' = [todo EXCEPT ![s] = Starting]
      BY <2>2, Tables DEF Typed, Step, Holding, Building, Wired
  <2>3. QED
      BY <2>1, <2>2
<1>3. Typed' /\ Locked' /\ OneStartup' /\ ClosedAfterGate'
    BY ZenonT(40), <1>1, <1>2 DEF Typed, Locked, OneStartup, ClosedAfterGate, Holding, Building, Early, Wiring, Wired
<1>4. LedgerGrows' /\ Registers' /\ GateOpen'
    BY ZenonT(40), <1>1, <1>2 DEF Typed, OneStartup, LedgerGrows, Registers, GateOpen, Building, Early, Wiring, Wired
<1>5. QED
    BY <1>3, <1>4

LEMMA StartModulePreserves ==
    ASSUME LifecycleInv, NEW s \in Starter, StartModule(s)
    PROVE  LifecycleInv'
<1> USE DEF StartModule, application, modules, LifecycleInv, Thread
<1>1. /\ AllRegistrations' = AllRegistrations /\ pc[s] = "module" /\ todo[s] # <<>> /\ todo[s] \in Seq(Name)
      /\ ~ledger.closed /\ ledger.stages \in Seq(Name) /\ ledger.stages \o todo[s] = <<"EEBUS">> \o Starting
    BY DEF AllRegistrations, Registrations, Typed, LedgerGrows, Building, Early, Wired
<1>2. /\ Head(todo[s]) \in Name /\ Tail(todo[s]) \in Seq(Name)
      /\ Append(ledger.stages, Head(todo[s])) \o Tail(todo[s]) = <<"EEBUS">> \o Starting
    BY <1>1, TakeFront
<1>3. CASE Goto(s, "fail") /\ UNCHANGED <<up, ledger, heartbeat, todo>>
  <2>1. pc' = [pc EXCEPT ![s] = "fail"] /\ pc' \in [Thread -> Step]
      BY <1>3 DEF Goto, Typed, Step, Holding
  <2>2. Typed' /\ Locked' /\ OneStartup' /\ ClosedAfterGate'
      BY <1>1, <1>3, <2>1 DEF Typed, Locked, OneStartup, ClosedAfterGate, Holding, Building, Early, Wiring, Wired
  <2>3. LedgerGrows' /\ Registers' /\ GateOpen'
      BY <1>1, <1>3, <2>1 DEF Typed, OneStartup, LedgerGrows, Registers, GateOpen, Building, Early, Wiring, Wired
  <2>4. QED
      BY <2>2, <2>3
<1>4. CASE Add(s, Head(todo[s]), "module") /\ todo' = [todo EXCEPT ![s] = Tail(@)]
  <2>1. /\ ledger' \in [stages : Seq(Name), closed : BOOLEAN] /\ pc' \in [Thread -> Step]
        /\ pc'[s] = "module" /\ \A r \in Thread \ {s} : pc'[r] = pc[r]
        /\ ledger'.stages = Append(ledger.stages, Head(todo[s])) /\ ~ledger'.closed
      BY <1>1, <1>2, <1>4, AddStage, s \in Thread, "module" \in Step DEF Step, Holding, Building, Wired
  <2>2. todo' \in [Thread -> Seq(Name)] /\ todo'[s] = Tail(todo[s]) /\ \A r \in Thread \ {s} : todo'[r] = todo[r]
      BY <1>2, <1>4 DEF Typed
  <2>3. ledger'.stages \o todo'[s] = <<"EEBUS">> \o Starting
      BY <1>2, <2>1, <2>2
  <2>4. Typed' /\ Locked' /\ OneStartup' /\ ClosedAfterGate'
      BY ZenonT(40), <1>1, <2>1, <2>2 DEF Typed, Locked, OneStartup, ClosedAfterGate, Holding, Building, Early, Wiring, Wired
  <2>5. LedgerGrows'
    <3>1. started /\ \A r \in Starter \ {s} : pc'[r] \notin Building
        BY <1>1, <2>1 DEF OneStartup, Building, Wired
    <3>2. \A r \in Starter : pc'[r] = "module" => ledger'.stages \o todo'[r] = <<"EEBUS">> \o Starting
        BY <2>3, <3>1 DEF Building, Wired
    <3>3. QED
        BY <2>1, <3>1, <3>2 DEF LedgerGrows, Building, Early, Wiring, Wired
  <2>6. Registers' /\ GateOpen'
      BY <1>1, <2>1, <2>2 DEF OneStartup, Registers, GateOpen, Building, Early, Wiring, Wired
  <2>7. QED
      BY <2>4, <2>5, <2>6
<1>5. QED
    BY <1>3, <1>4

LEMMA LaunchPreserves ==
    ASSUME LifecycleInv, NEW s \in Starter, Launch(s)
    PROVE  LifecycleInv'
<1> USE DEF Launch, Goto, Add, application, modules, LifecycleInv, Thread
<1>1. Typed'
    BY Tables DEF Typed, Step, Name, Holding, Building, Early, Wiring, Wired
<1>2. AllRegistrations' = AllRegistrations
    BY DEF AllRegistrations, Registrations
<1>3. Locked' /\ OneStartup' /\ ClosedAfterGate'
    BY DEF Typed, Locked, OneStartup, ClosedAfterGate, Holding, Building, Early, Wiring, Wired
<1>4. LedgerGrows'
    BY SMTT(40), Tables DEF Typed, OneStartup, ClosedAfterGate, LedgerGrows, Building, Early, Wiring, Wired
<1>5. Registers'
    BY <1>2, Tables DEF Typed, OneStartup, LedgerGrows, Registers, Remaining, Registrations, Building, Early, Wiring, Wired
<1>6. GateOpen'
    BY <1>2 DEF Typed, LedgerGrows, Registers, GateOpen, Building, Early, Wiring, Wired
<1>7. QED
    BY <1>1, <1>3, <1>4, <1>5, <1>6

LEMMA WaitReadyPreserves ==
    ASSUME LifecycleInv, NEW s \in Starter, WaitReady(s)
    PROVE  LifecycleInv'
<1> USE DEF WaitReady, application, modules, grpc, LifecycleInv, Thread
<1>1. /\ AllRegistrations' = AllRegistrations /\ pc[s] = "ready" /\ ~ledger.closed
      /\ Append(Append(ledger.stages, "gRPC"), "watchdog") = Order
    BY ZenonT(40), Tables DEF AllRegistrations, Registrations, LedgerGrows, Building, Early, Wired
<1>2. /\ ledger' \in [stages : Seq(Name), closed : BOOLEAN] /\ pc' \in [Thread -> Step]
      /\ \A r \in Thread \ {s} : pc'[r] = pc[r]
      /\ \/ pc'[s] = "abandon" /\ ledger' = ledger
         \/ pc'[s] = "watch" /\ Append(ledger'.stages, "watchdog") = Order /\ ~ledger'.closed
  <2>1. CASE Goto(s, "abandon") /\ UNCHANGED <<up, ledger, server, ready, streams>>
      BY <2>1 DEF Goto, Typed, Step, Holding
  <2>2. CASE Add(s, "gRPC", "watch")
      BY <1>1, <2>2, AddStage, s \in Thread, "gRPC" \in Name, "watch" \in Step DEF Step, Name, Holding, Building, Wired
  <2>3. QED
      BY <2>1, <2>2
<1>3. Typed' /\ Locked' /\ OneStartup' /\ ClosedAfterGate'
    BY <1>1, <1>2 DEF Typed, Locked, OneStartup, ClosedAfterGate, Holding, Building, Early, Wiring, Wired
<1>4. LedgerGrows' /\ Registers' /\ GateOpen'
    BY ZenonT(40), <1>1, <1>2 DEF OneStartup, LedgerGrows, Registers, GateOpen, Building, Early, Wiring, Wired
<1>5. QED
    BY <1>3, <1>4

LEMMA AbandonPreserves ==
    ASSUME LifecycleInv, NEW s \in Starter, Abandon(s)
    PROVE  LifecycleInv'
<1> USE DEF Abandon, Goto, Add, application, modules, LifecycleInv, Thread
<1>1. Typed'
    BY Tables DEF Typed, Step, Name, Holding, Building, Early, Wiring, Wired
<1>2. AllRegistrations' = AllRegistrations
    BY DEF AllRegistrations, Registrations
<1>3. Locked' /\ OneStartup' /\ ClosedAfterGate'
    BY DEF Typed, Locked, OneStartup, ClosedAfterGate, Holding, Building, Early, Wiring, Wired
<1>4. LedgerGrows'
    BY Tables DEF Typed, OneStartup, ClosedAfterGate, LedgerGrows, Building, Early, Wiring, Wired
<1>5. Registers'
    BY <1>2, Tables DEF Typed, OneStartup, LedgerGrows, Registers, Remaining, Registrations, Building, Early, Wiring, Wired
<1>6. GateOpen'
    BY <1>2 DEF Typed, LedgerGrows, Registers, GateOpen, Building, Early, Wiring, Wired
<1>7. QED
    BY <1>1, <1>3, <1>4, <1>5, <1>6

LEMMA StartWatchdogPreserves ==
    ASSUME LifecycleInv, NEW s \in Starter, StartWatchdog(s)
    PROVE  LifecycleInv'
<1> USE DEF StartWatchdog, application, modules, LifecycleInv, Thread
<1>1. AllRegistrations' = AllRegistrations
    BY DEF AllRegistrations, Registrations
<1>2. pc[s] = "watch" /\ ~ledger.closed /\ Append(ledger.stages, "watchdog") = Order
    BY DEF LedgerGrows, Building, Early, Wired
<1>3. /\ ledger' \in [stages : Seq(Name), closed : BOOLEAN] /\ pc' \in [Thread -> Step]
      /\ pc'[s] = "commit" /\ \A r \in Thread \ {s} : pc'[r] = pc[r]
      /\ ledger'.stages = Order /\ ~ledger'.closed
    BY <1>2, AddStage, s \in Thread, "watchdog" \in Name, "commit" \in Step DEF Step, Name, Holding, Building, Wired
<1>4. Typed' /\ Locked' /\ OneStartup' /\ ClosedAfterGate'
    BY ZenonT(40), <1>2, <1>3 DEF Typed, Locked, OneStartup, ClosedAfterGate, Holding, Building, Early, Wiring, Wired
<1>5. LedgerGrows' /\ Registers' /\ GateOpen'
    BY <1>1, <1>2, <1>3 DEF OneStartup, LedgerGrows, Registers, GateOpen, Building, Early, Wiring, Wired
<1>6. QED
    BY <1>4, <1>5

LEMMA CommitPreserves ==
    ASSUME LifecycleInv, NEW s \in Starter, Commit(s)
    PROVE  LifecycleInv'
<1> USE DEF Commit, Goto, Add, application, modules, LifecycleInv, Thread
<1>1. Typed'
    BY Tables DEF Typed, Step, Name, Holding, Building, Early, Wiring, Wired
<1>2. AllRegistrations' = AllRegistrations
    BY DEF AllRegistrations, Registrations
<1>3. Locked' /\ OneStartup' /\ ClosedAfterGate'
    BY SMTT(40), ThreadAssumption DEF Typed, Locked, OneStartup, ClosedAfterGate, Holding, Building, Early, Wiring, Wired
<1>4. LedgerGrows'
    BY Tables DEF Typed, OneStartup, ClosedAfterGate, LedgerGrows, Building, Early, Wiring, Wired
<1>5. Registers'
    BY <1>2, Tables DEF Typed, OneStartup, LedgerGrows, Registers, Remaining, Registrations, Building, Early, Wiring, Wired
<1>6. GateOpen'
    BY ZenonT(40), <1>2 DEF Typed, OneStartup, ClosedAfterGate, LedgerGrows, Registers, GateOpen, Building, Early, Wiring, Wired
<1>7. QED
    BY <1>1, <1>3, <1>4, <1>5, <1>6

LEMMA LeaveStartupPreserves ==
    ASSUME LifecycleInv, NEW s \in Starter, LeaveStartup(s)
    PROVE  LifecycleInv'
<1> USE DEF LeaveStartup, Goto, Add, application, modules, LifecycleInv, Thread
<1>1. Typed'
    BY Tables DEF Typed, Step, Name, Holding, Building, Early, Wiring, Wired
<1>2. AllRegistrations' = AllRegistrations
    BY DEF AllRegistrations, Registrations
<1>3. Locked' /\ OneStartup' /\ ClosedAfterGate'
    BY DEF Typed, Locked, OneStartup, ClosedAfterGate, Holding, Building, Early, Wiring, Wired
<1>4. LedgerGrows'
    BY Tables DEF Typed, OneStartup, ClosedAfterGate, LedgerGrows, Building, Early, Wiring, Wired
<1>5. Registers'
    BY <1>2, Tables DEF Typed, OneStartup, LedgerGrows, Registers, Remaining, Registrations, Building, Early, Wiring, Wired
<1>6. GateOpen'
    BY <1>2 DEF Typed, LedgerGrows, Registers, GateOpen, Building, Early, Wiring, Wired
<1>7. QED
    BY <1>1, <1>3, <1>4, <1>5, <1>6

LEMMA AwaitPreserves ==
    ASSUME LifecycleInv, NEW s \in Starter, Await(s)
    PROVE  LifecycleInv'
<1> USE DEF Await, Goto, Add, application, modules, LifecycleInv, Thread
<1>1. Typed'
    BY Tables DEF Typed, Step, Name, Holding, Building, Early, Wiring, Wired
<1>2. AllRegistrations' = AllRegistrations
    BY DEF AllRegistrations, Registrations
<1>3. Locked' /\ OneStartup' /\ ClosedAfterGate'
    BY DEF Typed, Locked, OneStartup, ClosedAfterGate, Holding, Building, Early, Wiring, Wired
<1>4. LedgerGrows'
    BY Tables DEF Typed, OneStartup, ClosedAfterGate, LedgerGrows, Building, Early, Wiring, Wired
<1>5. Registers'
    BY <1>2, Tables DEF Typed, OneStartup, LedgerGrows, Registers, Remaining, Registrations, Building, Early, Wiring, Wired
<1>6. GateOpen'
    BY <1>2 DEF Typed, LedgerGrows, Registers, GateOpen, Building, Early, Wiring, Wired
<1>7. QED
    BY <1>1, <1>3, <1>4, <1>5, <1>6

-----------------------------------------------------------------------------
(* Stop.                                                                   *)

LEMMA StopPreserves ==
    ASSUME LifecycleInv, NEW t \in Thread, Stop(t)
    PROVE  LifecycleInv'
<1> USE DEF Stop, Undo, Undoing, Goto, application, modules, grpc, LifecycleInv, Thread
<1>1. AllRegistrations' = AllRegistrations
    BY DEF AllRegistrations, Registrations
<1>2. Typed'
    BY TakeFront DEF Typed, Step, Holding, Building, Early, Wiring, Wired
<1>3. Locked' /\ OneStartup' /\ ClosedAfterGate'
    BY ThreadAssumption DEF Typed, Locked, OneStartup, ClosedAfterGate, Holding, Building, Early, Wiring, Wired
<1>4. LedgerGrows'
    BY DEF Typed, LedgerGrows, Building, Early, Wiring, Wired
<1>5. Registers' /\ GateOpen'
    BY <1>1 DEF Typed, Registers, GateOpen, Remaining, Registrations, Building, Early, Wiring, Wired
<1>6. QED
    BY <1>2, <1>3, <1>4, <1>5

LEMMA EnterPreserves ==
    ASSUME LifecycleInv, NEW t \in Thread, Enter(t)
    PROVE  LifecycleInv'
<1> USE DEF Enter, Undo, Undoing, Goto, application, modules, grpc, LifecycleInv, Thread
<1>1. AllRegistrations' = AllRegistrations
    BY DEF AllRegistrations, Registrations
<1>2. Typed'
    BY TakeFront DEF Typed, Step, Holding, Building, Early, Wiring, Wired
<1>3. Locked' /\ OneStartup' /\ ClosedAfterGate'
  <2>1. pc' \in {[pc EXCEPT ![t] = "close"], [pc EXCEPT ![t] = "returned"]}
      OBVIOUS
  <2>2. UNCHANGED <<started, stopped, startupMu, ledger>>
      OBVIOUS
  <2>3. QED
      BY <2>1, <2>2 DEF Typed, Locked, OneStartup, ClosedAfterGate, Holding, Building, Early, Wiring, Wired
<1>4. LedgerGrows'
    BY DEF Typed, LedgerGrows, Building, Early, Wiring, Wired
<1>5. Registers' /\ GateOpen'
    BY <1>1 DEF Typed, Registers, GateOpen, Remaining, Registrations, Building, Early, Wiring, Wired
<1>6. QED
    BY <1>2, <1>3, <1>4, <1>5

LEMMA CloseGatePreserves ==
    ASSUME LifecycleInv, NEW t \in Thread, CloseGate(t)
    PROVE  LifecycleInv'
<1> USE DEF CloseGate, Undo, Undoing, Goto, application, modules, grpc, LifecycleInv, Thread
<1>1. AllRegistrations' = AllRegistrations
    BY DEF AllRegistrations, Registrations
<1>2. Typed'
    BY TakeFront DEF Typed, Step, Holding, Building, Early, Wiring, Wired
<1>3. Locked' /\ OneStartup' /\ ClosedAfterGate'
    BY ThreadAssumption DEF Typed, Locked, OneStartup, ClosedAfterGate, Holding, Building, Early, Wiring, Wired
<1>4. LedgerGrows'
    BY DEF Typed, LedgerGrows, Building, Early, Wiring, Wired
<1>5. Registers' /\ GateOpen'
    BY <1>1 DEF Typed, Registers, GateOpen, Remaining, Registrations, Building, Early, Wiring, Wired
<1>6. QED
    BY <1>2, <1>3, <1>4, <1>5

LEMMA CancelPreserves ==
    ASSUME LifecycleInv, NEW t \in Thread, Cancel(t)
    PROVE  LifecycleInv'
<1> USE DEF Cancel, Undo, Undoing, Goto, application, modules, grpc, LifecycleInv, Thread
<1>1. AllRegistrations' = AllRegistrations
    BY DEF AllRegistrations, Registrations
<1>2. Typed'
    BY TakeFront DEF Typed, Step, Holding, Building, Early, Wiring, Wired
<1>3. Locked' /\ OneStartup' /\ ClosedAfterGate'
    BY ThreadAssumption DEF Typed, Locked, OneStartup, ClosedAfterGate, Holding, Building, Early, Wiring, Wired
<1>4. LedgerGrows'
    BY DEF Typed, LedgerGrows, Building, Early, Wiring, Wired
<1>5. Registers' /\ GateOpen'
    BY <1>1 DEF Typed, Registers, GateOpen, Remaining, Registrations, Building, Early, Wiring, Wired
<1>6. QED
    BY <1>2, <1>3, <1>4, <1>5

LEMMA ReturnPreserves ==
    ASSUME LifecycleInv, NEW t \in Thread, Return(t)
    PROVE  LifecycleInv'
<1> USE DEF Return, Undo, Undoing, Goto, application, modules, grpc, LifecycleInv, Thread
<1>1. AllRegistrations' = AllRegistrations
    BY DEF AllRegistrations, Registrations
<1>2. Typed'
    BY TakeFront DEF Typed, Step, Holding, Building, Early, Wiring, Wired
<1>3. Locked' /\ OneStartup' /\ ClosedAfterGate'
    BY ThreadAssumption DEF Typed, Locked, OneStartup, ClosedAfterGate, Holding, Building, Early, Wiring, Wired
<1>4. LedgerGrows'
    BY DEF Typed, LedgerGrows, Building, Early, Wiring, Wired
<1>5. Registers' /\ GateOpen'
    BY <1>1 DEF Typed, Registers, GateOpen, Remaining, Registrations, Building, Early, Wiring, Wired
<1>6. QED
    BY <1>2, <1>3, <1>4, <1>5

LEMMA StopEEBUSPreserves ==
    ASSUME LifecycleInv, NEW t \in Thread, StopEEBUS(t)
    PROVE  LifecycleInv'
<1> USE DEF StopEEBUS, Undo, Undoing, Goto, application, modules, grpc, LifecycleInv, Thread
<1>1. AllRegistrations' = AllRegistrations
    BY DEF AllRegistrations, Registrations
<1>2. Typed'
    BY TakeFront DEF Typed, Step, Holding, Building, Early, Wiring, Wired
<1>3. Locked' /\ OneStartup' /\ ClosedAfterGate'
    BY ThreadAssumption DEF Typed, Locked, OneStartup, ClosedAfterGate, Holding, Building, Early, Wiring, Wired
<1>4. LedgerGrows'
    BY DEF Typed, LedgerGrows, Building, Early, Wiring, Wired
<1>5. Registers' /\ GateOpen'
    BY <1>1 DEF Typed, Registers, GateOpen, Remaining, Registrations, Building, Early, Wiring, Wired
<1>6. QED
    BY <1>2, <1>3, <1>4, <1>5

LEMMA StopHeartbeatPreserves ==
    ASSUME LifecycleInv, NEW t \in Thread, StopHeartbeat(t)
    PROVE  LifecycleInv'
<1> USE DEF StopHeartbeat, Undo, Undoing, Goto, application, modules, grpc, LifecycleInv, Thread
<1>1. AllRegistrations' = AllRegistrations
    BY DEF AllRegistrations, Registrations
<1>2. Typed'
    BY TakeFront DEF Typed, Step, Holding, Building, Early, Wiring, Wired
<1>3. Locked' /\ OneStartup' /\ ClosedAfterGate'
    BY ThreadAssumption DEF Typed, Locked, OneStartup, ClosedAfterGate, Holding, Building, Early, Wiring, Wired
<1>4. LedgerGrows'
    BY DEF Typed, LedgerGrows, Building, Early, Wiring, Wired
<1>5. Registers' /\ GateOpen'
    BY <1>1 DEF Typed, Registers, GateOpen, Remaining, Registrations, Building, Early, Wiring, Wired
<1>6. QED
    BY <1>2, <1>3, <1>4, <1>5

LEMMA CloseProvidersPreserves ==
    ASSUME LifecycleInv, NEW t \in Thread, CloseProviders(t)
    PROVE  LifecycleInv'
<1> USE DEF CloseProviders, Undo, Undoing, Goto, application, modules, grpc, LifecycleInv, Thread
<1>1. AllRegistrations' = AllRegistrations
    BY DEF AllRegistrations, Registrations
<1>2. Typed'
    BY TakeFront DEF Typed, Step, Holding, Building, Early, Wiring, Wired
<1>3. Locked' /\ OneStartup' /\ ClosedAfterGate'
    BY ThreadAssumption DEF Typed, Locked, OneStartup, ClosedAfterGate, Holding, Building, Early, Wiring, Wired
<1>4. LedgerGrows'
    BY DEF Typed, LedgerGrows, Building, Early, Wiring, Wired
<1>5. Registers' /\ GateOpen'
    BY <1>1 DEF Typed, Registers, GateOpen, Remaining, Registrations, Building, Early, Wiring, Wired
<1>6. QED
    BY <1>2, <1>3, <1>4, <1>5

LEMMA GracefulStopPreserves ==
    ASSUME LifecycleInv, NEW t \in Thread, GracefulStop(t)
    PROVE  LifecycleInv'
<1> USE DEF GracefulStop, Undo, Undoing, Goto, application, modules, grpc, LifecycleInv, Thread
<1>1. AllRegistrations' = AllRegistrations
    BY DEF AllRegistrations, Registrations
<1>2. Typed'
    BY TakeFront DEF Typed, Step, Holding, Building, Early, Wiring, Wired
<1>3. Locked' /\ OneStartup' /\ ClosedAfterGate'
    BY ThreadAssumption DEF Typed, Locked, OneStartup, ClosedAfterGate, Holding, Building, Early, Wiring, Wired
<1>4. LedgerGrows'
    BY DEF Typed, LedgerGrows, Building, Early, Wiring, Wired
<1>5. Registers' /\ GateOpen'
    BY <1>1 DEF Typed, Registers, GateOpen, Remaining, Registrations, Building, Early, Wiring, Wired
<1>6. QED
    BY <1>2, <1>3, <1>4, <1>5

LEMMA DrainedPreserves ==
    ASSUME LifecycleInv, NEW t \in Thread, Drained(t)
    PROVE  LifecycleInv'
<1> USE DEF Drained, Undo, Undoing, Goto, application, modules, grpc, LifecycleInv, Thread
<1>1. AllRegistrations' = AllRegistrations
    BY DEF AllRegistrations, Registrations
<1>2. Typed'
  <2>1. Tail(todo[t]) \in Seq(Name)
      BY TakeFront DEF Typed
  <2>2. pc' = [pc EXCEPT ![t] = "undo"] /\ todo' = [todo EXCEPT ![t] = Tail(@)]
      OBVIOUS
  <2>3. QED
      BY <2>1, <2>2 DEF Typed, Step, Holding
<1>3. Locked' /\ OneStartup' /\ ClosedAfterGate'
    BY ThreadAssumption DEF Typed, Locked, OneStartup, ClosedAfterGate, Holding, Building, Early, Wiring, Wired
<1>4. LedgerGrows'
    BY DEF Typed, LedgerGrows, Building, Early, Wiring, Wired
<1>5. Registers' /\ GateOpen'
    BY <1>1 DEF Typed, Registers, GateOpen, Remaining, Registrations, Building, Early, Wiring, Wired
<1>6. QED
    BY <1>2, <1>3, <1>4, <1>5

LEMMA WaitForWatchdogPreserves ==
    ASSUME LifecycleInv, NEW t \in Thread, WaitForWatchdog(t)
    PROVE  LifecycleInv'
<1> USE DEF WaitForWatchdog, Undo, Undoing, Goto, application, modules, grpc, LifecycleInv, Thread
<1>1. AllRegistrations' = AllRegistrations
    BY DEF AllRegistrations, Registrations
<1>2. Typed'
  <2>1. Tail(todo[t]) \in Seq(Name)
      BY TakeFront DEF Typed
  <2>2. pc' = [pc EXCEPT ![t] = "undo"] /\ todo' = [todo EXCEPT ![t] = Tail(@)]
      OBVIOUS
  <2>3. QED
      BY <2>1, <2>2 DEF Typed, Step, Holding
<1>3. Locked' /\ OneStartup' /\ ClosedAfterGate'
    BY ThreadAssumption DEF Typed, Locked, OneStartup, ClosedAfterGate, Holding, Building, Early, Wiring, Wired
<1>4. LedgerGrows'
    BY DEF Typed, LedgerGrows, Building, Early, Wiring, Wired
<1>5. Registers' /\ GateOpen'
    BY <1>1 DEF Typed, Registers, GateOpen, Remaining, Registrations, Building, Early, Wiring, Wired
<1>6. QED
    BY <1>2, <1>3, <1>4, <1>5

LEMMA RollbackPreserves ==
    ASSUME LifecycleInv, NEW t \in Thread, Rollback(t)
    PROVE  LifecycleInv'
<1> USE DEF Rollback, Goto, context, modules, LifecycleInv, Thread
<1>1. AllRegistrations' = AllRegistrations
    BY DEF AllRegistrations, Registrations
<1>2. /\ stopped /\ \A r \in Thread : pc[r] \notin Holding
      /\ ledger' = [stages |-> <<>>, closed |-> TRUE] /\ pc' = [pc EXCEPT ![t] = "undo"]
    BY ThreadAssumption DEF Locked, ClosedAfterGate
<1>3. Reverse(ledger.stages) \in Seq(Name)
  <2> DEFINE q == ledger.stages
  <2>1. q \in Seq(Name)
      BY DEF Typed
  <2>2. Len(q) \in Nat /\ \A i \in 1..Len(q) : (Len(q) - i) + 1 \in 1..Len(q) /\ q[(Len(q) - i) + 1] \in Name
      BY <2>1, LenProperties, ElementOfSeq
  <2>3. QED
      BY <2>2, IsASeq DEF Reverse
<1>4. Typed'
  <2>1. todo' \in [Thread -> Seq(Name)] /\ \A r \in Thread \ {t} : todo'[r] = todo[r]
      BY <1>3 DEF Typed
  <2>2. ledger' \in [stages : Seq(Name), closed : BOOLEAN]
      BY <1>2, Tables
  <2>3. QED
      BY <1>2, <2>1, <2>2 DEF Typed, Step, Holding
<1>5. Locked' /\ OneStartup' /\ ClosedAfterGate'
    BY <1>2 DEF Typed, Locked, OneStartup, ClosedAfterGate, Building, Early, Wiring, Wired, Holding
<1>6. LedgerGrows' /\ Registers' /\ GateOpen'
    BY <1>1, <1>2 DEF Typed, LedgerGrows, Registers, GateOpen, Building, Early, Wiring, Wired, Holding
<1>7. QED
    BY <1>4, <1>5, <1>6

-----------------------------------------------------------------------------
(* The specification.                                                      *)

LEMMA NextPreserves == LifecycleInv /\ [Next]_vars => LifecycleInv'
<1> SUFFICES ASSUME LifecycleInv, [Next]_vars PROVE LifecycleInv'
    OBVIOUS
<1> USE DEF Thread
<1>1. CASE \E s \in Starter : Start(s) \/ StartStep(s)
    BY <1>1, StartPreserves, StartComponentsPreserves, SetUpPreserves, AnnounceLocalIdentityPreserves,
       ComposePreserves, SetUpModulePreserves, RegisterUseCasesPreserves, PrepareForStartPreserves,
       StartBridgePreserves, StartModulePreserves, LaunchPreserves, WaitReadyPreserves, AbandonPreserves,
       StartWatchdogPreserves, CommitPreserves, LeaveStartupPreserves, AwaitPreserves DEF StartStep
<1>2. CASE \E t \in Thread : StopStep(t)
  <2>1. PICK t \in Thread : StopStep(t)
      BY <1>2
  <2>2. CASE ForceStop(t)
      BY <2>2, ViewUnchanged DEF ForceStop, view, context, application, modules
  <2>3. CASE StopStep(t) /\ ~ForceStop(t)
      BY <2>3, EnterPreserves, CloseGatePreserves, CancelPreserves, RollbackPreserves, StopEEBUSPreserves,
         StopHeartbeatPreserves, CloseProvidersPreserves, GracefulStopPreserves, DrainedPreserves,
         WaitForWatchdogPreserves, ReturnPreserves DEF StopStep
  <2>4. QED
      BY <2>1, <2>2, <2>3
<1>3. CASE \E t \in Stopper : Stop(t)
    BY <1>3, StopPreserves
<1>4. CASE Background
    BY <1>4, ViewUnchanged DEF Background, Listen, Serve, ServerFailure, RequestRestart, WatchdogDone, view,
       context, application, modules
<1>5. CASE WatchdogTick \/ HandleTick \/ Signal
    BY <1>5, ViewUnchanged DEF WatchdogTick, HandleTick, Signal, view, application, modules
<1>6. CASE \E c \in Client : Call(c) \/ CallHeartbeat(c) \/ Hangup(c)
    BY <1>6, ViewUnchanged DEF Call, CallHeartbeat, Hangup, view, application, modules
<1>7. CASE UNCHANGED vars
    BY <1>7, ViewUnchanged DEF vars, view, application, modules
<1>8. QED
    BY <1>1, <1>2, <1>3, <1>4, <1>5, <1>6, <1>7 DEF Next

\* The invariant of the startup and the rollback of Lifecycle (app.go, Start,
\* startComponents, Stop).
THEOREM LifecycleInvariant == Spec => []LifecycleInv
<1>1. Init => LifecycleInv
    BY LifecycleInitial
<1>2. LifecycleInv /\ [Next]_vars => LifecycleInv'
    BY NextPreserves
<1>3. QED
    BY <1>1, <1>2, PTL DEF Spec

\* ServesWhole for every number of calls of Start and Stop: a call is admitted only while
\* every stage is up, every use case is registered and no Stop has begun (app.go,
\* startComponents, whose commit looks for a Stop under lifecycleMu).
THEOREM ServesOnlyWhole == Spec => []ServesWhole
<1>1. LifecycleInv => ServesWhole
    BY AllRegistrationsIs DEF LifecycleInv, GateOpen, ServesWhole
<1>2. QED
    BY <1>1, LifecycleInvariant, PTL

-----------------------------------------------------------------------------
(* The stack of the stages, in the startup and in the rollback.            *)

Rolling == {"undo", "drain"}
Stopping == {"close", "cancel", "wait"} \cup Rolling
Unlaunched == Building \ {"ready", "watch", "commit"}

\* The first stages, and those from the last of them back.
Upto(c) == [i \in 1..c |-> Order[i]]
Downfrom(c) == [i \in 1..c |-> Order[(c - i) + 1]]
Below(c) == {Order[i] : i \in 1..c}

\* What runs and is not recorded yet: the startup holds it in its hands.
Unrecorded ==
    (IF \E s \in Starter : pc[s] = "announce" THEN {"EEBUS"} ELSE {})
        \cup (IF \E s \in Starter : pc[s] \in {"ready", "abandon"} THEN {"gRPC"} ELSE {})

\* There are c stages: in the ledger, or still to be stopped.
Stages(c) ==
    /\ (\A t \in Thread : pc[t] \notin Rolling) => ledger.stages = Upto(c)
    /\ \A t \in Thread :
        /\ pc[t] \in Rolling => todo[t] = Downfrom(c)
        /\ pc[t] = "drain" => c = 4
        /\ pc[t] \in {"ready", "abandon"} => c = 3

\* They run, and but for them only what is not recorded yet or did not stop; and calls,
\* the heartbeat and the watchdog are there only with the stages that carry them.
Running(c) ==
    /\ Below(c) \subseteq up /\ up \subseteq Below(c) \cup broken \cup Unrecorded
    /\ broken \subseteq {"Providers", "watchdog"} \ Below(c)
    /\ streams # {} => c >= 4
    /\ heartbeat => c >= 2
    /\ watchdog \notin {"off", "ended"} => c = 5 \/ "watchdog" \in broken

\* One goroutine closes the ledger, after it cancelled the context of the startup.
Closing ==
    /\ \A t \in Thread :
        /\ pc[t] \in (Building \ {"startup"}) \cup {"abandon"} => ~ledger.closed
        /\ pc[t] \in Stopping => once = t
        /\ pc[t] = "returned" => once = "done"
        /\ pc[t] \in {"wait"} \cup Rolling => (started => cancelled)
        /\ pc[t] \in Rolling => ledger.closed
    /\ once = "done" \/ broken # {} => ledger.closed
    /\ ledger.closed => ledger.stages = <<>> /\ (started => cancelled)

\* The server begins to serve in its startup, or never.
Served ==
    /\ server = "serving" => "gRPC" \in up
    /\ server = "launched" /\ drain = "no" => \E s \in Starter : pc[s] = "ready"
    /\ ready # "no" => server \notin {"off", "launched"}
    /\ ~started => server = "off"
    /\ \A s \in Starter : pc[s] \in Unlaunched => server = "off"

StackInv == Closing /\ Served /\ \E c \in 0..5 : Stages(c) /\ Running(c)

\* The order of the stages, by their number.
LEMMA OrderIs ==
    /\ Len(Order) = 5
    /\ Order[1] = "EEBUS" /\ Order[2] = "LPC" /\ Order[3] = "Providers" /\ Order[4] = "gRPC" /\ Order[5] = "watchdog"
    /\ \A i \in 1..5 : Order[i] \in Name
    /\ \A i, j \in 1..5 : Order[i] = Order[j] => i = j
<1> DEFINE first == <<"EEBUS">> \o Starting
<1>1. first \in Seq(Name) /\ Len(first) = 3 /\ first[1] = "EEBUS" /\ first[2] = "LPC" /\ first[3] = "Providers"
    BY DEF Starting, Name
<1>2. <<"gRPC", "watchdog">> \in Seq(Name)
    BY DEF Name
<1>3. Order \in Seq(Name) /\ Len(Order) = 5
    BY <1>1, <1>2, ConcatProperties DEF Order
<1>4. Order[1] = first[1] /\ Order[2] = first[2] /\ Order[3] = first[3]
    BY <1>1, <1>2, ConcatProperties DEF Order
<1>5. Order[4] = "gRPC" /\ Order[5] = "watchdog"
    BY <1>1, <1>2, ConcatProperties DEF Order
<1>6. \A i \in 1..5 : i = 1 \/ i = 2 \/ i = 3 \/ i = 4 \/ i = 5
    OBVIOUS
<1>7. QED
    BY <1>1, <1>3, <1>4, <1>5, <1>6 DEF Name

\* The first stages are a sequence; with the next one they are the first stages again.
LEMMA UptoGrows ==
    ASSUME NEW c \in 0..5
    PROVE  /\ Upto(c) \in Seq(Name) /\ Len(Upto(c)) = c /\ Upto(0) = <<>>
           /\ Below(0) = {}
           /\ c < 5 => Append(Upto(c), Order[c + 1]) = Upto(c + 1)
           /\ c < 5 => Below(c + 1) = Below(c) \cup {Order[c + 1]} /\ Order[c + 1] \notin Below(c)
<1>1. \A i \in 1..c : Order[i] \in Name
    BY OrderIs
<1>2. Upto(c) \in Seq(Name) /\ Len(Upto(c)) = c
    BY <1>1, IsASeq, LenProperties DEF Upto
<1>3. Upto(0) = <<>> /\ Below(0) = {}
    BY DEF Upto, Below
<1>4. ASSUME c < 5 PROVE Append(Upto(c), Order[c + 1]) = Upto(c + 1)
  <2> DEFINE p == Append(Upto(c), Order[c + 1])
  <2>1. Order[c + 1] \in Name
      BY <1>4, OrderIs
  <2>2. p \in Seq(Name) /\ Len(p) = c + 1 /\ \A i \in 1..(c + 1) : p[i] = IF i <= c THEN Upto(c)[i] ELSE Order[c + 1]
      BY <1>2, <2>1, AppendProperties
  <2>3. \A i \in 1..(c + 1) : p[i] = Order[i]
      BY <2>2 DEF Upto
  <2>4. p = [i \in 1..(c + 1) |-> p[i]]
      BY <2>2, LenProperties
  <2>5. QED
      BY <2>3, <2>4 DEF Upto
<1>5. ASSUME c < 5 PROVE Below(c + 1) = Below(c) \cup {Order[c + 1]} /\ Order[c + 1] \notin Below(c)
  <2>1. \A i \in 1..(c + 1) : i \in 1..c \/ i = c + 1
      BY <1>5
  <2>2. \A i \in 1..c : i \in 1..(c + 1) /\ i \in 1..5 /\ c + 1 \in 1..5 /\ i # c + 1
      BY <1>5
  <2>3. Order[c + 1] \notin Below(c)
      BY <2>2, OrderIs DEF Below
  <2>4. c + 1 \in 1..(c + 1)
      OBVIOUS
  <2>5. QED
      BY <2>1, <2>2, <2>3, <2>4 DEF Below
<1>6. QED
    BY <1>2, <1>3, <1>4, <1>5

\* The rollback takes the stages from the last one on.
LEMMA DownfromFalls ==
    ASSUME NEW c \in 0..5
    PROVE  /\ Reverse(Upto(c)) = Downfrom(c) /\ Downfrom(c) \in Seq(Name)
           /\ Downfrom(c) = <<>> <=> c = 0
           /\ c > 0 => Head(Downfrom(c)) = Order[c] /\ Tail(Downfrom(c)) = Downfrom(c - 1)
<1>1. \A i \in 1..c : (c - i) + 1 \in 1..c /\ Order[(c - i) + 1] \in Name
    BY OrderIs
<1>2. Downfrom(c) \in Seq(Name) /\ Len(Downfrom(c)) = c
    BY <1>1, IsASeq, LenProperties DEF Downfrom
<1>3. Reverse(Upto(c)) = Downfrom(c)
  <2>1. Reverse(Upto(c)) = [i \in 1..c |-> Upto(c)[(c - i) + 1]]
      BY UptoGrows DEF Reverse
  <2>2. \A i \in 1..c : Upto(c)[(c - i) + 1] = Order[(c - i) + 1]
      BY <1>1 DEF Upto
  <2>3. QED
      BY <2>1, <2>2 DEF Downfrom
<1>4. Downfrom(c) = <<>> <=> c = 0
    BY <1>2, EmptySeq, LenProperties
<1>5. ASSUME c > 0 PROVE Head(Downfrom(c)) = Order[c] /\ Tail(Downfrom(c)) = Downfrom(c - 1)
  <2> DEFINE q == Downfrom(c)
  <2>1. q # <<>> /\ Len(q) = c
      BY <1>2, <1>4, <1>5
  <2>2. Head(q) = q[1] /\ Tail(q) = [i \in 1..(c - 1) |-> q[i + 1]]
    <3>1. Tail(q) \in Seq(Name) /\ Len(Tail(q)) = c - 1 /\ \A i \in 1..(c - 1) : Tail(q)[i] = q[i + 1]
        BY <1>2, <2>1, HeadTailProperties
    <3>2. Tail(q) = [i \in 1..(c - 1) |-> Tail(q)[i]]
        BY <3>1, LenProperties
    <3>3. QED
        BY <1>2, <2>1, <3>1, <3>2
  <2>3. q[1] = Order[c]
      BY <1>5 DEF Downfrom
  <2>4. \A i \in 1..(c - 1) : q[i + 1] = Order[((c - 1) - i) + 1]
      BY <1>5 DEF Downfrom
  <2>5. QED
      BY <2>2, <2>3, <2>4 DEF Downfrom
<1>6. QED
    BY <1>2, <1>3, <1>4, <1>5

LEMMA StackInitial == Init => StackInv
<1> SUFFICES ASSUME Init PROVE StackInv
    OBVIOUS
<1> USE DEF Init
<1>1. \A t \in Thread : pc[t] = "idle"
    OBVIOUS
<1>2. Closing
    BY <1>1, OnceAssumption DEF Closing, Stopping, Rolling, Building, Early, Wiring, Wired
<1>3. Served
    BY DEF Served, Unlaunched, Building, Early, Wiring, Wired
<1>4. Stages(0) /\ Running(0)
    BY <1>1, UptoGrows DEF Stages, Running, Rolling
<1>5. QED
    BY <1>2, <1>3, <1>4 DEF StackInv

\* What the invariant of the stack speaks of, but for the steps of the goroutines.
stack == <<ledger, started, cancelled, once, up, broken, server, ready, drain, streams, heartbeat, watchdog>>

\* A goroutine that goes on, and neither starts nor stops a stage.
LEMMA Moves ==
    ASSUME LifecycleInv, StackInv, NEW t \in Thread, NEW step \in Step, Goto(t, step), UNCHANGED stack,
           pc[t] \notin {"announce", "ready", "abandon"} \cup Rolling,
           step \notin {"announce", "ready", "abandon", "returned"} \cup Stopping,
           step \in Building \ {"startup"} => pc[t] \in Building \ {"startup"},
           step \in Unlaunched => pc[t] \in Unlaunched,
           \A r \in Thread \ {t} : todo'[r] = todo[r]
    PROVE  StackInv'
<1> USE DEF stack, StackInv
<1>1. pc' = [pc EXCEPT ![t] = step] /\ pc \in [Thread -> Step]
    BY DEF Goto, LifecycleInv, Typed
<1>2. pc'[t] = step /\ \A r \in Thread \ {t} : pc'[r] = pc[r]
    BY <1>1
<1>3. Closing'
    BY <1>2 DEF Closing, Stopping
<1>4. Served'
    BY <1>2 DEF Served, Thread
<1>5. PICK c \in 0..5 : Stages(c) /\ Running(c)
    OBVIOUS
<1>6. Unrecorded' = Unrecorded
    BY <1>2 DEF Unrecorded, Thread
<1>7. Stages(c)' /\ Running(c)'
    BY <1>2, <1>5, <1>6 DEF Stages, Running, Stopping, Rolling
<1>8. QED
    BY <1>3, <1>4, <1>7

\* The startup takes the first steps of a stage.
LEMMA InHand ==
    ASSUME LifecycleInv, StackInv, NEW s \in Starter, pc[s] \in Building \ {"startup"}
    PROVE  /\ ~ledger.closed /\ once # "done"
           /\ \A t \in Thread : pc[t] \notin Rolling
           /\ \A r \in Thread \ {s} : pc[r] \notin Holding
           /\ \A r \in Starter \ {s} : pc[r] \notin Building
           /\ \E c \in 0..5 : ledger.stages = Upto(c) /\ Stages(c) /\ Running(c) /\ Len(ledger.stages) = c
<1> USE DEF StackInv, LifecycleInv
<1>1. ~ledger.closed /\ once # "done"
    BY DEF Closing, Thread
<1>2. \A t \in Thread : pc[t] \notin Rolling
    BY <1>1 DEF Closing
<1>3. \A r \in Starter \ {s} : pc[r] \notin Building
    BY DEF OneStartup
<1>4. \A r \in Thread \ {s} : pc[r] \notin Holding
    BY ThreadAssumption DEF Locked, Thread, Holding
<1>5. PICK c \in 0..5 : Stages(c) /\ Running(c)
    OBVIOUS
<1>6. ledger.stages = Upto(c) /\ Len(ledger.stages) = c
    BY <1>2, <1>5, UptoGrows DEF Stages
<1>7. QED
    BY <1>1, <1>2, <1>3, <1>4, <1>5, <1>6

\* A stage that was started is recorded: the next of the order.
LEMMA Records ==
    ASSUME LifecycleInv, StackInv, NEW s \in Starter, pc[s] \in Building \ {"startup"},
           NEW c \in 0..4, ledger.stages = Upto(c), Stages(c), Running(c),
           NEW next \in Step, Add(s, Order[c + 1], next), UNCHANGED <<started, cancelled, once, broken>>,
           next \in Building \ ({"startup", "announce", "ready"} \cup Rolling \cup Stopping),
           pc[s] \in {"announce", "module", "ready", "watch"},
           pc[s] = "announce" => c = 0, pc[s] = "ready" => c = 3,
           next \in Unlaunched => pc[s] \in Unlaunched,
           pc[s] = "ready" => ~(server = "launched" /\ drain = "no"),
           UNCHANGED <<server, ready, drain, streams>>,
           heartbeat' => heartbeat \/ c = 1,
           watchdog' = watchdog \/ c = 4,
           \A r \in Thread \ {s} : todo'[r] = todo[r]
    PROVE  StackInv'
<1> USE DEF StackInv
<1> DEFINE stage == Order[c + 1]
<1>1. /\ ~ledger.closed /\ \A t \in Thread : pc[t] \notin Rolling
      /\ \A r \in Thread \ {s} : pc[r] \notin Holding
      /\ \A r \in Starter \ {s} : pc[r] \notin Building
    BY InHand
<1>2. s \in Thread /\ stage \in Name
    BY OrderIs DEF Thread
<1>3. /\ ledger' \in [stages : Seq(Name), closed : BOOLEAN] /\ ledger'.closed = ledger.closed
      /\ pc'[s] = next /\ \A r \in Thread \ {s} : pc'[r] = pc[r]
      /\ ledger'.stages = Append(ledger.stages, stage)
    BY <1>1, <1>2, AddStage DEF LifecycleInv
<1>4. up' = up \cup {stage}
    BY <1>1 DEF Add
<1>5. ledger'.stages = Upto(c + 1) /\ Below(c + 1) = Below(c) \cup {stage} /\ stage \notin Below(c)
  <2>1. c \in 0..5 /\ c < 5
      OBVIOUS
  <2>2. QED
      BY <1>3, <2>1, UptoGrows
<1>6. Closing'
    BY <1>1, <1>2, <1>3 DEF Closing, Stopping, Building, Early, Wiring, Wired
<1>7. Served'
    BY <1>1, <1>2, <1>3, <1>4 DEF Served, Thread, Unlaunched, Building, Early, Wiring, Wired
<1>8. broken = {}
    BY <1>1 DEF Closing
<1>9. /\ pc[s] = "announce" => stage = "EEBUS"
      /\ pc[s] = "ready" => stage = "gRPC"
    BY OrderIs
<1>10. Unrecorded' \subseteq Unrecorded /\ Unrecorded \subseteq Unrecorded' \cup {stage}
    BY <1>2, <1>3, <1>9 DEF Unrecorded, Thread, Building, Early, Wiring, Wired
<1>11. Stages(c + 1)'
    BY <1>1, <1>2, <1>3, <1>5 DEF Stages, Holding, Rolling, Building, Early, Wiring, Wired
<1>12. Running(c + 1)'
    BY <1>1, <1>2, <1>3, <1>4, <1>5, <1>8, <1>10 DEF Running
<1>13. QED
    BY <1>6, <1>7, <1>11, <1>12

\* A stage is stopped: the last one there is.
LEMMA Pops ==
    ASSUME LifecycleInv, StackInv, NEW t \in Thread, NEW failed \in BOOLEAN,
           pc[t] \in Rolling, todo[t] # <<>>, Undo(t, failed),
           failed => Head(todo[t]) \in {"Providers", "watchdog"},
           Head(todo[t]) = "gRPC" => streams = {} /\ server # "serving",
           Head(todo[t]) = "watchdog" => failed \/ watchdog = "ended",
           heartbeat' => heartbeat /\ Head(todo[t]) # "LPC",
           UNCHANGED <<ledger, started, cancelled, once, server, ready, drain, streams, watchdog>>
    PROVE  StackInv'
<1> USE DEF StackInv
<1> DEFINE stage == Head(todo[t])
<1>1. PICK c \in 0..5 : Stages(c) /\ Running(c)
    OBVIOUS
<1>2. c > 0 /\ todo[t] = Downfrom(c) /\ stage = Order[c] /\ Tail(todo[t]) = Downfrom(c - 1) /\ c - 1 \in 0..5
  <2>1. todo[t] = Downfrom(c)
      BY <1>1 DEF Stages
  <2>2. c # 0
      BY <2>1, DownfromFalls
  <2>3. c > 0 /\ c - 1 \in 0..5
      BY <2>2
  <2>4. QED
      BY <2>1, <2>3, DownfromFalls
<1>3. Below(c) = Below(c - 1) \cup {stage} /\ stage \notin Below(c - 1)
  <2>1. c - 1 \in 0..5 /\ c - 1 < 5 /\ (c - 1) + 1 = c
      BY <1>2
  <2>2. QED
      BY ZenonT(40), <1>2, <2>1, UptoGrows
<1>4. /\ pc' = [pc EXCEPT ![t] = "undo"] /\ todo' = [todo EXCEPT ![t] = Tail(@)]
      /\ pc \in [Thread -> Step] /\ todo \in [Thread -> Seq(Name)]
    BY DEF Undo, Goto, LifecycleInv, Typed
<1>5. pc'[t] = "undo" /\ todo'[t] = Tail(todo[t]) /\ \A r \in Thread \ {t} : pc'[r] = pc[r] /\ todo'[r] = todo[r]
    BY <1>4
<1>6. \A r \in Thread \ {t} : pc[r] \notin Holding
    BY DEF LifecycleInv, Locked, Holding, Rolling
<1>7. ledger.closed
    BY DEF Closing
<1>8. Closing'
    BY <1>5, <1>7 DEF Closing, Stopping, Rolling, Building, Early, Wiring, Wired
<1>9. /\ stage = "gRPC" <=> c = 4
      /\ stage = "watchdog" <=> c = 5
      /\ stage = "LPC" <=> c = 2
    BY <1>2, OrderIs
<1>10. /\ broken' = IF failed THEN broken \cup {stage} ELSE broken
       /\ up' = IF failed THEN up ELSE up \ {stage}
       /\ stage \notin broken
  <2>1. stage \in Below(c)
      BY <1>3
  <2>2. QED
      BY <1>1, <2>1 DEF Undo, Running
<1>11. Served'
  <2>1. server = "serving" => "gRPC" \in up'
      BY <1>10 DEF Served
  <2>2. \A s \in Starter : pc'[s] \in Unlaunched \cup {"ready"} => pc[s] = pc'[s]
      BY <1>5 DEF Unlaunched, Building, Early, Wiring, Wired, Thread
  <2>3. \A s \in Starter : pc[s] \notin {"ready"}
      BY <1>6 DEF Holding, Building, Wired, Rolling, Thread
  <2>4. QED
      BY <2>1, <2>2, <2>3 DEF Served
<1>12. Unrecorded' = {} /\ Unrecorded = {}
    BY <1>5, <1>6 DEF Unrecorded, Thread, Holding, Building, Early, Wired, Rolling
<1>13. Stages(c - 1)'
    BY <1>2, <1>5, <1>6 DEF Stages, Holding, Rolling, Building, Wired
<1>14. Running(c - 1)'
  <2>1. Below(c - 1) \subseteq up'
      BY <1>1, <1>3, <1>10 DEF Running
  <2>2. up' \subseteq Below(c - 1) \cup broken'
      BY <1>1, <1>3, <1>10, <1>12 DEF Running
  <2>3. broken' \subseteq {"Providers", "watchdog"} \ Below(c - 1)
      BY <1>1, <1>3, <1>10 DEF Running
  <2>4. /\ streams # {} => c - 1 >= 4
        /\ heartbeat' => c - 1 >= 2
      BY <1>1, <1>2, <1>9 DEF Running
  <2>5. watchdog \notin {"off", "ended"} => "watchdog" \in broken'
      BY <1>1, <1>9, <1>10 DEF Running
  <2>6. QED
      BY <2>1, <2>2, <2>3, <2>4, <2>5, <1>12 DEF Running
<1>15. QED
    BY <1>2, <1>8, <1>11, <1>13, <1>14

\* The steps of a goroutine that neither start nor stop a stage.
LEMMA StartupMoves ==
    ASSUME LifecycleInv, StackInv, NEW s \in Starter,
           \/ Compose(s) \/ SetUpModule(s) \/ RegisterUseCases(s) \/ PrepareForStart(s) \/ StartBridge(s)
           \/ Commit(s) \/ LeaveStartup(s) \/ Await(s)
    PROVE  StackInv'
<1> USE DEF context, application, modules, grpc, stack
<1> DEFINE Leads(step) == step \in Building \ {"startup"} => pc[s] \in Building \ {"startup"}
           Before(step) == step \in Unlaunched => pc[s] \in Unlaunched
           Plain(step) == step \in Step /\ step \notin {"announce", "ready", "abandon", "returned"} \cup Stopping
<1>0. s \in Thread /\ todo \in [Thread -> Seq(Name)]
    BY DEF Thread, LifecycleInv, Typed
<1>1. /\ UNCHANGED stack /\ \A r \in Thread \ {s} : todo'[r] = todo[r]
      /\ pc[s] \notin {"announce", "ready", "abandon"} \cup Rolling
  <2>1. CASE Compose(s)
      BY <2>1, <1>0 DEF Compose, Rolling
  <2>2. CASE SetUpModule(s)
      BY <2>2 DEF SetUpModule, Rolling
  <2>3. CASE RegisterUseCases(s)
      BY <2>3, <1>0 DEF RegisterUseCases, Rolling
  <2>4. CASE PrepareForStart(s) \/ StartBridge(s)
      BY <2>4, <1>0 DEF PrepareForStart, StartBridge, Rolling
  <2>5. CASE Commit(s) \/ LeaveStartup(s) \/ Await(s)
      BY <2>5 DEF Commit, LeaveStartup, Await, Rolling
  <2>6. QED
      BY <2>1, <2>2, <2>3, <2>4, <2>5
<1>2. \E step : Goto(s, step) /\ Plain(step) /\ Leads(step) /\ Before(step)
  <2> USE DEF Step, Holding, Stopping, Rolling, Unlaunched, Building, Early, Wiring, Wired
  <2>1. CASE Compose(s)
    <3>1. pc[s] = "prepare" /\ (Goto(s, "fail") \/ Goto(s, "wire"))
        BY <2>1 DEF Compose
    <3>2. QED
        BY <3>1
  <2>2. CASE SetUpModule(s)
    <3>1. pc[s] = "wire" /\ (Goto(s, "fail") \/ Goto(s, "register"))
        BY <2>2 DEF SetUpModule
    <3>2. QED
        BY <3>1
  <2>3. CASE RegisterUseCases(s)
    <3>1. pc[s] = "register" /\ (Goto(s, "fail") \/ Goto(s, "wire"))
        BY <2>3 DEF RegisterUseCases
    <3>2. QED
        BY <3>1
  <2>4. CASE PrepareForStart(s)
    <3>1. pc[s] = "wire" /\ (Goto(s, "fail") \/ Goto(s, "bridge"))
        BY <2>4 DEF PrepareForStart
    <3>2. QED
        BY <3>1
  <2>5. CASE StartBridge(s)
    <3>1. pc[s] = "bridge" /\ (Goto(s, "fail") \/ Goto(s, "module"))
        BY <2>5 DEF StartBridge
    <3>2. QED
        BY <3>1
  <2>6. CASE Commit(s)
    <3>1. pc[s] = "commit" /\ (Goto(s, "fail") \/ Goto(s, "committed"))
        BY <2>6 DEF Commit
    <3>2. QED
        BY <3>1
  <2>7. CASE LeaveStartup(s)
    <3>1. pc[s] \in {"fail", "committed"} /\ (Goto(s, "stop") \/ Goto(s, "serve"))
        BY <2>7 DEF LeaveStartup
    <3>2. QED
        BY <3>1
  <2>8. CASE Await(s)
    <3>1. pc[s] = "serve" /\ Goto(s, "stop")
        BY <2>8 DEF Await
    <3>2. QED
        BY <3>1
  <2>9. QED
      BY <2>1, <2>2, <2>3, <2>4, <2>5, <2>6, <2>7, <2>8
<1>3. QED
    BY <1>0, <1>1, <1>2, Moves

LEMMA StartStacks ==
    ASSUME LifecycleInv, StackInv, NEW s \in Starter, Start(s)
    PROVE  StackInv'
<1> USE DEF Start, Goto, application, modules, grpc, context, StackInv
<1>1. pc \in [Thread -> Step] /\ s \in Thread
    BY DEF LifecycleInv, Typed, Thread
<1>2. /\ pc'[s] \in {"refused", "startup"} /\ \A r \in Thread \ {s} : pc'[r] = pc[r]
      /\ started' # started => ~stopped /\ pc'[s] = "startup"
      /\ pc'[s] = "startup" => ~stopped /\ ~started
    BY <1>1 DEF LifecycleInv, Typed
<1>3. Closing'
    BY <1>1, <1>2 DEF LifecycleInv, ClosedAfterGate, Closing, Stopping, Rolling, Building, Early, Wiring, Wired
<1>4. Served'
    BY <1>1, <1>2 DEF Served, Unlaunched, Building, Early, Wiring, Wired, Thread
<1>5. PICK c \in 0..5 : Stages(c) /\ Running(c)
    OBVIOUS
<1>6. Unrecorded' = Unrecorded
    BY <1>1, <1>2 DEF Unrecorded, Thread
<1>7. Stages(c)' /\ Running(c)'
    BY <1>1, <1>2, <1>5, <1>6 DEF Stages, Running, Rolling
<1>8. QED
    BY <1>3, <1>4, <1>7

\* The startup begins only with an open ledger: a Stop that closed it had cancelled the
\* context before.
LEMMA StartComponentsStacks ==
    ASSUME LifecycleInv, StackInv, NEW s \in Starter, StartComponents(s)
    PROVE  StackInv'
<1> USE DEF StartComponents, Goto, application, modules, grpc, context, StackInv
<1>1. pc \in [Thread -> Step] /\ s \in Thread /\ pc[s] = "startup"
    BY DEF LifecycleInv, Typed, Thread
<1>2. pc'[s] \in {"fail", "setup"} /\ \A r \in Thread \ {s} : pc'[r] = pc[r]
    BY <1>1
<1>3. started
    BY <1>1 DEF LifecycleInv, OneStartup, Building, Early
<1>4. pc'[s] = "setup" => ~ledger.closed
    BY <1>1, <1>3 DEF Closing, Done
<1>5. Closing'
    BY <1>1, <1>2, <1>4 DEF Closing, Stopping, Rolling, Building, Early, Wiring, Wired
<1>6. Served'
    BY <1>1, <1>2 DEF Served, Unlaunched, Building, Early, Wiring, Wired, Thread
<1>7. PICK c \in 0..5 : Stages(c) /\ Running(c)
    OBVIOUS
<1>8. Unrecorded' = Unrecorded
    BY <1>1, <1>2 DEF Unrecorded, Thread
<1>9. Stages(c)' /\ Running(c)'
    BY <1>1, <1>2, <1>7, <1>8 DEF Stages, Running, Rolling
<1>10. QED
    BY <1>5, <1>6, <1>9

LEMMA SetUpStacks ==
    ASSUME LifecycleInv, StackInv, NEW s \in Starter, SetUp(s)
    PROVE  StackInv'
<1> USE DEF SetUp, Goto, application, modules, grpc, context, StackInv
<1>1. pc \in [Thread -> Step] /\ s \in Thread /\ pc[s] = "setup"
    BY DEF LifecycleInv, Typed, Thread
<1>2. /\ pc'[s] \in {"fail", "announce"} /\ \A r \in Thread \ {s} : pc'[r] = pc[r]
      /\ up' = up \/ (up' = up \cup {"EEBUS"} /\ pc'[s] = "announce")
    BY <1>1
<1>3. Closing'
    BY <1>1, <1>2 DEF Closing, Stopping, Rolling, Building, Early, Wiring, Wired
<1>4. Served'
    BY <1>1, <1>2 DEF Served, Unlaunched, Building, Early, Wiring, Wired, Thread
<1>5. PICK c \in 0..5 : Stages(c) /\ Running(c)
    OBVIOUS
<1>6. Unrecorded' = (IF pc'[s] = "announce" THEN {"EEBUS"} ELSE {}) \cup Unrecorded
    BY <1>1, <1>2 DEF Unrecorded, Thread
<1>7. Stages(c)'
    BY <1>1, <1>2, <1>5 DEF Stages, Rolling
<1>8. Running(c)'
    BY <1>2, <1>5, <1>6 DEF Running
<1>9. QED
    BY <1>3, <1>4, <1>7, <1>8

LEMMA AnnounceLocalIdentityStacks ==
    ASSUME LifecycleInv, StackInv, NEW s \in Starter, AnnounceLocalIdentity(s)
    PROVE  StackInv'
<1> USE DEF AnnounceLocalIdentity, application, modules, grpc, context, StackInv
<1>1. pc \in [Thread -> Step] /\ s \in Thread /\ pc[s] = "announce" /\ pc[s] \in Building \ {"startup"}
    BY DEF LifecycleInv, Typed, Thread, Building, Early
<1>2. /\ ~ledger.closed /\ \A r \in Thread : pc[r] \notin Rolling
      /\ \A r \in Starter \ {s} : pc[r] \notin Building
    BY <1>1, InHand
<1>3. PICK c \in 0..5 : ledger.stages = Upto(c) /\ Stages(c) /\ Running(c) /\ Len(ledger.stages) = c
    BY <1>1, InHand
<1>4. c = 0
  <2>1. ledger.stages = <<>>
      BY <1>1, <1>2 DEF LifecycleInv, LedgerGrows, Early
  <2>2. QED
      BY <1>3, <2>1
<1>5. CASE Goto(s, "fail") /\ up' = up \ {"EEBUS"} /\ UNCHANGED ledger
  <2>1. pc'[s] = "fail" /\ \A r \in Thread \ {s} : pc'[r] = pc[r]
      BY <1>1, <1>5 DEF Goto
  <2>2. Closing'
      BY <1>1, <1>5, <2>1 DEF Closing, Stopping, Rolling, Building, Early, Wiring, Wired
  <2>3. Served'
      BY <1>1, <1>5, <2>1 DEF Served, Unlaunched, Building, Early, Wiring, Wired, Thread
  <2>4. Unrecorded \subseteq Unrecorded' \cup {"EEBUS"}
      BY <1>1, <2>1 DEF Unrecorded, Thread
  <2>5. Below(c) = {}
      BY <1>4, UptoGrows
  <2>6. Stages(c)'
      BY <1>1, <1>3, <1>5, <2>1 DEF Stages, Rolling
  <2>7. Running(c)'
      BY <1>3, <1>5, <2>4, <2>5 DEF Running
  <2>8. QED
      BY <2>2, <2>3, <2>6, <2>7
<1>6. CASE Add(s, "EEBUS", "prepare")
  <2>1. "EEBUS" = Order[c + 1] /\ c \in 0..4
      BY <1>4, OrderIs
  <2>2. "prepare" \in Step /\ "prepare" \in Building \ ({"startup", "announce", "ready"} \cup Rolling \cup Stopping)
      BY DEF Step, Holding, Building, Rolling, Stopping
  <2>3. pc[s] \in Unlaunched
      BY <1>1 DEF Unlaunched, Building, Early
  <2>4. Add(s, Order[c + 1], "prepare")
      BY <1>6, <2>1
  <2>5. pc[s] # "ready"
      BY <1>1
  <2>6. QED
      BY <1>1, <1>3, <1>4, <2>1, <2>2, <2>3, <2>4, <2>5, Records
<1>7. QED
    BY <1>5, <1>6

\* The modules are started in the order of the stages.
LEMMA StartModuleStacks ==
    ASSUME LifecycleInv, StackInv, NEW s \in Starter, StartModule(s)
    PROVE  StackInv'
<1> USE DEF StartModule, application, modules, grpc, context
<1>1. /\ pc \in [Thread -> Step] /\ todo \in [Thread -> Seq(Name)] /\ ledger.stages \in Seq(Name) /\ s \in Thread
      /\ pc[s] = "module" /\ todo[s] # <<>> /\ pc[s] \in Building \ {"startup"} /\ pc[s] \in Unlaunched
    BY DEF LifecycleInv, Typed, Thread, Unlaunched, Building, Wired
<1>2. CASE Done /\ Goto(s, "fail") /\ UNCHANGED <<up, ledger, heartbeat, todo>>
  <2>1. "fail" \in Step /\ "fail" \notin {"announce", "ready", "abandon", "returned"} \cup Stopping
        /\ "fail" \notin Building
      BY DEF Step, Holding, Stopping, Rolling, Building, Early, Wiring, Wired
  <2>2. pc[s] \notin {"announce", "ready", "abandon"} \cup Rolling
      BY <1>1 DEF Rolling
  <2>3. UNCHANGED stack
      BY <1>2 DEF stack
  <2>4. QED
      BY <1>1, <1>2, <2>1, <2>2, <2>3, Moves DEF Unlaunched
<1>3. CASE /\ Add(s, Head(todo[s]), "module") /\ todo' = [todo EXCEPT ![s] = Tail(@)]
           /\ Head(todo[s]) = "LPC" \/ UNCHANGED heartbeat
  <2>1. ~ledger.closed
      BY <1>1, InHand
  <2>2. PICK c \in 0..5 : ledger.stages = Upto(c) /\ Stages(c) /\ Running(c) /\ Len(ledger.stages) = c
      BY <1>1, InHand
  <2>3. c \in 0..2 /\ Head(todo[s]) = Order[c + 1]
    <3> DEFINE first == <<"EEBUS">> \o Starting
    <3>1. ledger.stages \o todo[s] = first
        BY <1>1 DEF LifecycleInv, LedgerGrows
    <3>2. first \in Seq(Name) /\ Len(first) = 3 /\ first[1] = "EEBUS" /\ first[2] = "LPC" /\ first[3] = "Providers"
        BY DEF Starting, Name
    <3>3. Len(todo[s]) \in Nat \ {0} /\ Head(todo[s]) = todo[s][1]
        BY <1>1, EmptySeq, LenProperties
    <3>4. c + Len(todo[s]) = 3
        BY <1>1, <2>2, <3>1, <3>2, <3>3, ConcatProperties
    <3>5. c \in 0..2 /\ c + 1 \in 1..(c + Len(todo[s])) /\ ~(c + 1 <= c) /\ (c + 1) - c = 1
        BY <2>2, <3>3, <3>4
    <3>6. first[c + 1] = todo[s][1]
        BY <1>1, <2>2, <3>1, <3>5, ConcatProperties
    <3>7. first[c + 1] = Order[c + 1]
        BY <3>2, <3>5, OrderIs
    <3>8. QED
        BY <3>3, <3>5, <3>6, <3>7
  <2>4. heartbeat' => heartbeat \/ c = 1
    <3>1. c = 0 \/ c = 1 \/ c = 2
        BY <2>3
    <3>2. Order[c + 1] = "LPC" => c = 1
        BY <3>1, OrderIs
    <3>3. QED
        BY <1>3, <2>3, <3>2
  <2>5. "module" \in Step /\ "module" \in Building \ ({"startup", "announce", "ready"} \cup Rolling \cup Stopping)
      BY DEF Step, Holding, Building, Wired, Rolling, Stopping
  <2>6. Add(s, Order[c + 1], "module") /\ c \in 0..4 /\ pc[s] # "ready" /\ pc[s] # "announce"
      BY <1>1, <1>3, <2>3
  <2>7. \A r \in Thread \ {s} : todo'[r] = todo[r]
      BY <1>1, <1>3
  <2>8. UNCHANGED <<started, cancelled, once, broken>> /\ UNCHANGED <<server, ready, drain, streams>>
        /\ watchdog' = watchdog
      BY <1>3
  <2>9. QED
      BY <1>1, <2>2, <2>4, <2>5, <2>6, <2>7, <2>8, Records
<1>4. QED
    BY <1>2, <1>3

LEMMA LaunchStacks ==
    ASSUME LifecycleInv, StackInv, NEW s \in Starter, Launch(s)
    PROVE  StackInv'
<1> USE DEF Launch, Goto, application, modules, context
<1>1. /\ pc \in [Thread -> Step] /\ ledger.stages \in Seq(Name) /\ s \in Thread
      /\ pc[s] = "module" /\ todo[s] = <<>> /\ pc[s] \in Building \ {"startup"} /\ pc[s] \in Unlaunched
    BY DEF LifecycleInv, Typed, Thread, Unlaunched, Building, Wired
<1>2. pc'[s] = "ready" /\ \A r \in Thread \ {s} : pc'[r] = pc[r]
    BY <1>1
<1>3. \A r \in Thread : pc[r] \notin Rolling
    BY <1>1, InHand
<1>4. \A r \in Starter \ {s} : pc[r] \notin Building
    BY <1>1, InHand
<1>5. \A r \in Thread \ {s} : pc[r] \notin Holding
    BY <1>1, InHand
<1>6. PICK c \in 0..5 : ledger.stages = Upto(c) /\ Stages(c) /\ Running(c) /\ Len(ledger.stages) = c
    BY <1>1, InHand
<1>7. c = 3
  <2> DEFINE first == <<"EEBUS">> \o Starting
  <2>1. ledger.stages \o todo[s] = first
      BY <1>1 DEF LifecycleInv, LedgerGrows
  <2>2. first \in Seq(Name) /\ Len(first) = 3
      BY DEF Starting, Name
  <2>3. ledger.stages \o todo[s] = ledger.stages
      BY <1>1, ConcatEmptySeq
  <2>4. QED
      BY <1>6, <2>1, <2>2, <2>3
<1>8. server = "off" /\ ready = "no"
    BY <1>1 DEF StackInv, Served
<1>9. Closing'
    BY <1>1, <1>2 DEF StackInv, Closing, Stopping, Rolling, Building, Early, Wiring, Wired
<1>10. Served'
  <2>1. \A r \in Starter : pc'[r] \notin Unlaunched
      BY <1>2, <1>4 DEF Unlaunched, Building, Early, Wiring, Wired, Thread
  <2>2. started
      BY <1>1 DEF LifecycleInv, OneStartup
  <2>3. QED
      BY <1>2, <1>8, <2>1, <2>2 DEF Served
<1>11. Unrecorded \subseteq Unrecorded'
    BY <1>1, <1>2 DEF Unrecorded, Thread
<1>12. Stages(c)'
    BY <1>2, <1>3, <1>6, <1>7 DEF Stages, Rolling
<1>13. Running(c)'
    BY <1>6, <1>11 DEF Running
<1>14. QED
    BY <1>9, <1>10, <1>12, <1>13 DEF StackInv

LEMMA WaitReadyStacks ==
    ASSUME LifecycleInv, StackInv, NEW s \in Starter, WaitReady(s)
    PROVE  StackInv'
<1> USE DEF WaitReady, application, modules, grpc, context
<1>1. pc \in [Thread -> Step] /\ s \in Thread /\ pc[s] = "ready" /\ pc[s] \in Building \ {"startup"}
    BY DEF LifecycleInv, Typed, Thread, Building, Wired
<1>2. PICK c \in 0..5 : ledger.stages = Upto(c) /\ Stages(c) /\ Running(c) /\ Len(ledger.stages) = c
    BY <1>1, InHand
<1>3. c = 3
    BY <1>1, <1>2 DEF Stages
<1>4. CASE drain' = "graceful" /\ Goto(s, "abandon") /\ UNCHANGED <<up, ledger, server, ready, streams>>
  <2>1. pc'[s] = "abandon" /\ \A r \in Thread \ {s} : pc'[r] = pc[r]
      BY <1>1, <1>4 DEF Goto
  <2>2. Closing'
      BY <1>1, <1>4, <2>1 DEF StackInv, Closing, Stopping, Rolling, Building, Early, Wiring, Wired
  <2>3. Served'
      BY <1>1, <1>4, <2>1 DEF StackInv, Served, Unlaunched, Building, Early, Wiring, Wired, Thread
  <2>4. Unrecorded \subseteq Unrecorded'
      BY <1>1, <2>1 DEF Unrecorded, Thread
  <2>5. Stages(c)'
      BY <1>1, <1>2, <1>3, <1>4, <2>1 DEF Stages, Rolling
  <2>6. Running(c)'
      BY <1>2, <1>4, <2>4 DEF Running
  <2>7. QED
      BY <2>2, <2>3, <2>5, <2>6 DEF StackInv
<1>5. CASE ready = "ok" /\ Add(s, "gRPC", "watch") /\ UNCHANGED grpc
  <2>1. Order[c + 1] = "gRPC" /\ c \in 0..4
      BY <1>3, OrderIs
  <2>2. "watch" \in Step /\ "watch" \in Building \ ({"startup", "announce", "ready"} \cup Rolling \cup Stopping)
        /\ "watch" \notin Unlaunched
      BY DEF Step, Holding, Building, Wired, Rolling, Stopping, Unlaunched
  <2>3. server # "launched"
      BY <1>5 DEF StackInv, Served
  <2>4. Add(s, Order[c + 1], "watch") /\ pc[s] # "announce"
      BY <1>1, <1>5, <2>1
  <2>5. /\ UNCHANGED <<started, cancelled, once, broken>> /\ UNCHANGED <<server, ready, drain, streams>>
        /\ watchdog' = watchdog /\ heartbeat' = heartbeat
        /\ \A r \in Thread \ {s} : todo'[r] = todo[r]
      BY <1>5
  <2>6. QED
      BY <1>1, <1>2, <1>3, <2>1, <2>2, <2>3, <2>4, <2>5, Records
<1>6. QED
    BY <1>4, <1>5

LEMMA AbandonStacks ==
    ASSUME LifecycleInv, StackInv, NEW s \in Starter, Abandon(s)
    PROVE  StackInv'
<1> USE DEF Abandon, application, modules, grpc, context
<1>1. pc \in [Thread -> Step] /\ s \in Thread /\ pc[s] = "abandon" /\ server # "serving"
    BY DEF LifecycleInv, Typed, Thread
<1>2. pc'[s] = "fail" /\ \A r \in Thread \ {s} : pc'[r] = pc[r]
    BY <1>1 DEF Goto
<1>3. ~ledger.closed
    BY <1>1 DEF StackInv, Closing
<1>4. \A r \in Thread : pc[r] \notin Rolling
    BY <1>3 DEF StackInv, Closing
<1>5. PICK c \in 0..5 : Stages(c) /\ Running(c)
    BY DEF StackInv
<1>6. c = 3
    BY <1>1, <1>5 DEF Stages
<1>7. Closing'
    BY <1>1, <1>2, <1>3 DEF StackInv, Closing, Stopping, Rolling, Building, Early, Wiring, Wired
<1>8. Served'
    BY <1>1, <1>2 DEF StackInv, Served, Unlaunched, Building, Early, Wiring, Wired, Thread
<1>9. Unrecorded \subseteq Unrecorded' \cup {"gRPC"}
    BY <1>1, <1>2 DEF Unrecorded, Thread
<1>10. Stages(c)'
    BY <1>1, <1>2, <1>4, <1>5, <1>6 DEF Stages, Rolling
<1>11. "gRPC" \notin Below(c)
  <2>1. 3 \in 0..5 /\ 3 < 5 /\ Order[3 + 1] = "gRPC"
      BY OrderIs
  <2>2. QED
      BY <1>6, <2>1, UptoGrows
<1>12. Running(c)'
    BY <1>1, <1>5, <1>9, <1>11 DEF Running
<1>13. QED
    BY <1>7, <1>8, <1>10, <1>12 DEF StackInv

LEMMA StartWatchdogStacks ==
    ASSUME LifecycleInv, StackInv, NEW s \in Starter, StartWatchdog(s)
    PROVE  StackInv'
<1> USE DEF StartWatchdog, application, modules, grpc, context
<1>1. /\ pc \in [Thread -> Step] /\ ledger.stages \in Seq(Name) /\ s \in Thread
      /\ pc[s] = "watch" /\ pc[s] \in Building \ {"startup"}
    BY DEF LifecycleInv, Typed, Thread, Building, Wired
<1>2. PICK c \in 0..5 : ledger.stages = Upto(c) /\ Stages(c) /\ Running(c) /\ Len(ledger.stages) = c
    BY <1>1, InHand
<1>3. c = 4
  <2>1. Append(ledger.stages, "watchdog") = Order
      BY <1>1 DEF LifecycleInv, LedgerGrows
  <2>2. "watchdog" \in Name
      BY DEF Name
  <2>3. Len(Append(ledger.stages, "watchdog")) = c + 1
      BY <1>1, <1>2, <2>2, AppendProperties
  <2>4. Len(Order) = c + 1
      BY <2>1, <2>3
  <2>5. c + 1 = 5
      BY <2>4, OrderIs
  <2>6. QED
      BY <1>2, <2>5
<1>4. Order[c + 1] = "watchdog" /\ c \in 0..4
    BY <1>3, OrderIs
<1>5. "commit" \in Step /\ "commit" \in Building \ ({"startup", "announce", "ready"} \cup Rolling \cup Stopping)
      /\ "commit" \notin Unlaunched
    BY DEF Step, Holding, Building, Wired, Rolling, Stopping, Unlaunched
<1>6. Add(s, Order[c + 1], "commit") /\ pc[s] # "announce" /\ pc[s] # "ready"
    BY <1>1, <1>4
<1>7. /\ UNCHANGED <<started, cancelled, once, broken>> /\ UNCHANGED <<server, ready, drain, streams>>
      /\ heartbeat' = heartbeat
      /\ \A r \in Thread \ {s} : todo'[r] = todo[r]
    OBVIOUS
<1>8. QED
    BY <1>1, <1>2, <1>3, <1>4, <1>5, <1>6, <1>7, Records

-----------------------------------------------------------------------------
(* Stop, and its rollback of the stack.                                    *)

\* A goroutine comes in or leaves, and the ledger and the stages stay.
LEMMA StopsStack ==
    ASSUME LifecycleInv, StackInv, NEW t \in Thread,
           Stop(t) \/ Enter(t) \/ CloseGate(t) \/ Cancel(t) \/ Return(t)
    PROVE  StackInv'
<1> USE DEF Goto, application, modules, grpc, context
<1>1. /\ pc \in [Thread -> Step]
      /\ UNCHANGED <<ledger, started, up, broken, server, ready, drain, streams, heartbeat, watchdog, todo>>
    BY DEF LifecycleInv, Typed, Stop, Enter, CloseGate, Cancel, Return
<1>2. \A r \in Thread \ {t} : pc'[r] = pc[r]
    BY <1>1 DEF Stop, Enter, CloseGate, Cancel, Return
<1>3. PICK c \in 0..5 : Stages(c) /\ Running(c)
    BY DEF StackInv
<1>4. CASE Stop(t) \/ Enter(t) \/ CloseGate(t) \/ Cancel(t)
  <2>1. pc[t] \in {"idle", "stop", "close", "cancel"} /\ pc'[t] \in {"stop", "close", "returned", "cancel", "wait"}
      BY <1>1, <1>4 DEF Stop, Enter, CloseGate, Cancel
  <2>2. Closing'
    <3>1. CASE Stop(t)
        BY <1>1, <1>2, <2>1, <3>1 DEF StackInv, Closing, Stopping, Rolling, Building, Early, Wiring, Wired, Stop
    <3>2. CASE Enter(t)
        BY <1>1, <1>2, <2>1, <3>2, ThreadAssumption, OnceAssumption
           DEF StackInv, Closing, Stopping, Rolling, Building, Early, Wiring, Wired, Enter
    <3>3. CASE CloseGate(t)
        BY <1>1, <1>2, <2>1, <3>3 DEF StackInv, Closing, Stopping, Rolling, Building, Early, Wiring, Wired, CloseGate
    <3>4. CASE Cancel(t)
        BY <1>1, <1>2, <2>1, <3>4 DEF StackInv, Closing, Stopping, Rolling, Building, Early, Wiring, Wired, Cancel
    <3>5. QED
        BY <1>4, <3>1, <3>2, <3>3, <3>4
  <2>3. Served'
      BY <1>1, <1>2, <2>1 DEF StackInv, Served, Unlaunched, Building, Early, Wiring, Wired, Thread
  <2>4. Unrecorded' = Unrecorded
      BY <1>1, <1>2, <2>1 DEF Unrecorded, Thread
  <2>5. Stages(c)' /\ Running(c)'
      BY <1>1, <1>2, <1>3, <2>1, <2>4 DEF Stages, Running, Rolling
  <2>6. QED
      BY <2>2, <2>3, <2>5 DEF StackInv
<1>5. CASE Return(t)
  <2>1. pc[t] = "undo" /\ pc'[t] = "returned" /\ todo[t] = <<>> /\ once' = "done" /\ ledger.closed /\ ledger.stages = <<>>
      BY <1>1, <1>5 DEF Return, StackInv, Closing, Rolling
  <2>2. c = 0
      BY <1>3, <2>1, DownfromFalls DEF Stages, Rolling
  <2>3. Closing'
      BY <1>1, <1>2, <1>5, <2>1 DEF StackInv, Closing, Stopping, Rolling, Building, Early, Wiring, Wired, Return
  <2>4. Served'
      BY <1>1, <1>2, <2>1 DEF StackInv, Served, Unlaunched, Building, Early, Wiring, Wired, Thread
  <2>5. Unrecorded' = Unrecorded
      BY <1>1, <1>2, <2>1 DEF Unrecorded, Thread
  <2>6. \A r \in Thread \ {t} : pc[r] \notin Rolling
      BY <2>1 DEF LifecycleInv, Locked, Holding, Rolling
  <2>7. Stages(c)'
      BY <1>1, <1>2, <1>3, <2>1, <2>2, <2>6, UptoGrows DEF Stages, Rolling
  <2>8. Running(c)'
      BY <1>1, <1>3, <2>5 DEF Running
  <2>9. QED
      BY <2>3, <2>4, <2>7, <2>8 DEF StackInv
<1>6. QED
    BY <1>4, <1>5

\* The rollback begins with all the stages of the ledger, and no startup is under way.
LEMMA RollbackStacks ==
    ASSUME LifecycleInv, StackInv, NEW t \in Thread, Rollback(t)
    PROVE  StackInv'
<1> USE DEF Rollback, context, modules, grpc
<1>1. /\ pc \in [Thread -> Step] /\ todo \in [Thread -> Seq(Name)] /\ ledger.stages \in Seq(Name)
      /\ pc[t] = "wait" /\ startupMu = NoOne
    BY DEF LifecycleInv, Typed
<1>2. \A r \in Thread : pc[r] \notin Holding
    BY <1>1, ThreadAssumption DEF LifecycleInv, Locked
<1>3. pc'[t] = "undo" /\ \A r \in Thread \ {t} : pc'[r] = pc[r]
    BY <1>1 DEF Goto
<1>4. PICK c \in 0..5 : Stages(c) /\ Running(c)
    BY DEF StackInv
<1>5. ledger.stages = Upto(c)
    BY <1>2, <1>4 DEF Stages, Holding, Rolling
<1>6. todo'[t] = Downfrom(c)
    BY <1>1, <1>5, DownfromFalls
<1>7. Closing'
  <2>1. ledger' = [stages |-> <<>>, closed |-> TRUE]
      OBVIOUS
  <2>2. ledger'.closed /\ ledger'.stages = <<>>
      BY <2>1
  <2>3. started => cancelled
      BY <1>1 DEF StackInv, Closing
  <2>4. once = t
      BY <1>1 DEF StackInv, Closing, Stopping
  <2>5. \A r \in Thread : pc'[r] \notin (Building \ {"startup"}) \cup {"abandon"}
      BY <1>2, <1>3 DEF Holding, Building, Early, Wiring, Wired
  <2>6. QED
      BY <1>3, <2>2, <2>3, <2>4, <2>5 DEF StackInv, Closing, Stopping, Rolling
<1>8. Served'
    BY <1>1, <1>3 DEF StackInv, Served, Unlaunched, Building, Early, Wiring, Wired, Thread
<1>9. Unrecorded' = Unrecorded
    BY <1>1, <1>3 DEF Unrecorded, Thread
<1>10. Stages(c)'
    BY <1>2, <1>3, <1>6 DEF Stages, Holding, Rolling, Building, Wired
<1>11. Running(c)'
    BY <1>4, <1>9 DEF Running
<1>12. QED
    BY <1>7, <1>8, <1>10, <1>11 DEF StackInv

LEMMA UndoStacks ==
    ASSUME LifecycleInv, StackInv, NEW t \in Thread,
           StopEEBUS(t) \/ StopHeartbeat(t) \/ CloseProviders(t) \/ Drained(t) \/ WaitForWatchdog(t)
    PROVE  StackInv'
<1> USE DEF application, modules, grpc
<1> DEFINE stage == Head(todo[t])
           Same == UNCHANGED <<ledger, started, cancelled, once, server, ready, drain, streams, watchdog>>
<1>1. CASE StopEEBUS(t)
  <2>1. pc[t] \in Rolling /\ todo[t] # <<>> /\ stage = "EEBUS" /\ Undo(t, FALSE) /\ Same /\ heartbeat' = heartbeat
      BY <1>1 DEF StopEEBUS, Undoing, Rolling, context
  <2>2. QED
      BY <2>1, Pops
<1>2. CASE StopHeartbeat(t)
  <2>1. pc[t] \in Rolling /\ todo[t] # <<>> /\ stage = "LPC" /\ Undo(t, FALSE) /\ Same /\ ~heartbeat'
      BY <1>2 DEF StopHeartbeat, Undoing, Rolling, context
  <2>2. QED
      BY <2>1, Pops
<1>3. CASE CloseProviders(t)
  <2>1. PICK failed \in SUBSET (composed \cap Provider) : Undo(t, failed # {})
      BY <1>3 DEF CloseProviders
  <2>2. pc[t] \in Rolling /\ todo[t] # <<>> /\ stage = "Providers" /\ Same /\ heartbeat' = heartbeat
      BY <1>3 DEF CloseProviders, Undoing, Rolling, context
  <2>3. (failed # {}) \in BOOLEAN
      OBVIOUS
  <2>4. QED
      BY <2>1, <2>2, <2>3, Pops
<1>4. CASE Drained(t)
  <2>1. PICK c \in 0..5 : Stages(c) /\ Running(c)
      BY DEF StackInv
  <2>2. pc[t] = "drain" /\ todo[t] = Downfrom(c) /\ c = 4
      BY <1>4, <2>1 DEF Drained, Stages, Rolling
  <2>3. todo[t] # <<>> /\ stage = "gRPC"
      BY <2>2, DownfromFalls, OrderIs
  <2>4. Undo(t, FALSE) /\ Same /\ heartbeat' = heartbeat /\ streams = {} /\ server # "serving" /\ pc[t] \in Rolling
      BY <1>4 DEF Drained, Rolling, context
  <2>5. QED
      BY <2>3, <2>4, Pops
<1>5. CASE WaitForWatchdog(t)
  <2>1. /\ pc[t] \in Rolling /\ todo[t] # <<>> /\ stage = "watchdog" /\ Same /\ heartbeat' = heartbeat
        /\ (watchdog = "ended" /\ Undo(t, FALSE)) \/ Undo(t, TRUE)
      BY <1>5 DEF WaitForWatchdog, Undoing, Rolling, context
  <2>2. QED
      BY <2>1, Pops
<1>6. QED
    BY <1>1, <1>2, <1>3, <1>4, <1>5

\* The server is told to stop: the rollback is at its stage.
LEMMA DrainStacks ==
    ASSUME LifecycleInv, StackInv, NEW t \in Thread, GracefulStop(t) \/ ForceStop(t)
    PROVE  StackInv'
<1> USE DEF context, application, modules
<1>1. /\ pc \in [Thread -> Step] /\ pc[t] \in Rolling /\ drain' \in {"graceful", "forced"}
      /\ UNCHANGED <<ledger, started, cancelled, once, up, broken, server, ready, streams, heartbeat, watchdog, todo>>
  <2>1. CASE GracefulStop(t)
      BY <2>1 DEF LifecycleInv, Typed, GracefulStop, Undoing, Rolling
  <2>2. CASE ForceStop(t)
      BY <2>2 DEF LifecycleInv, Typed, ForceStop, Rolling
  <2>3. QED
      BY <2>1, <2>2
<1>2. PICK c \in 0..5 : Stages(c) /\ Running(c)
    BY DEF StackInv
<1>3. /\ \A r \in Thread \ {t} : pc'[r] = pc[r]
      /\ pc'[t] = "drain" /\ c = 4
  <2>1. CASE GracefulStop(t)
    <3>1. pc[t] = "undo" /\ todo[t] # <<>> /\ Head(todo[t]) = "gRPC" /\ pc' = [pc EXCEPT ![t] = "drain"]
        BY <2>1 DEF GracefulStop, Undoing, Goto
    <3>2. todo[t] = Downfrom(c)
        BY <1>2, <3>1 DEF Stages, Rolling
    <3>3. c # 0
        BY <3>1, <3>2, DownfromFalls
    <3>4. Order[c] = "gRPC" /\ c \in 1..5
        BY SMTT(40), <3>1, <3>2, <3>3, DownfromFalls
    <3>5. QED
        BY <1>1, <3>1, <3>4, OrderIs
  <2>2. CASE ForceStop(t)
      BY <1>2, <2>2 DEF ForceStop, Stages
  <2>3. QED
      BY <2>1, <2>2
<1>4. Closing'
    BY <1>1, <1>3 DEF StackInv, Closing, Stopping, Rolling, Building, Early, Wiring, Wired
<1>5. Served'
    BY <1>1, <1>3 DEF StackInv, Served, Unlaunched, Rolling, Building, Early, Wiring, Wired, Thread
<1>6. Unrecorded' = Unrecorded
    BY <1>1, <1>3 DEF Unrecorded, Rolling, Thread
<1>7. Stages(c)' /\ Running(c)'
    BY <1>1, <1>2, <1>3, <1>6 DEF Stages, Running, Rolling
<1>8. QED
    BY <1>4, <1>5, <1>7 DEF StackInv

-----------------------------------------------------------------------------
(* The server, its clients and the watchdog beside the stack.              *)

\* Only in its startup does the server begin to serve.
LEMMA ServerStacks ==
    ASSUME LifecycleInv, StackInv, Listen \/ Serve \/ ServerFailure
    PROVE  StackInv'
<1> USE DEF context, application, modules
<1>1. /\ UNCHANGED <<ledger, started, cancelled, once, broken, drain, streams, heartbeat, watchdog, todo, pc>>
      /\ up \subseteq up'
    BY DEF Listen, Serve, ServerFailure
<1>2. PICK c \in 0..5 : Stages(c) /\ Running(c)
    BY DEF StackInv
<1>3. Closing' /\ Unrecorded' = Unrecorded /\ Stages(c)'
    BY <1>1, <1>2 DEF StackInv, Closing, Unrecorded, Stages
<1>4. Served'
  <2>1. CASE Listen
    <3>1. server = "launched" /\ started /\ \A s \in Starter : pc[s] \notin Unlaunched
        BY <2>1 DEF Listen, StackInv, Served
    <3>2. server' \in {"serving", "failed"} /\ (server' = "serving" => "gRPC" \in up')
        BY <2>1 DEF Listen
    <3>3. QED
        BY <1>1, <3>1, <3>2 DEF Served
  <2>2. CASE Serve \/ ServerFailure
    <3>1. server \in {"serving", "failed"} /\ server' \in {"failed", "ended"} /\ ready' = ready
        BY <2>2 DEF Serve, ServerFailure
    <3>2. QED
        BY <1>1, <3>1 DEF StackInv, Served
  <2>3. QED
      BY <2>1, <2>2
<1>5. up' \subseteq up \cup Unrecorded
  <2>1. CASE up' = up
      BY <2>1
  <2>2. CASE server = "launched" /\ drain = "no" /\ up' = up \cup {"gRPC"}
    <3>1. \E s \in Starter : pc[s] = "ready"
        BY <2>2 DEF StackInv, Served
    <3>2. QED
        BY <2>2, <3>1 DEF Unrecorded
  <2>3. QED
      BY <2>1, <2>2 DEF Listen, Serve, ServerFailure
<1>6. Running(c)'
    BY <1>1, <1>2, <1>3, <1>5 DEF Running
<1>7. QED
    BY <1>3, <1>4, <1>6 DEF StackInv

\* A call is admitted with all of the stages, and its commands come while the server is
\* there.
LEMMA ClientStacks ==
    ASSUME LifecycleInv, StackInv, NEW k \in Client, Call(k) \/ CallHeartbeat(k) \/ Hangup(k)
    PROVE  StackInv'
<1> USE DEF context, application, modules, grpc
<1>1. UNCHANGED <<ledger, started, cancelled, once, up, broken, server, ready, drain, watchdog, todo, pc>>
    BY DEF Call, CallHeartbeat, Hangup
<1>2. PICK c \in 0..5 : Stages(c) /\ Running(c)
    BY DEF StackInv
<1>3. Closing' /\ Served' /\ Unrecorded' = Unrecorded /\ Stages(c)'
    BY <1>1, <1>2 DEF StackInv, Closing, Served, Unrecorded, Stages
<1>4. serving => c = 5
  <2> SUFFICES ASSUME serving PROVE c = 5
      OBVIOUS
  <2>1. ledger.stages = Order /\ ~ledger.closed
      BY DEF LifecycleInv, GateOpen
  <2>2. \A t \in Thread : pc[t] \notin Rolling
      BY <2>1 DEF StackInv, Closing
  <2>3. Len(Order) = c
      BY <1>2, <2>1, <2>2, UptoGrows DEF Stages
  <2>4. QED
      BY <2>3, OrderIs
<1>5. /\ streams' # {} => c >= 4
      /\ heartbeat' => c >= 2
  <2>1. CASE Call(k)
      BY <1>2, <1>4, <2>1 DEF Call, Running
  <2>2. CASE CallHeartbeat(k)
      BY <1>2, <2>2 DEF CallHeartbeat, Running
  <2>3. CASE Hangup(k)
    <3>1. streams # {} /\ heartbeat' = heartbeat
        BY <2>3 DEF Hangup
    <3>2. QED
        BY <1>2, <3>1 DEF Running
  <2>4. QED
      BY <2>1, <2>2, <2>3
<1>6. Running(c)'
    BY <1>1, <1>2, <1>3, <1>5 DEF Running
<1>7. QED
    BY <1>3, <1>6 DEF StackInv

\* The watchdog runs on until it ends; a signal stops no stage by itself.
LEMMA WatchdogStacks ==
    ASSUME LifecycleInv, StackInv,
           WatchdogTick \/ HandleTick \/ RequestRestart \/ WatchdogDone \/ Signal \/ UNCHANGED vars
    PROVE  StackInv'
<1> USE DEF context, application, modules, grpc, vars
<1>1. /\ UNCHANGED <<ledger, started, cancelled, once, up, broken, server, ready, drain, streams, heartbeat, todo, pc>>
      /\ watchdog' \notin {"off", "ended"} => watchdog \notin {"off", "ended"}
    BY DEF WatchdogTick, HandleTick, RequestRestart, WatchdogDone, Signal
<1>2. PICK c \in 0..5 : Stages(c) /\ Running(c)
    BY DEF StackInv
<1>3. Closing' /\ Served' /\ Unrecorded' = Unrecorded /\ Stages(c)'
    BY <1>1, <1>2 DEF StackInv, Closing, Served, Unrecorded, Stages
<1>4. Running(c)'
    BY <1>1, <1>2, <1>3 DEF Running
<1>5. QED
    BY <1>3, <1>4 DEF StackInv

LEMMA NextStacks == LifecycleInv /\ StackInv /\ [Next]_vars => StackInv'
<1> SUFFICES ASSUME LifecycleInv, StackInv, [Next]_vars PROVE StackInv'
    OBVIOUS
<1>1. CASE \E s \in Starter : Start(s) \/ StartStep(s)
    BY <1>1, StartStacks, StartComponentsStacks, SetUpStacks, AnnounceLocalIdentityStacks, StartModuleStacks,
       LaunchStacks, WaitReadyStacks, AbandonStacks, StartWatchdogStacks, StartupMoves DEF StartStep
<1>2. CASE \E t \in Thread : StopStep(t)
    BY <1>2, StopsStack, RollbackStacks, UndoStacks, DrainStacks DEF StopStep
<1>3. CASE \E t \in Stopper : Stop(t)
    BY <1>3, StopsStack DEF Thread
<1>4. CASE Background
    BY <1>4, ServerStacks, WatchdogStacks DEF Background
<1>5. CASE WatchdogTick \/ HandleTick \/ Signal \/ UNCHANGED vars
    BY <1>5, WatchdogStacks
<1>6. CASE \E k \in Client : Call(k) \/ CallHeartbeat(k) \/ Hangup(k)
    BY <1>6, ClientStacks
<1>7. QED
    BY <1>1, <1>2, <1>3, <1>4, <1>5, <1>6 DEF Next

\* The stages are a stack, from the first of the startup to the last of the rollback
\* (lifecycle.go, add and rollback, as app.go uses them).
THEOREM StackInvariant == Spec => [](LifecycleInv /\ StackInv)
<1>1. Init => LifecycleInv /\ StackInv
    BY LifecycleInitial, StackInitial
<1>2. LifecycleInv /\ StackInv /\ [Next]_vars => (LifecycleInv /\ StackInv)'
    BY NextPreserves, NextStacks
<1>3. QED
    BY <1>1, <1>2, PTL DEF Spec

\* StackOutlives for every number of calls of Start and Stop and of clients: a component
\* runs only on those it was started on, wherever a Stop finds the startup (app.go,
\* startComponents and Stop; lifecycle.go, rollback).
THEOREM StackOutlivesAlways == Spec => []StackOutlives
<1>1. LifecycleInv /\ StackInv => StackOutlives
  <2> SUFFICES ASSUME LifecycleInv, StackInv PROVE StackOutlives
      OBVIOUS
  <2>1. PICK c \in 0..5 : Stages(c) /\ Running(c)
      BY DEF StackInv
  <2>2. \A i \in 1..5 : Order[i] \in Below(c) <=> i <= c
    <3> SUFFICES ASSUME NEW i \in 1..5 PROVE Order[i] \in Below(c) <=> i <= c
        OBVIOUS
    <3>1. ASSUME i <= c PROVE Order[i] \in Below(c)
        BY <3>1 DEF Below
    <3>2. ASSUME Order[i] \in Below(c) PROVE i <= c
      <4>1. PICK j \in 1..c : Order[i] = Order[j]
          BY <3>2 DEF Below
      <4>2. j \in 1..5
          BY <4>1
      <4>3. i = j
          BY <4>1, <4>2, OrderIs
      <4>4. QED
          BY <4>1, <4>3
    <3>3. QED
        BY <3>1, <3>2
  <2>3. ASSUME NEW i \in 1..5, NEW j \in 1..5, i < j, Order[j] \in up \ broken PROVE Order[i] \in up
    <3>1. CASE Order[j] \in Below(c)
      <4>1. j <= c
          BY <3>1, <2>2
      <4>2. i <= c
          BY <2>3, <4>1
      <4>3. QED
          BY <2>1, <2>2, <4>2 DEF Running
    <3>2. CASE Order[j] \in Unrecorded
      <4>1. j # 1
          BY <2>3
      <4>2. Order[j] # "EEBUS"
          BY <4>1, OrderIs
      <4>3. Order[j] = "gRPC" /\ \E s \in Starter : pc[s] \in {"ready", "abandon"}
          BY <3>2, <4>2 DEF Unrecorded
      <4>4. j = 4 /\ c = 3
          BY <2>1, <4>3, OrderIs DEF Stages, Thread
      <4>5. i <= c
          BY <2>3, <4>4
      <4>6. QED
          BY <2>1, <2>2, <4>5 DEF Running
    <3>3. QED
        BY <2>1, <2>3, <3>1, <3>2 DEF Running
  <2>4. streams # {} => {"EEBUS"} \cup ToSet(Starting) \subseteq up
    <3>1. ToSet(Starting) = {"LPC", "Providers"}
        BY DEF Starting, ToSet
    <3>2. streams # {} => Order[1] \in up /\ Order[2] \in up /\ Order[3] \in up
        BY <2>1, <2>2 DEF Running
    <3>3. QED
        BY <3>1, <3>2, OrderIs
  <2>5. heartbeat => "LPC" \in up
    <3>1. heartbeat => Order[2] \in up
        BY <2>1, <2>2 DEF Running
    <3>2. QED
        BY <3>1, OrderIs
  <2>6. watchdog \notin {"off", "ended"} => "EEBUS" \in up \/ "watchdog" \in broken
    <3>1. watchdog \notin {"off", "ended"} => Order[1] \in up \/ "watchdog" \in broken
        BY <2>1, <2>2 DEF Running
    <3>2. QED
        BY <3>1, OrderIs
  <2>7. QED
      BY <2>3, <2>4, <2>5, <2>6, OrderIs DEF StackOutlives
<1>2. QED
    BY <1>1, StackInvariant, PTL

\* ReturnedClean for every number of them: whoever rolls back, nobody returns from Start
\* or Stop while a stage runs whose stop did not fail (app.go, Stop and its stopOnce).
THEOREM ReturnedCleanAlways == Spec => []ReturnedClean
<1>1. LifecycleInv /\ StackInv => ReturnedClean
  <2> SUFFICES ASSUME LifecycleInv, StackInv, NEW t \in Thread, pc[t] = "returned"
               PROVE  up \subseteq broken /\ streams = {} /\ server # "serving" /\ ~heartbeat
      BY DEF ReturnedClean
  <2>1. PICK c \in 0..5 : Stages(c) /\ Running(c)
      BY DEF StackInv
  <2>2. once = "done" /\ ledger.closed /\ ledger.stages = <<>>
      BY DEF StackInv, Closing
  <2>3. \A r \in Thread : pc[r] \notin Rolling \cup ((Building \ {"startup"}) \cup {"abandon"})
      BY <2>2, ThreadAssumption DEF StackInv, Closing, Stopping
  <2>4. c = 0
      BY <2>1, <2>2, <2>3, UptoGrows DEF Stages
  <2>5. Below(c) = {} /\ Unrecorded = {}
    <3>1. Unrecorded = {}
        BY <2>3 DEF Unrecorded, Building, Early, Wired, Thread
    <3>2. QED
        BY <2>4, <3>1, UptoGrows
  <2>6. up \subseteq broken /\ streams = {} /\ ~heartbeat /\ "gRPC" \notin broken
      BY <2>1, <2>4, <2>5 DEF Running
  <2>7. QED
      BY <2>6 DEF StackInv, Served
<1>2. QED
    BY <1>1, StackInvariant, PTL

=============================================================================
