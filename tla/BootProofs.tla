------------------------------ MODULE BootProofs ------------------------------
(***************************************************************************)
(* Proofs about Boot, for every set of configurations, places and children *)
(* and every scale of durations: who listens has a configuration that      *)
(* validated, the bound number is the one that was checked, and no session *)
(* outlives what was configured.                                           *)
(***************************************************************************)
EXTENDS Boot, TLAPS

\* Phases of a process that has a configuration and has not ended.
Configured == {"configured", "built", "registered", "listening", "forking", "deaf"}

Phases == Configured \cup {"unborn", "begin", "ended"}

\* Every process has read what the search finds, or nothing.
ConfTypes ==
  /\ phase \in [Processes -> Phases]
  /\ conf \in [Processes -> Configs \cup {NoConfig}]
  /\ port \in [Processes -> Int]
  /\ \A p \in Processes : phase[p] \in Configured => conf[p] \in Configs
  /\ \A p \in Processes : phase[p] \in {"unborn", "begin"} => conf[p] = NoConfig

\* The parent goes on, and has children, with a configuration that validates only.
ParentValidated ==
  phase[Parent] \in Configured \/ (\E c \in Children : phase[c] # "unborn") =>
    conf[Parent] \in Configs /\ Errors(conf[Parent]) = {}

\* As long as nobody edits a file, all processes read the same.
SameSource == \A p \in Processes : ~edited /\ conf[p] # NoConfig => conf[p] = Found

\* Children are born to a parent that forks, which may end before them.
ChildrenOfFork ==
  \A c \in Children : phase[c] # "unborn" => phase[Parent] \in {"forking", "deaf", "ended"}

\* A bound port is the number that was asked for, or one that was picked for 0.
Answers(n, number) == IF number = 0 THEN n \in Ephemeral ELSE n = number

\* Who listens has bound what its address says.
BoundIsBindable ==
  \A p \in Processes : phase[p] = "listening" =>
     /\ Bindable(ListenAddress(conf[p].addr))
     /\ Answers(port[p], NumberOf[ListenAddress(conf[p].addr)[2]])

BootInv == /\ ConfTypes /\ ParentValidated /\ SameSource
           /\ ChildrenOfFork /\ BoundIsBindable

-----------------------------------------------------------------------------
(* The pure rules. *)

LEMMA OneOrMore == ASSUME NEW n \in Nat, n > 0 PROVE n = 1 \/ n > 1
  OBVIOUS

\* The address that is bound and the part that is checked carry one number.
LEMMA OneNumber ==
  ASSUME NEW S, NEW addr \in Seq(S), Len(addr) > 0
  PROVE  ListenAddress(addr)[2] = CheckedPart(addr)
<1>1. CASE Len(addr) = 1
  BY <1>1 DEF ListenAddress, CheckedPart
<1>2. CASE Len(addr) > 1
  BY <1>2 DEF ListenAddress, CheckedPart
<1>3. Len(addr) = 1 \/ Len(addr) > 1
  <2>1. Len(addr) \in Nat
    OBVIOUS
  <2>2. QED
    BY <2>1, OneOrMore
<1>4. QED
  BY <1>1, <1>2, <1>3

\* Multiplying by a positive number does not make a positive number smaller.
LEMMA Grows ==
  ASSUME NEW n \in Nat, NEW k \in Nat, k > 0
  PROVE  n <= n * k /\ n * k \in Nat
<1>1. PICK j \in Nat : k = j + 1
  BY k - 1 \in Nat, k = (k - 1) + 1
<1>2. n * k = n * j + n /\ n * j \in Nat
  BY <1>1
<1>3. QED
  BY <1>2

\* The lifetime of a session is bounded by its seconds.
LEMMA LifetimeBounded ==
  ASSUME NEW raw \in Int, raw > 0
  PROVE  Lifetime(raw) <= raw * Second
<1> USE BootAssumption
<1>1. raw \in Nat /\ raw # 0 /\ Second > 0
  OBVIOUS
<1>2. raw <= raw * Second /\ raw * Second \in Nat
  BY <1>1, Grows
<1>3. CASE raw < Threshold
  <2>1. Expiration(raw) = raw * Second
    BY <1>1, <1>3 DEF Expiration
  <2>2. (raw * Second) \div Second = raw
    BY <1>1
  <2>3. QED
    BY <1>1, <1>2, <2>1, <2>2 DEF Lifetime
<1>4. CASE ~(raw < Threshold)
  <2>1. Expiration(raw) = raw /\ Day <= raw
    BY <1>1, <1>4 DEF Expiration
  <2>2. Day * Second <= raw * Second
    <3>1. PICK d \in Nat : raw = Day + d
      BY <2>1, raw - Day \in Nat, raw = Day + (raw - Day)
    <3>2. raw * Second = Day * Second + d * Second /\ d * Second \in Nat
      BY <3>1
    <3>3. QED
      BY <3>2
  <2>3. QED
    BY <1>1, <1>2, <2>1, <2>2 DEF Lifetime
<1>5. QED
  BY <1>3, <1>4

-----------------------------------------------------------------------------
(* The invariant. *)

LEMMA FoundUnchanged == ASSUME disk' = disk PROVE Found' = Found
  BY DEF Found

LEMMA InitInv == Init => BootInv
<1> SUFFICES ASSUME Init PROVE BootInv
  OBVIOUS
<1> USE BootAssumption DEF Init, Processes
<1>1. ConfTypes
  BY DEF ConfTypes, Phases, Configured
<1>2. ParentValidated /\ SameSource /\ BoundIsBindable
  BY DEF ParentValidated, SameSource, BoundIsBindable, Configured
<1>3. ChildrenOfFork
  BY DEF ChildrenOfFork
<1>4. QED
  BY <1>1, <1>2, <1>3 DEF BootInv

\* A process reads its configuration.
LEMMA LoadInv ==
  ASSUME BootInv, NEW p \in Processes, Load(p)
  PROVE  BootInv'
<1> USE BootAssumption DEF BootInv, Load, Goto
<1>1. Found' = Found
  BY FoundUnchanged
<1>2. ConfTypes'
  BY DEF ConfTypes, Phases, Configured
<1>3. ParentValidated'
  BY DEF ConfTypes, ParentValidated, Configured, Processes
<1>4. SameSource'
  BY <1>1 DEF ConfTypes, SameSource
<1>5. ChildrenOfFork'
  BY DEF ConfTypes, ChildrenOfFork, Processes
<1>6. BoundIsBindable'
  BY DEF ConfTypes, BoundIsBindable
<1>7. QED
  BY <1>2, <1>3, <1>4, <1>5, <1>6

\* It builds its session store.
LEMMA BuildStoreInv ==
  ASSUME BootInv, NEW p \in Processes, BuildStore(p)
  PROVE  BootInv'
<1> USE BootAssumption DEF BootInv, BuildStore, Goto
<1>1. Found' = Found
  BY FoundUnchanged
<1>2. ConfTypes'
  BY DEF ConfTypes, Phases, Configured
<1>3. ParentValidated'
  BY DEF ConfTypes, ParentValidated, Configured, Processes
<1>4. SameSource'
  BY <1>1 DEF SameSource
<1>5. ChildrenOfFork'
  BY DEF ConfTypes, ChildrenOfFork, Processes
<1>6. BoundIsBindable'
  BY DEF ConfTypes, BoundIsBindable
<1>7. QED
  BY <1>2, <1>3, <1>4, <1>5, <1>6

\* It registers its middleware.
LEMMA RegisterInv ==
  ASSUME BootInv, NEW p \in Processes, Register(p)
  PROVE  BootInv'
<1> USE BootAssumption DEF BootInv, Register, Goto
<1>1. Found' = Found
  BY FoundUnchanged
<1>2. ConfTypes'
  BY DEF ConfTypes, Phases, Configured
<1>3. ParentValidated'
  BY DEF ConfTypes, ParentValidated, Configured, Processes
<1>4. SameSource'
  BY <1>1 DEF SameSource
<1>5. ChildrenOfFork'
  BY DEF ConfTypes, ChildrenOfFork, Processes
<1>6. BoundIsBindable'
  BY DEF ConfTypes, BoundIsBindable
<1>7. QED
  BY <1>2, <1>3, <1>4, <1>5, <1>6

\* Its listener binds, or logs.
LEMMA ListenInv ==
  ASSUME BootInv, NEW p \in Processes, Listen(p)
  PROVE  BootInv'
<1> USE BootAssumption DEF BootInv, Listen, Goto
<1> DEFINE addr == ListenAddress(conf[p].addr)
<1>1. Found' = Found
  BY FoundUnchanged
<1>2. \/ /\ Bindable(addr)
         /\ \E n \in Int : /\ Answers(n, NumberOf[addr[2]])
                          /\ port' = [port EXCEPT ![p] = n]
         /\ phase' = [phase EXCEPT ![p] = "listening"]
      \/ phase' = [phase EXCEPT ![p] = "deaf"] /\ port' = port
  BY DEF Bindable, Ports, Answers
<1>3. /\ phase[p] = "registered" /\ conf[p] \in Configs
      /\ UNCHANGED <<disk, edited, conf>>
  BY DEF ConfTypes, Configured
<1> HIDE DEF Listen
<1>4. ConfTypes'
  BY <1>2, <1>3 DEF ConfTypes, Phases, Configured
<1>5. ParentValidated'
  BY <1>2, <1>3 DEF ConfTypes, ParentValidated, Configured, Processes
<1>6. SameSource'
  BY <1>1, <1>3 DEF SameSource
<1>7. ChildrenOfFork'
  BY <1>2, <1>3 DEF ConfTypes, ChildrenOfFork, Processes
<1>8. BoundIsBindable'
  <2> SUFFICES ASSUME NEW q \in Processes, phase'[q] = "listening"
               PROVE  /\ Bindable(ListenAddress(conf'[q].addr))
                      /\ Answers(port'[q], NumberOf[ListenAddress(conf'[q].addr)[2]])
    BY DEF BoundIsBindable
  <2>1. CASE q = p
    BY <1>2, <1>3, <2>1 DEF ConfTypes
  <2>2. CASE q # p
    BY <1>2, <1>3, <2>2 DEF ConfTypes, BoundIsBindable
  <2>3. QED
    BY <2>1, <2>2
<1>9. QED
  BY <1>4, <1>5, <1>6, <1>7, <1>8

\* The parent starts children, or cannot.
LEMMA ForkInv == BootInv /\ Fork => BootInv'
<1> SUFFICES ASSUME BootInv, Fork PROVE BootInv'
  OBVIOUS
<1> USE BootAssumption DEF BootInv, Fork, Goto
<1>1. Found' = Found
  BY FoundUnchanged
<1>2. \A c \in Children : phase[c] = "unborn"
  BY DEF ChildrenOfFork
<1>3. ConfTypes'
  BY <1>2 DEF ConfTypes, Phases, Configured, Processes
<1>4. ParentValidated'
  BY DEF ConfTypes, ParentValidated, Configured, Processes
<1>5. SameSource'
  BY <1>1 DEF SameSource
<1>6. ChildrenOfFork'
  BY <1>2 DEF ConfTypes, ChildrenOfFork, Processes
<1>7. BoundIsBindable'
  BY DEF ConfTypes, BoundIsBindable, Processes
<1>8. QED
  BY <1>3, <1>4, <1>5, <1>6, <1>7

\* A child has ended, and the others with it.
LEMMA ReapInv == BootInv /\ Reap => BootInv'
<1> SUFFICES ASSUME BootInv, Reap PROVE BootInv'
  OBVIOUS
<1> USE BootAssumption DEF BootInv, Reap
<1>1. Found' = Found
  BY FoundUnchanged
<1>2. ConfTypes'
  BY DEF ConfTypes, Phases, Configured, Processes
<1>3. ParentValidated'
  BY DEF ConfTypes, ParentValidated, Configured, Processes
<1>4. SameSource'
  BY <1>1 DEF SameSource
<1>5. ChildrenOfFork' /\ BoundIsBindable'
  BY DEF ChildrenOfFork, BoundIsBindable, Processes
<1>6. QED
  BY <1>2, <1>3, <1>4, <1>5

\* A process ends that has a configuration, or is a child.
LEMMA EndInv ==
  ASSUME BootInv, NEW p \in Processes, p # Parent \/ phase[p] # "begin", End(p),
         phase[p] # "unborn" \/ phase[Parent] = "forking", UNCHANGED <<disk, edited, conf>>
  PROVE  BootInv'
<1> USE BootAssumption DEF BootInv, End, Goto
<1>1. Found' = Found /\ Parent \in Processes /\ Children \subseteq Processes
  BY FoundUnchanged DEF Processes
<1>2. ConfTypes'
  BY DEF ConfTypes, Phases, Configured
<1>3. ParentValidated'
  BY <1>1 DEF ConfTypes, ParentValidated, Configured
<1>4. SameSource'
  BY <1>1 DEF SameSource
<1>5. ChildrenOfFork'
  BY <1>1 DEF ConfTypes, ChildrenOfFork
<1>6. BoundIsBindable'
  BY DEF ConfTypes, BoundIsBindable
<1>7. QED
  BY <1>2, <1>3, <1>4, <1>5, <1>6

\* The rest of the start hook passes, or ends its process.
LEMMA FinishStartInv ==
  ASSUME BootInv, NEW p \in Processes, FinishStart(p)
  PROVE  BootInv'
<1>1. CASE End(p)
  BY <1>1, EndInv DEF FinishStart
<1>2. CASE UNCHANGED <<phase, port>>
  <2>1. Found' = Found
    BY FoundUnchanged DEF FinishStart
  <2>2. QED
    BY <1>2, <2>1 DEF FinishStart, BootInv, ConfTypes, ParentValidated, SameSource,
                      ChildrenOfFork, BoundIsBindable
<1>3. QED
  BY <1>1, <1>2 DEF FinishStart

\* A child dies, or notices that its parent is gone.
LEMMA ChildEndInv ==
  ASSUME BootInv, NEW c \in Children, Orphaned(c) \/ Crash(c)
  PROVE  BootInv'
<1>1. c \in Processes /\ c # Parent
  BY BootAssumption DEF Processes
<1>2. phase[c] # "unborn" \/ phase[Parent] = "forking"
  BY DEF Orphaned, Crash
<1>3. QED
  BY <1>1, <1>2, EndInv DEF Orphaned, Crash

\* An operator edits a file.
LEMMA EditInv == BootInv /\ Edit => BootInv'
  BY DEF BootInv, Edit, ConfTypes, ParentValidated, SameSource, ChildrenOfFork,
         BoundIsBindable

LEMMA StutterInv == BootInv /\ UNCHANGED vars => BootInv'
<1> SUFFICES ASSUME BootInv, UNCHANGED vars PROVE BootInv'
  OBVIOUS
<1>1. Found' = Found
  BY FoundUnchanged DEF vars
<1>2. QED
  BY <1>1 DEF BootInv, vars, ConfTypes, ParentValidated, SameSource, ChildrenOfFork,
              BoundIsBindable

LEMMA Invariance == FairSpec => []BootInv
<1>1. ASSUME BootInv, [Next]_vars PROVE BootInv'
  <2>1. CASE UNCHANGED vars
    BY <1>1, <2>1, StutterInv
  <2>2. CASE Next
    <3>1. CASE \E p \in Processes : Boots(p) \/ FinishStart(p)
      BY <1>1, <3>1, LoadInv, BuildStoreInv, RegisterInv, ListenInv, FinishStartInv DEF Boots
    <3>2. CASE Fork \/ Reap \/ Edit
      BY <1>1, <3>2, ForkInv, ReapInv, EditInv
    <3>3. CASE \E c \in Children : Orphaned(c) \/ Crash(c)
      BY <1>1, <3>3, ChildEndInv
    <3>4. QED
      BY <2>2, <3>1, <3>2, <3>3 DEF Next
  <2>3. QED
    BY <1>1, <2>1, <2>2
<1>2. QED
  BY <1>1, InitInv, PTL DEF FairSpec

-----------------------------------------------------------------------------
(* What follows. *)

\* Whoever listens has the configuration that validated, unless it is a child of
\* a parent after whose start a file was edited (config.go:295-315).
THEOREM ListenersAreValidated == FairSpec => []ListenersValidated
<1>1. ASSUME BootInv PROVE ListenersValidated
  <2> SUFFICES ASSUME NEW p \in Processes, NEW q \in Processes,
                      phase[p] = "listening", phase[q] = "listening",
                      ~(edited /\ Parent \notin {p, q})
               PROVE  conf[p] = conf[q] /\ Errors(conf[p]) = {}
    BY DEF ListenersValidated
  <2> USE <1>1, BootAssumption DEF BootInv
  <2>1. Parent \in Processes /\ \A r \in Processes : r = Parent \/ r \in Children
    BY DEF Processes
  <2>2. CASE Parent \in {p, q}
    <3>1. p = Parent /\ q = Parent
      BY <2>1, <2>2 DEF ChildrenOfFork
    <3>2. QED
      BY <3>1 DEF ParentValidated, Configured
  <2>3. CASE Parent \notin {p, q}
    <3>1. ~edited /\ p \in Children
      BY <2>1, <2>3
    <3>2. conf[Parent] \in Configs /\ Errors(conf[Parent]) = {}
      BY <3>1 DEF ParentValidated
    <3>3. conf[p] \in Configs /\ conf[q] \in Configs
      BY DEF ConfTypes, Configured
    <3>4. conf[p] = Found /\ conf[q] = Found /\ conf[Parent] = Found
      BY <2>1, <3>1, <3>2, <3>3 DEF SameSource
    <3>5. QED
      BY <3>2, <3>4
  <2>4. QED
    BY <2>2, <2>3
<1>2. QED
  BY <1>1, Invariance, PTL

\* The number that is bound is the number that Validate looked at, or one picked for
\* 0, whatever the address looks like (config.go:176-180, webserver.go:83-86).
THEOREM BoundPortChecked == FairSpec => []BoundPortIsChecked
<1>1. ASSUME BootInv PROVE BoundPortIsChecked
  <2> SUFFICES ASSUME NEW p \in Processes, phase[p] = "listening"
               PROVE  Answers(port[p], NumberOf[CheckedPart(conf[p].addr)])
    BY DEF BoundPortIsChecked, Answers
  <2>1. conf[p] \in Configs
    BY <1>1 DEF BootInv, ConfTypes, Configured
  <2>2. conf[p].addr \in Seq(DOMAIN NumberOf) /\ Len(conf[p].addr) > 0
    BY <2>1, BootAssumption DEF IsConfig
  <2>3. QED
    BY <1>1, <2>2, OneNumber DEF BootInv, BoundIsBindable
<1>2. QED
  BY <1>1, Invariance, PTL

\* No session outlives the configured seconds, for every scale of seconds, days
\* and the threshold between them (session.go:49-55).
THEOREM SessionsEndInTime == FairSpec => []LifetimeNeverLonger
<1>1. ASSUME BootInv PROVE LifetimeNeverLonger
  <2> SUFFICES ASSUME NEW p \in Processes,
                      phase[p] \in {"built", "registered", "listening", "forking", "deaf"},
                      conf[p].session.expiration > 0
               PROVE  Lifetime(conf[p].session.expiration)
                        <= conf[p].session.expiration * Second
    BY DEF LifetimeNeverLonger
  <2>1. conf[p] \in Configs
    BY <1>1 DEF BootInv, ConfTypes, Configured
  <2>2. conf[p].session.expiration \in Int
    BY <2>1, BootAssumption DEF IsConfig
  <2>3. QED
    BY <2>2, LifetimeBounded
<1>2. QED
  BY <1>1, Invariance, PTL

-----------------------------------------------------------------------------
(* Types: a process has a number bound as long as it listens. *)

DiskTypes == disk \in [Places -> Files] /\ edited \in BOOLEAN

PortOfListener == \A p \in Processes : port[p] # NotANumber <=> phase[p] = "listening"

LEMMA DiskStep == ASSUME DiskTypes, [Next]_vars PROVE DiskTypes'
<1>1. CASE UNCHANGED <<disk, edited>>
  BY <1>1 DEF DiskTypes
<1>2. CASE Edit
  BY <1>2, BootAssumption DEF DiskTypes, Edit
<1>3. QED
  BY <1>1, <1>2 DEF Next, Boots, Load, BuildStore, Register, Listen, FinishStart, Fork,
                     Reap, Orphaned, Crash, vars

LEMMA PortStep == ASSUME BootInv, PortOfListener, [Next]_vars PROVE PortOfListener'
<1> USE BootAssumption DEF PortOfListener, Goto
<1>1. /\ phase \in [Processes -> Phases] /\ port \in [Processes -> Int]
  BY DEF BootInv, ConfTypes
<1>2. \A c \in Children :
        phase[c] # "unborn" => phase[Parent] \in {"forking", "deaf", "ended"}
  BY DEF BootInv, ChildrenOfFork
<1>3. Parent \in Processes /\ Children \subseteq Processes /\ Parent \notin Children
      /\ \A p \in Processes : p = Parent \/ p \in Children
  BY DEF Processes
<1>4. ASSUME NEW p \in Processes, Load(p) \/ BuildStore(p) \/ Register(p)
      PROVE  PortOfListener'
  BY <1>1, <1>4 DEF Load, BuildStore, Register
<1>5. ASSUME NEW p \in Processes, Listen(p) PROVE PortOfListener'
  <2>1. PICK addr : addr = ListenAddress(conf[p].addr)
    OBVIOUS
  <2>2. phase[p] = "registered"
    BY <1>5 DEF Listen
  <2>3. \/ /\ \E n \in 0..MaxPort : port' = [port EXCEPT ![p] = n]
           /\ phase' = [phase EXCEPT ![p] = "listening"]
        \/ phase' = [phase EXCEPT ![p] = "deaf"] /\ UNCHANGED port
    BY <1>5, <2>1 DEF Listen, Bindable, Ports
  <2>4. CASE phase' = [phase EXCEPT ![p] = "listening"]
    <3>1. PICK n \in 0..MaxPort : port' = [port EXCEPT ![p] = n]
      BY <1>1, <2>3, <2>4
    <3>2. n # NotANumber
      BY <3>1
    <3> QED
      BY <1>1, <2>4, <3>1, <3>2
  <2>5. CASE phase' = [phase EXCEPT ![p] = "deaf"] /\ UNCHANGED port
    BY <1>1, <2>2, <2>5
  <2> QED
    BY <2>3, <2>4, <2>5
<1>6. CASE Fork
  BY <1>1, <1>2, <1>3, <1>6 DEF Fork
<1>7. CASE Reap
  BY <1>1, <1>3, <1>7 DEF Reap
<1>8. ASSUME NEW p \in Processes, End(p) PROVE PortOfListener'
  BY <1>1, <1>8 DEF End
<1>9. CASE Edit \/ UNCHANGED vars \/ \E p \in Processes : FinishStart(p) /\ ~End(p)
  BY <1>9 DEF Edit, vars, FinishStart
<1>10. QED
  BY <1>3, <1>4, <1>5, <1>6, <1>7, <1>8, <1>9 DEF Next, Boots, Orphaned, Crash

StartedTypes == started \subseteq Processes

LEMMA StartedStep == ASSUME StartedTypes, [Next]_vars PROVE StartedTypes'
<1>1. CASE \E p \in Processes : FinishStart(p)
  BY <1>1 DEF FinishStart, StartedTypes
<1>2. CASE UNCHANGED started
  BY <1>2 DEF StartedTypes
<1>3. QED
  BY <1>1, <1>2 DEF Next, Boots, Load, BuildStore, Register, Listen, Fork, Reap, Orphaned, Crash,
                    Edit, vars

\* The files, the phases and the configurations have their types, and a port is
\* bound by those who listen and by nobody else.
THEOREM TypeCorrect == FairSpec => []TypeOK
<1>1. ASSUME Init PROVE DiskTypes /\ PortOfListener /\ StartedTypes
  BY <1>1, BootAssumption DEF Init, DiskTypes, PortOfListener, StartedTypes, Processes
<1>2. ASSUME BootInv, DiskTypes, PortOfListener, StartedTypes PROVE TypeOK
  BY <1>2 DEF BootInv, ConfTypes, DiskTypes, PortOfListener, StartedTypes, TypeOK, Phases,
              Configured
<1>3. QED
  BY <1>1, <1>2, DiskStep, PortStep, StartedStep, Invariance, PTL DEF FairSpec
=============================================================================
