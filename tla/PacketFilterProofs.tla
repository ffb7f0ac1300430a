-------------------------- MODULE PacketFilterProofs --------------------------
(* Theorems about PacketFilter, for any number of contexts and users, any  *)
(* bound and any resources that may fail.                                  *)
EXTENDS PacketFilter, FiniteSetTheorems, TLAPS

-----------------------------------------------------------------------------
(* Types.                                                                  *)

\* A reset goes through six counters.
LEMMA ResetOrderLen == Len(ResetOrder) = 6 /\ \A i \in 1 .. 6 : ResetOrder[i] \in Counter
  BY DEF ResetOrder, Counter

\* The part of TypeOK about the module.
ModuleTypes ==
  /\ phase \in {"absent", "loading", "loaded", "stopping", "releasing"}
  /\ step \in Resource \cup {"none"}
  /\ leaving \in BOOLEAN
  /\ acquired \subseteq Resource
  /\ pf_dev \in BOOLEAN
  /\ open \subseteq Users
  /\ met \subseteq Users

\* The part about the threads.
ThreadTypes ==
  /\ pc \in [Threads -> PacketLabel \cup UserLabel]
  /\ \A c \in Contexts : pc[c] \in PacketLabel
  /\ \A u \in Users : pc[u] \in UserLabel
  /\ outcome \in [Contexts -> Outcome]
  /\ next \in [Users -> 1 .. Len(ResetOrder)]

\* The part about what both share.
SharedTypes ==
  /\ enabled \in BOOLEAN
  /\ stats \in [Counter -> Nat]
  /\ disturbed \in BOOLEAN

\* TypeOK falls into these three parts, here and in the next state.
LEMMA TypeParts == TypeOK <=> ModuleTypes /\ ThreadTypes /\ SharedTypes
  BY DEF TypeOK, ModuleTypes, ThreadTypes, SharedTypes

\* The same, primed.
LEMMA TypePartsNext == TypeOK' <=> ModuleTypes' /\ ThreadTypes' /\ SharedTypes'
  BY DEF TypeOK, ModuleTypes, ThreadTypes, SharedTypes

\* A context that moves to a label of a packet keeps the types of threads.
LEMMA PacketGoto ==
  ASSUME ThreadTypes, NEW c \in Contexts, NEW l \in PacketLabel, Goto(c, l),
         outcome' \in [Contexts -> Outcome], next' = next
  PROVE  ThreadTypes'
<1>1. c \in Threads /\ \A u \in Users : u # c
  BY ThreadsAssumption DEF Threads
<1> QED
  BY <1>1 DEF ThreadTypes, Goto, Threads

\* The same for a user and a label of an ioctl.
LEMMA UserGoto ==
  ASSUME ThreadTypes, NEW u \in Users, NEW l \in UserLabel, Goto(u, l),
         outcome' = outcome, next' \in [Users -> 1 .. Len(ResetOrder)]
  PROVE  ThreadTypes'
<1>1. u \in Threads /\ \A c \in Contexts : u # c
  BY ThreadsAssumption DEF Threads
<1> QED
  BY <1>1 DEF ThreadTypes, Goto, Threads

\* Counting keeps the counters natural.
LEMMA CountUp ==
  ASSUME stats \in [Counter -> Nat], NEW o \in Counter,
         stats' = [stats EXCEPT ![o] = @ + 1]
  PROVE  stats' \in [Counter -> Nat]
  OBVIOUS

\* What pf_init holds when it is about to acquire r.
Before(r) == CASE r = "region" -> {"memory"}
               [] r = "cdev"   -> {"memory", "region"}
               [] r = "class"  -> {"memory", "region", "cdev"}
               [] r = "device" -> {"memory", "region", "cdev", "class"}
               [] r = "none"   -> Resource

\* What is held when r is the next to be given back.
DownFrom(r) == CASE r = "device" -> Resource
                 [] r = "class"  -> {"memory", "region", "cdev", "class"}
                 [] r = "cdev"   -> {"memory", "region", "cdev"}
                 [] r = "region" -> {"memory", "region"}
                 [] r = "memory" -> {"memory"}
                 [] r = "none"   -> {}

\* At every step of pf_init and pf_exit exactly the resources below it are held.
ModuleShape ==
  /\ phase = "absent" => acquired = {} /\ ~ pf_dev /\ ~ leaving
  /\ phase # "absent" => pf_dev
  /\ phase = "loading" => step # "memory" /\ acquired = Before(step) /\ ~ leaving
  /\ phase = "loaded" => acquired = Resource /\ ~ leaving
  /\ phase = "stopping" => acquired = Resource /\ leaving
  /\ phase = "releasing" => acquired = DownFrom(step)

\* Every step of pf_init and pf_exit keeps the shape: each goto label gives
\* back what was acquired before the failure and nothing else.
LEMMA ShapeModule ==
  ASSUME ModuleTypes, ModuleShape, Module
  PROVE  ModuleTypes' /\ ModuleShape'
<1> USE DEF ModuleTypes, ModuleShape
<1>1. CASE BeginInit
  BY <1>1 DEF BeginInit, Before, Resource
<1>2. CASE Acquire
  <2>1. step \in {"region", "cdev", "class", "device"}
    BY <1>2 DEF Acquire, Resource
  <2> QED
    BY <1>2, <2>1 DEF Acquire, Before, Following, Resource
<1>3. CASE FailToAcquire
  <2>1. step \in {"region", "cdev", "class", "device"}
    BY <1>3, FaultsAssumption DEF FailToAcquire, Resource
  <2> QED
    BY <1>3, <2>1 DEF FailToAcquire, ErrorLabel, Before, DownFrom, Resource
<1>4. CASE EndInit
  BY <1>4 DEF EndInit, Before
<1>5. CASE BeginExit
  BY <1>5 DEF BeginExit
<1>6. CASE StopFiltering
  BY <1>6 DEF StopFiltering, DownFrom, Resource
<1>7. CASE Release
  BY <1>7 DEF Release, Below, DownFrom, Resource
<1>8. CASE Forget
  BY <1>8 DEF Forget, DownFrom
<1> QED
  BY <1>1, <1>2, <1>3, <1>4, <1>5, <1>6, <1>7, <1>8 DEF Module

\* Threads leave the module alone, but for the files they open and close.
Bystander ==
  /\ UNCHANGED <<phase, step, leaving, acquired, pf_dev>>
  /\ open' \subseteq Users
  /\ met' \subseteq Users

\* No thread disturbs the shape.
LEMMA ShapeThreads ==
  ASSUME ModuleTypes, ModuleShape, Bystander
  PROVE  ModuleTypes' /\ ModuleShape'
  BY DEF Bystander, ModuleTypes, ModuleShape, Before, DownFrom

UserNext   == \E u \in Users : Open(u) \/ Close(u) \/ Ioctl(u) \/ UserStep(u)
PacketNext == \E c \in Contexts : Receive(c) \/ PacketStep(c)
FaultNext  == \E t \in Threads : UseAfterFree(t)

\* The next-state relation by actors.
LEMMA NextParts == Next <=> Module \/ UserNext \/ PacketNext \/ FaultNext
  BY DEF Next, UserNext, PacketNext, FaultNext

\* Users and packets are bystanders of the module.
LEMMA BystanderNext == ModuleTypes /\ (UserNext \/ PacketNext \/ FaultNext) => Bystander
<1> SUFFICES ASSUME ModuleTypes, UserNext \/ PacketNext \/ FaultNext PROVE Bystander
  OBVIOUS
<1> USE DEF ModuleTypes, Bystander, moduleVars
<1>1. CASE UserNext
  BY <1>1 DEF UserNext, UserStep, Open, Close, Ioctl, Enable, Disable, ResetCounter
<1>2. CASE PacketNext
  BY <1>2 DEF PacketNext, PacketStep, Receive, Look, Enter, Relook, Count,
              CountReceived, Note, Record, CountDecision
<1>3. CASE FaultNext
  BY <1>3 DEF FaultNext, UseAfterFree
<1> QED
  BY <1>1, <1>2, <1>3

-----------------------------------------------------------------------------
(* The threads' part of the types.                                         *)

\* Users keep the types of threads; a reset stays within its counters.
LEMMA ThreadsUser ==
  ASSUME TypeOK, UserNext
  PROVE  ThreadTypes' /\ SharedTypes'
<1> USE TypeParts DEF SharedTypes
<1>1. PICK u \in Users : Open(u) \/ Close(u) \/ Ioctl(u) \/ UserStep(u)
  BY DEF UserNext
<1>2. CASE Open(u) \/ Close(u)
  BY <1>2 DEF Open, Close, ThreadTypes, threadVars
<1>3. CASE Ioctl(u)
  <2>1. PICK l \in {"enabling", "disabling", "resetting"} : Goto(u, l)
    BY <1>3 DEF Ioctl
  <2>2. l \in UserLabel
    BY DEF UserLabel
  <2>3. next' \in [Users -> 1 .. Len(ResetOrder)]
    BY <1>3, ResetOrderLen DEF Ioctl, ThreadTypes
  <2> QED
    BY <1>3, <2>1, <2>2, <2>3, UserGoto DEF Ioctl
<1>4. CASE Enable(u) \/ Disable(u)
  <2>1. "idle" \in UserLabel
    BY DEF UserLabel
  <2>2. next' \in [Users -> 1 .. Len(ResetOrder)]
    BY <1>4 DEF Enable, Disable, ThreadTypes
  <2> QED
    BY <1>4, <2>1, <2>2, UserGoto DEF Enable, Disable
<1>5. CASE ResetCounter(u)
  <2>1. stats' \in [Counter -> Nat] /\ disturbed' = TRUE /\ enabled' = enabled
    BY <1>5 DEF ResetCounter
  <2>2. CASE next[u] < Len(ResetOrder)
    <3>1. next' \in [Users -> 1 .. Len(ResetOrder)]
      BY <1>5, <2>2, ResetOrderLen DEF ResetCounter, ThreadTypes
    <3> QED
      BY <1>5, <2>1, <2>2, <3>1 DEF ResetCounter, ThreadTypes
  <2>3. CASE ~ next[u] < Len(ResetOrder)
    <3>1. "idle" \in UserLabel /\ next' \in [Users -> 1 .. Len(ResetOrder)]
      BY <1>5, <2>3 DEF ResetCounter, ThreadTypes, UserLabel
    <3> QED
      BY <1>5, <2>1, <2>3, <3>1, UserGoto DEF ResetCounter
  <2> QED
    BY <2>2, <2>3
<1> QED
  BY <1>1, <1>2, <1>3, <1>4, <1>5 DEF UserStep

\* So do packets.
LEMMA ThreadsPacket ==
  ASSUME TypeOK, PacketNext
  PROVE  ThreadTypes' /\ SharedTypes'
<1> USE TypeParts DEF SharedTypes
<1>1. PICK c \in Contexts : Receive(c) \/ PacketStep(c)
  BY DEF PacketNext
<1>2. outcome \in [Contexts -> Outcome] /\ outcome[c] \in Counter /\ "received" \in Counter
  BY DEF ThreadTypes, Outcome, Counter
<1>3. {"idle", "look", "enter", "relook", "count", "counting", "record",
       "recording", "noting"} \subseteq PacketLabel
  BY DEF PacketLabel
<1>4. CASE Receive(c)
  BY <1>2, <1>3, <1>4, PacketGoto DEF Receive
<1>5. CASE Look(c) \/ Enter(c) \/ Relook(c)
  BY <1>2, <1>3, <1>5, PacketGoto DEF Look, Enter, Relook
<1>6. ASSUME Judge(c), UNCHANGED next PROVE ThreadTypes'
  BY <1>2, <1>3, <1>6, PacketGoto DEF Judge
<1>7. CASE Count(c)
  BY <1>2, <1>3, <1>6, <1>7, PacketGoto DEF Count
<1>8. CASE CountReceived(c)
  BY <1>2, <1>6, <1>8, CountUp DEF CountReceived
<1>9. CASE Note(c) \/ CountDecision(c)
  BY <1>2, <1>3, <1>9, CountUp, PacketGoto DEF Note, CountDecision
<1>10. CASE Record(c)
  BY <1>2, <1>3, <1>10, PacketGoto DEF Record
<1> QED
  BY <1>1, <1>4, <1>5, <1>7, <1>8, <1>9, <1>10 DEF PacketStep

\* So does a use after free.
LEMMA ThreadsFault ==
  ASSUME TypeOK, FaultNext
  PROVE  ThreadTypes' /\ SharedTypes'
<1> USE TypeParts
<1>1. PICK t \in Threads : UseAfterFree(t)
  BY DEF FaultNext
<1>2. "fault" \in PacketLabel /\ "fault" \in UserLabel
  BY DEF PacketLabel, UserLabel
<1>3. outcome' \in [Contexts -> Outcome] /\ next' \in [Users -> 1 .. Len(ResetOrder)]
      /\ outcome' = outcome /\ next' = next
  BY <1>1 DEF UseAfterFree, ThreadTypes
<1>4. SharedTypes'
  BY <1>1 DEF UseAfterFree, SharedTypes
<1> QED
  BY <1>1, <1>2, <1>3, <1>4, PacketGoto, UserGoto DEF UseAfterFree, Threads

\* So do pf_init and pf_exit.
LEMMA ThreadsModule ==
  ASSUME TypeOK, Module
  PROVE  ThreadTypes' /\ SharedTypes'
<1>1. Zero \in [Counter -> Nat]
  BY DEF Zero
<1> QED
  BY <1>1, TypeParts DEF Module, BeginInit, Acquire, FailToAcquire, EndInit, BeginExit,
     StopFiltering, Release, Forget, threadVars, ThreadTypes, SharedTypes

-----------------------------------------------------------------------------
(* The inductive invariant of the module and its threads.                  *)

\* pf_exit runs alone: with no file open and no ioctl anywhere in the driver.
\* Whoever holds a file while a structure is given up met a failing pf_init.
UsersHoldFiles ==
  /\ leaving => open = {}
  /\ \A u \in Users : pc[u] \in {"enabling", "disabling", "resetting"} => u \in open
  /\ leaving /\ phase = "releasing" => enabled = FALSE
  /\ phase \in {"absent", "releasing"} => open \subseteq met
  /\ \A u \in Users : pc[u] = "fault" => u \in met

DriverInv == TypeOK /\ ModuleShape /\ UsersHoldFiles

\* The invariant holds of the absent module.
LEMMA DriverInit == Init => DriverInv
<1> SUFFICES ASSUME Init PROVE DriverInv
  OBVIOUS
<1>1. ModuleTypes /\ ModuleShape
  BY DEF Init, ModuleTypes, ModuleShape, Resource
<1>2. SharedTypes
  BY DEF Init, SharedTypes, Zero
<1>3. ThreadTypes
  <2>1. pc = [t \in Threads |-> "idle"] /\ "idle" \in PacketLabel /\ "idle" \in UserLabel
    BY DEF Init, PacketLabel, UserLabel
  <2>2. outcome \in [Contexts -> Outcome]
    BY DEF Init, Outcome, Counter
  <2>3. next \in [Users -> 1 .. Len(ResetOrder)]
    BY ResetOrderLen DEF Init
  <2> QED
    BY <2>1, <2>2, <2>3 DEF ThreadTypes, Threads
<1>4. UsersHoldFiles
  BY DEF Init, UsersHoldFiles, Threads
<1> QED
  BY <1>1, <1>2, <1>3, <1>4, TypeParts DEF DriverInv

\* Where a file is needed to go on, or its absence is.
LEMMA UsersStep == DriverInv /\ [Next]_vars => UsersHoldFiles'
<1> SUFFICES ASSUME DriverInv, [Next]_vars PROVE UsersHoldFiles'
  OBVIOUS
<1>0. ModuleTypes /\ ThreadTypes /\ SharedTypes /\ ModuleShape /\ UsersHoldFiles
  BY TypeParts DEF DriverInv
<1>1. CASE Module
  <2>1. pc' = pc
    BY <1>1 DEF Module, BeginInit, Acquire, FailToAcquire, EndInit, BeginExit,
                StopFiltering, Release, Forget, threadVars
  <2>2. CASE BeginInit
    BY <1>0, <2>1, <2>2 DEF BeginInit, UsersHoldFiles, ModuleShape
  <2>3. CASE Acquire \/ EndInit
    BY <1>0, <2>1, <2>3 DEF Acquire, EndInit, UsersHoldFiles, ModuleShape
  <2>4. CASE FailToAcquire
    BY <1>0, <2>1, <2>4 DEF FailToAcquire, UsersHoldFiles, ModuleShape
  <2>5. CASE BeginExit
    BY <1>0, <2>1, <2>5 DEF BeginExit, UsersHoldFiles
  <2>6. CASE StopFiltering
    BY <1>0, <2>1, <2>6 DEF StopFiltering, UsersHoldFiles, ModuleShape
  <2>7. CASE Release
    BY <1>0, <2>1, <2>7 DEF Release, UsersHoldFiles
  <2>8. CASE Forget
    BY <1>0, <2>1, <2>8 DEF Forget, UsersHoldFiles
  <2> QED
    BY <1>1, <2>2, <2>3, <2>4, <2>5, <2>6, <2>7, <2>8 DEF Module
<1>2. CASE UserNext
  <2>1. PICK u \in Users : Open(u) \/ Close(u) \/ Ioctl(u) \/ UserStep(u)
    BY <1>2 DEF UserNext
  <2>2. u \in Threads /\ pc \in [Threads -> PacketLabel \cup UserLabel] /\ Users \subseteq Threads
    BY <1>0 DEF Threads, ThreadTypes
  <2>3. CASE Open(u)
    <3>1. phase # "absent"
      BY <1>0, <2>3 DEF Open, ModuleShape
    <3> QED
      BY <1>0, <2>3, <3>1 DEF Open, UsersHoldFiles, threadVars
  <2>4. CASE Close(u)
    BY <1>0, <2>4 DEF Close, UsersHoldFiles, threadVars
  <2>5. CASE Ioctl(u)
    BY <1>0, <2>2, <2>5 DEF Ioctl, UsersHoldFiles, Goto, moduleVars
  <2>6. CASE Enable(u) \/ Disable(u)
    BY <1>0, <2>2, <2>6 DEF Enable, Disable, Access, UsersHoldFiles, Goto, moduleVars
  <2>7. CASE ResetCounter(u)
    BY <1>0, <2>2, <2>7 DEF ResetCounter, Access, UsersHoldFiles, Goto, moduleVars
  <2> QED
    BY <2>1, <2>3, <2>4, <2>5, <2>6, <2>7 DEF UserStep
<1>3. CASE PacketNext
  <2>1. PICK c \in Contexts : Receive(c) \/ PacketStep(c)
    BY <1>3 DEF PacketNext
  <2>2. \A u \in Users : pc'[u] = pc[u]
    <3>1. \A u \in Users : u # c
      BY ThreadsAssumption
    <3> QED
      BY <1>0, <2>1, <3>1 DEF PacketStep, Receive, Look, Enter, Relook, Count,
         CountReceived, Judge, Note, Record, CountDecision, Goto, ThreadTypes, Threads
  <2>3. UNCHANGED <<moduleVars, enabled>>
    BY <2>1 DEF PacketStep, Receive, Look, Enter, Relook, Count,
       CountReceived, Note, Record, CountDecision
  <2> QED
    BY <1>0, <2>2, <2>3 DEF UsersHoldFiles, moduleVars
<1>4. CASE FaultNext
  <2>1. PICK t \in Threads : UseAfterFree(t)
    BY <1>4 DEF FaultNext
  <2>2. ASSUME t \in Users PROVE t \in met
    <3>1. t \in open /\ ~ Allocated
      <4>1. pc[t] \in UserLabel /\ pc[t] \in Accessing
        BY <1>0, <2>1, <2>2 DEF UseAfterFree, ThreadTypes
      <4>2. pc[t] \in {"enabling", "disabling", "resetting"}
        BY <4>1 DEF UserLabel, Accessing
      <4> QED
        BY <1>0, <2>1, <2>2, <4>2 DEF UseAfterFree, UsersHoldFiles
    <3>2. step \in {"region", "cdev", "class", "device", "none"} \/ phase # "loading"
      BY <1>0 DEF ModuleTypes, ModuleShape, Resource
    <3>3. phase \in {"absent", "releasing"}
      BY <1>0, <3>1, <3>2 DEF ModuleTypes, ModuleShape, Before, Resource, Allocated
    <3> QED
      BY <1>0, <3>1, <3>3 DEF UsersHoldFiles
  <2>3. \A u \in Users : u # t => pc'[u] = pc[u]
    BY <1>0, <2>1 DEF UseAfterFree, Goto, ThreadTypes, Threads
  <2>4. t \in Users => pc'[t] = "fault"
    BY <1>0, <2>1 DEF UseAfterFree, Goto, ThreadTypes
  <2>5. UNCHANGED <<phase, leaving, enabled, met>> /\ open' = open \ {t}
    BY <2>1 DEF UseAfterFree
  <2> QED
    BY <1>0, <2>2, <2>3, <2>4, <2>5 DEF UsersHoldFiles
<1>5. CASE UNCHANGED vars
  BY <1>0, <1>5 DEF vars, UsersHoldFiles
<1> QED
  BY <1>1, <1>2, <1>3, <1>4, <1>5, NextParts

\* Every step keeps the invariant.
LEMMA DriverStep == DriverInv /\ [Next]_vars => DriverInv'
<1> SUFFICES ASSUME DriverInv, [Next]_vars PROVE DriverInv'
  OBVIOUS
<1>0. TypeOK /\ ModuleTypes /\ ModuleShape
  BY TypeParts DEF DriverInv
<1>1. UsersHoldFiles'
  BY UsersStep
<1>2. CASE Module
  BY <1>0, <1>1, <1>2, ShapeModule, ThreadsModule, TypePartsNext DEF DriverInv
<1>3. CASE UserNext \/ PacketNext \/ FaultNext
  <2>1. ModuleTypes' /\ ModuleShape'
    BY <1>0, <1>3, BystanderNext, ShapeThreads
  <2>2. ThreadTypes' /\ SharedTypes'
    BY <1>0, <1>3, ThreadsUser, ThreadsPacket, ThreadsFault
  <2> QED
    BY <1>1, <2>1, <2>2, TypePartsNext DEF DriverInv
<1>4. CASE UNCHANGED vars
  BY <1>0, <1>1, <1>4 DEF vars, DriverInv, TypeOK, ModuleShape, Before, DownFrom
<1> QED
  BY <1>2, <1>3, <1>4, NextParts

\* Hence it holds always.
LEMMA DriverInvHolds == Spec => []DriverInv
  BY DriverInit, DriverStep, PTL DEF Spec

-----------------------------------------------------------------------------
(* What follows from it.                                                   *)

\* Every variable keeps its type: no reset runs past the last counter, and no
\* path of pf_init releases what cannot be released.
THEOREM DriverTypesHold == Spec => []TypeOK
<1>1. DriverInv => TypeOK
  BY DEF DriverInv
<1> QED
  BY <1>1, DriverInvHolds, PTL

\* Whatever fails in pf_init, resources are held and released in order.
THEOREM NestingHolds == Spec => []ResourcesNest
<1>1. DriverInv => ResourcesNest
  <2> SUFFICES ASSUME DriverInv PROVE ResourcesNest
    OBVIOUS
  <2>0. ModuleTypes /\ ModuleShape
    BY TypeParts DEF DriverInv
  <2>1. CASE phase = "absent"
    BY <2>0, <2>1 DEF ModuleShape, ResourcesNest
  <2>2. CASE phase = "loading"
    <3>1. step \in {"region", "cdev", "class", "device", "none"}
      BY <2>0, <2>2 DEF ModuleTypes, ModuleShape, Resource
    <3> QED
      BY <2>0, <2>2, <3>1 DEF ModuleShape, ResourcesNest, Before, Below, Resource
  <2>3. CASE phase \in {"loaded", "stopping"}
    BY <2>0, <2>3 DEF ModuleShape, ResourcesNest, Below, Resource
  <2>4. CASE phase = "releasing"
    BY <2>0, <2>4 DEF ModuleTypes, ModuleShape, ResourcesNest, DownFrom, Below, Resource
  <2> QED
    BY <2>0, <2>1, <2>2, <2>3, <2>4 DEF ModuleTypes
<1> QED
  BY <1>1, DriverInvHolds, PTL

\* A pf_init that failed anywhere and a pf_exit leave nothing acquired.
THEOREM NothingStays == Spec => []NothingLeftBehind
<1>1. DriverInv => NothingLeftBehind
  BY DEF DriverInv, ModuleShape, NothingLeftBehind
<1> QED
  BY <1>1, DriverInvHolds, PTL

\* An ioctl meets a freed structure only through a file that was open while a
\* pf_init failed: an ioctl holds a file, and pf_exit runs only without files.
THEOREM IoctlsStaySafe == Spec => []IoctlsAreSafe
<1>1. DriverInv => IoctlsAreSafe
  BY DEF DriverInv, UsersHoldFiles, IoctlsAreSafe
<1> QED
  BY <1>1, DriverInvHolds, PTL

\* After pf_exit has disabled the filter no packet starts to be filtered.
THEOREM ExitDrainsHolds == Spec => ExitDrains
<1>1. DriverInv /\ [Next]_vars =>
        [leaving /\ phase = "releasing" => Filtering' \subseteq Filtering]_vars
  <2> SUFFICES ASSUME DriverInv, Next, leaving, phase = "releasing", NEW c \in Contexts,
                      pc'[c] \in {"count", "counting", "record", "recording", "noting"}
               PROVE  pc[c] \in {"count", "counting", "record", "recording", "noting"}
    BY DEF Filtering
  <2>0. ThreadTypes /\ enabled = FALSE
    BY TypeParts DEF DriverInv, UsersHoldFiles
  <2>1. CASE Module
    BY <2>1 DEF Module, BeginInit, Acquire, FailToAcquire, EndInit, BeginExit,
                StopFiltering, Release, Forget, threadVars
  <2>2. CASE UserNext
    <3>1. PICK u \in Users : Open(u) \/ Close(u) \/ Ioctl(u) \/ UserStep(u)
      BY <2>2 DEF UserNext
    <3>2. pc'[c] = pc[c]
      BY <2>0, <3>1, ThreadsAssumption DEF UserStep, Open, Close, Ioctl, Enable, Disable,
         ResetCounter, Goto, threadVars, ThreadTypes, Threads
    <3> QED
      BY <3>2
  <2>3. CASE PacketNext
    <3>1. PICK d \in Contexts : Receive(d) \/ PacketStep(d)
      BY <2>3 DEF PacketNext
    <3>2. CASE d # c
      <4>1. pc'[c] = pc[c]
        BY <2>0, <3>1, <3>2 DEF PacketStep, Receive, Look, Enter, Relook, Count,
           CountReceived, Judge, Note, Record, CountDecision, Goto, ThreadTypes, Threads
      <4> QED
        BY <4>1
    <3>3. CASE d = c
      BY <2>0, <3>1, <3>3 DEF PacketStep, Receive, Look, Enter, Relook, Count, Access,
         CountReceived, Judge, Note, Record, CountDecision, Goto, ThreadTypes, Threads
    <3> QED
      BY <3>2, <3>3
  <2>4. CASE FaultNext
    <3>1. PICK t \in Threads : UseAfterFree(t)
      BY <2>4 DEF FaultNext
    <3> QED
      BY <2>0, <3>1 DEF UseAfterFree, Goto, ThreadTypes, Threads
  <2> QED
    BY <2>1, <2>2, <2>3, <2>4, NextParts
<1> QED
  BY <1>1, DriverInvHolds, PTL DEF Spec, ExitDrains

-----------------------------------------------------------------------------
(* The counters.                                                           *)

Decided == stats["allowed"] + stats["dropped"] + stats["monitored"]
             + stats["invalid"] + stats["errors"]

\* Counting an outcome adds one to what is decided.
LEMMA DecidedUp ==
  ASSUME stats \in [Counter -> Nat], NEW o \in Outcome,
         stats' = [stats EXCEPT ![o] = @ + 1]
  PROVE  Decided' = Decided + 1 /\ stats'["received"] = stats["received"]
<1>1. \A k \in Counter : stats[k] \in Nat
  OBVIOUS
<1>2. stats["allowed"] \in Nat /\ stats["dropped"] \in Nat /\ stats["monitored"] \in Nat
      /\ stats["invalid"] \in Nat /\ stats["errors"] \in Nat
  BY <1>1 DEF Counter
<1>3. o \in {"allowed", "dropped", "monitored", "invalid", "errors"}
  BY DEF Outcome, Counter
<1>4. \A k \in Counter : stats'[k] = IF k = o THEN stats[k] + 1 ELSE stats[k]
  OBVIOUS
<1>5. {"received", "allowed", "dropped", "monitored", "invalid", "errors"} = Counter
  BY DEF Counter
<1>6. stats'["received"] = stats["received"]
  BY <1>3, <1>4, <1>5
<1>7. stats'["allowed"] = (IF o = "allowed" THEN stats["allowed"] + 1 ELSE stats["allowed"])
      /\ stats'["dropped"] = (IF o = "dropped" THEN stats["dropped"] + 1 ELSE stats["dropped"])
      /\ stats'["monitored"] = (IF o = "monitored" THEN stats["monitored"] + 1 ELSE stats["monitored"])
      /\ stats'["invalid"] = (IF o = "invalid" THEN stats["invalid"] + 1 ELSE stats["invalid"])
      /\ stats'["errors"] = (IF o = "errors" THEN stats["errors"] + 1 ELSE stats["errors"])
  BY <1>4, <1>5
<1> QED
  BY <1>2, <1>3, <1>6, <1>7 DEF Decided

\* A received packet adds one to what is received and leaves the rest.
LEMMA ReceivedUp ==
  ASSUME stats \in [Counter -> Nat], stats' = [stats EXCEPT !["received"] = @ + 1]
  PROVE  Decided' = Decided /\ stats'["received"] = stats["received"] + 1
  BY DEF Decided, Counter

\* Packets under way can be counted.
LEMMA PendingFinite == IsFiniteSet(Pending) /\ Cardinality(Pending) \in Nat
<1>1. Pending \subseteq Contexts
  BY DEF Pending
<1> QED
  BY <1>1, ThreadsAssumption, FS_Subset, FS_CardinalityType

\* A context that begins or ends its wait for a decision moves Pending by one.
LEMMA PendingMoves ==
  ASSUME ThreadTypes, NEW c \in Contexts, NEW l, Goto(c, l)
  PROVE  /\ c \in Pending /\ l \notin {"record", "recording", "noting"} =>
              Cardinality(Pending') = Cardinality(Pending) - 1
         /\ c \notin Pending /\ l \in {"record", "recording", "noting"} =>
              Cardinality(Pending') = Cardinality(Pending) + 1
         /\ (c \in Pending <=> l \in {"record", "recording", "noting"}) =>
              Pending' = Pending
<1>1. pc' = [pc EXCEPT ![c] = l] /\ c \in DOMAIN pc
  BY DEF Goto, ThreadTypes, Threads
<1>2. l \notin {"record", "recording", "noting"} => Pending' = Pending \ {c}
  BY <1>1 DEF Pending
<1>3. l \in {"record", "recording", "noting"} => Pending' = Pending \cup {c}
  BY <1>1 DEF Pending
<1>4. c \in Pending => Cardinality(Pending \ {c}) = Cardinality(Pending) - 1
  BY PendingFinite, FS_RemoveElement
<1>5. c \notin Pending => Cardinality(Pending \cup {c}) = Cardinality(Pending) + 1
  BY PendingFinite, FS_AddElement
<1>6. c \in Pending => Pending \cup {c} = Pending
  OBVIOUS
<1>7. c \notin Pending => Pending \ {c} = Pending
  OBVIOUS
<1> QED
  BY <1>2, <1>3, <1>4, <1>5, <1>6, <1>7

\* A thread that neither counts nor begins or ends a wait keeps the balance.
LEMMA BalanceIdle ==
  ASSUME Balanced, UNCHANGED <<stats, Pending>>,
         ~ disturbed' /\ Allocated' => ~ disturbed /\ Allocated
  PROVE  Balanced'
  BY DEF Balanced

\* pf_init starts balanced, the rest of pf_init and pf_exit counts nothing.
LEMMA BalanceModule ==
  ASSUME DriverInv, Balanced, Module
  PROVE  Balanced'
<1>0. ThreadTypes /\ ModuleTypes /\ ModuleShape
  BY TypeParts DEF DriverInv
<1>1. CASE BeginInit
  <2>1. stats' = Zero /\ pc' = pc
    BY <1>1 DEF BeginInit, threadVars
  <2>2. ~ disturbed' => Pending' = {}
    BY <1>1, <2>1 DEF BeginInit, Pending
  <2>3. stats'["received"] = 0 /\ stats'["allowed"] = 0 /\ stats'["dropped"] = 0
        /\ stats'["monitored"] = 0 /\ stats'["invalid"] = 0 /\ stats'["errors"] = 0
    BY <2>1 DEF Zero, Counter
  <2> QED
    BY <2>2, <2>3, FS_EmptySet DEF Balanced
<1>2. CASE Acquire \/ FailToAcquire \/ EndInit \/ BeginExit \/ StopFiltering \/ Release \/ Forget
  <2>1. UNCHANGED <<stats, pc, disturbed>>
    BY <1>2 DEF Acquire, FailToAcquire, EndInit, BeginExit, StopFiltering, Release,
                Forget, threadVars
  <2>2. Allocated' => Allocated
    BY <1>0, <1>2 DEF Acquire, FailToAcquire, EndInit, BeginExit, StopFiltering, Release,
                Forget, Allocated, ModuleShape, ModuleTypes
  <2> QED
    BY <2>1, <2>2, BalanceIdle DEF Pending
<1> QED
  BY <1>1, <1>2 DEF Module

\* Users disturb the balance by a reset alone.
LEMMA BalanceUser ==
  ASSUME DriverInv, Balanced, UserNext
  PROVE  Balanced'
<1>0. ThreadTypes
  BY TypeParts DEF DriverInv
<1>1. PICK u \in Users : Open(u) \/ Close(u) \/ Ioctl(u) \/ UserStep(u)
  BY DEF UserNext
<1>2. CASE ResetCounter(u)
  BY <1>2 DEF ResetCounter, Balanced
<1>3. CASE Open(u) \/ Close(u) \/ Ioctl(u) \/ Enable(u) \/ Disable(u)
  <2>1. UNCHANGED <<stats, acquired, disturbed>>
    BY <1>3 DEF Open, Close, Ioctl, Enable, Disable, moduleVars
  <2>2. \A c \in Contexts : pc'[c] = pc[c]
    BY <1>0, <1>3, ThreadsAssumption DEF Open, Close, Ioctl, Enable, Disable, Goto,
       threadVars, ThreadTypes, Threads
  <2> QED
    BY <2>1, <2>2, BalanceIdle DEF Pending, Allocated
<1> QED
  BY <1>1, <1>2, <1>3 DEF UserStep

\* Steps of a packet that neither count nor make it wait for a decision.
LEMMA BalanceQuiet ==
  ASSUME ThreadTypes, Balanced, NEW c \in Contexts, NEW l,
         Goto(c, l), c \in Pending <=> l \in {"record", "recording", "noting"},
         UNCHANGED <<stats, acquired, disturbed>>
  PROVE  Balanced'
<1>1. Pending' = Pending
  BY PendingMoves
<1> QED
  BY <1>1, BalanceIdle DEF Allocated

\* Every step of a packet keeps the balance.
LEMMA BalancePacket ==
  ASSUME DriverInv, Balanced, PacketNext
  PROVE  Balanced'
<1>0. ThreadTypes /\ ModuleTypes /\ ModuleShape /\ stats \in [Counter -> Nat]
  BY TypeParts DEF DriverInv, SharedTypes
<1>1. PICK c \in Contexts : Receive(c) \/ PacketStep(c)
  BY DEF PacketNext
<1>2. c \in Pending <=> pc[c] \in {"record", "recording", "noting"}
  BY DEF Pending
<1>3. CASE Receive(c)
  BY <1>0, <1>2, <1>3, BalanceQuiet DEF Receive, moduleVars
<1>4. CASE Look(c) \/ Enter(c) \/ Relook(c)
  <2>1. PICK l \in {"idle", "enter", "relook", "count"} : Goto(c, l)
    BY <1>4 DEF Look, Enter, Relook
  <2>2. UNCHANGED <<stats, acquired, disturbed>>
    BY <1>4 DEF Look, Enter, Relook, moduleVars
  <2>3. pc[c] \in {"look", "enter", "relook"}
    BY <1>4 DEF Look, Enter, Relook, Access
  <2> QED
    BY <1>0, <1>2, <2>1, <2>2, <2>3, BalanceQuiet
<1>5. CASE Count(c)
  <2>1. CASE pf_dev
    BY <1>0, <1>2, <1>5, <2>1, BalanceQuiet DEF Count, moduleVars
  <2>2. CASE ~ pf_dev
    BY <1>0, <1>5, <2>2 DEF Count, moduleVars, ModuleShape, Balanced, Allocated
  <2> QED
    BY <2>1, <2>2
<1>6. CASE CountReceived(c)
  <2>1. PICK l \in {"record", "noting"} : Goto(c, l)
    BY <1>6 DEF CountReceived, Judge
  <2>2. pc[c] = "counting" /\ Allocated
    BY <1>6 DEF CountReceived, Access
  <2>3. Cardinality(Pending') = Cardinality(Pending) + 1
    BY <1>0, <1>2, <2>1, <2>2, PendingMoves
  <2>4. Decided' = Decided /\ stats'["received"] = stats["received"] + 1
    BY <1>0, <1>6, ReceivedUp DEF CountReceived
  <2>5. UNCHANGED <<acquired, disturbed>>
    BY <1>6 DEF CountReceived, moduleVars
  <2>6. Decided \in Nat /\ Cardinality(Pending) \in Nat
    BY <1>0, PendingFinite DEF Decided, Counter
  <2> QED
    BY <2>2, <2>3, <2>4, <2>5, <2>6 DEF Balanced, Decided, Allocated
<1>7. CASE Note(c) \/ CountDecision(c)
  <2>1. Goto(c, "idle") /\ c \in Pending /\ Allocated
    BY <1>2, <1>7 DEF Note, CountDecision, Access
  <2>2. Cardinality(Pending') = Cardinality(Pending) - 1
    BY <1>0, <2>1, PendingMoves
  <2>3. outcome[c] \in Outcome /\ stats' = [stats EXCEPT ![outcome[c]] = @ + 1]
    BY <1>0, <1>7 DEF Note, CountDecision, ThreadTypes
  <2>4. Decided' = Decided + 1 /\ stats'["received"] = stats["received"]
    BY <1>0, <2>3, DecidedUp
  <2>5. UNCHANGED <<acquired, disturbed>>
    BY <1>7 DEF Note, CountDecision, moduleVars
  <2>6. Decided \in Nat /\ Cardinality(Pending) \in Nat
    BY <1>0, PendingFinite DEF Decided, Counter
  <2> QED
    BY <2>1, <2>2, <2>4, <2>5, <2>6 DEF Balanced, Decided, Allocated
<1>8. CASE Record(c)
  <2>1. CASE pf_dev
    BY <1>0, <1>2, <1>8, <2>1, BalanceQuiet DEF Record, moduleVars
  <2>2. CASE ~ pf_dev
    BY <1>0, <1>8, <2>2 DEF Record, moduleVars, ModuleShape, Balanced, Allocated
  <2> QED
    BY <2>1, <2>2
<1> QED
  BY <1>1, <1>3, <1>4, <1>5, <1>6, <1>7, <1>8 DEF PacketStep

\* A use after free happens only when no counter is left.
LEMMA BalanceFault ==
  ASSUME DriverInv, Balanced, FaultNext
  PROVE  Balanced'
  BY DEF FaultNext, UseAfterFree, Balanced, Allocated

\* For any number of contexts: every packet received since the module was
\* loaded is counted once or still under way, unless a reset came between.
THEOREM BalanceHolds == Spec => []Balanced
<1>1. Init => Balanced
  BY DEF Init, Balanced, Allocated
<1>2. DriverInv /\ Balanced /\ [Next]_vars => Balanced'
  <2>1. ASSUME Balanced, UNCHANGED vars PROVE Balanced'
    BY <2>1, BalanceIdle DEF vars, Pending, Allocated
  <2> QED
    BY <2>1, NextParts, BalanceModule, BalanceUser, BalancePacket, BalanceFault
<1> QED
  BY <1>1, <1>2, DriverInvHolds, PTL DEF Spec
=============================================================================
