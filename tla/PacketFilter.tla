----------------------------- MODULE PacketFilter -----------------------------
(***************************************************************************)
(* The character-device driver (kernel/packet_filter/packet_filter.c): its *)
(* initialisation with unwinding, its removal, the ioctls of open files    *)
(* and the packets that go through pf_rx_handler meanwhile.                *)
(*                                                                         *)
(* Every function tests the global pointer pf_dev and reads through it     *)
(* later, so each test and each access is a step of its own.  A critical   *)
(* section of pf_state_lock is one step.  The rules of the driver are left *)
(* out: no file of the repository adds one.                                *)
(***************************************************************************)
EXTENDS Integers, FiniteSets, Sequences

CONSTANTS
  Contexts,    \* CPUs that hand packets to pf_rx_handler
  Users,       \* processes with at most one file of the device each
  MaxReceived, \* bound on packets_received
  Faults       \* resources whose acquisition may fail

Resource == {"memory", "region", "cdev", "class", "device"}
Counter  == {"received", "allowed", "dropped", "monitored", "invalid", "errors"}

\* What pf_extract_packet_info and pf_filter_packet make of a packet.
Outcome == Counter \ {"received"}

Threads == Contexts \cup Users

ASSUME ThreadsAssumption == /\ IsFiniteSet(Contexts)
                            /\ Contexts \cap Users = {}
ASSUME BoundAssumption   == MaxReceived \in Nat
ASSUME FaultsAssumption  == Faults \subseteq Resource \ {"memory"}

VARIABLES
  phase,     \* of the module: absent, loading, loaded, stopping, releasing
  step,      \* the resource a loading acquires or a releasing gives back
  leaving,   \* pf_exit runs: the kernel refuses to open the device
  acquired,  \* resources held; "memory" is the structure pf_dev points to
  pf_dev,    \* pf_dev is not NULL
  enabled,   \* pf_dev->enabled
  stats,     \* pf_dev->stats; bytes move with packets
  open,      \* users with an open file
  pc,        \* where each thread is
  outcome,   \* what is made of the packet of a context
  next,      \* the counter a reset zeroes next, by its place in ResetOrder
  disturbed, \* history: the counters may have missed a part of some packet
  met        \* history: users whose file, if open, met a pf_init that failed

vars == <<phase, step, leaving, acquired, pf_dev, enabled, stats, open, pc,
          outcome, next, disturbed, met>>

moduleVars == <<phase, step, leaving, acquired, pf_dev, open, met>>
threadVars == <<pc, outcome, next>>

-----------------------------------------------------------------------------
(* Resources and counters.                                                 *)

\* The order of pf_init.
Following(r) == CASE r = "region" -> "cdev"
                  [] r = "cdev"   -> "class"
                  [] r = "class"  -> "device"
                  [] r = "device" -> "none"

\* Faulty: a jump to the label one too far down.
WrongErrorLabel(r) == CASE r = "region" -> "memory"
                        [] r = "cdev"   -> "region"
                        [] r = "class"  -> "region"
                        [] r = "device" -> "class"

\* The resource given back first when the acquisition of r fails: the goto
\* labels error_device_number, error_cdev, error_class and error_device.
ErrorLabel(r) == CASE r = "region" -> "memory"
                   [] r = "cdev"   -> "region"
                   [] r = "class"  -> "cdev"
                   [] r = "device" -> "class"

\* The order of release, in which the labels fall through and pf_exit goes.
Below(r) == CASE r = "device" -> "class"
              [] r = "class"  -> "cdev"
              [] r = "cdev"   -> "region"
              [] r = "region" -> "memory"
              [] r = "memory" -> "none"

Zero == [c \in Counter |-> 0]

\* pf_reset_statistics, without the bytes and rule counters.
ResetOrder == <<"received", "allowed", "dropped", "monitored", "invalid", "errors">>

Allocated == "memory" \in acquired

Goto(t, label) == pc' = [pc EXCEPT ![t] = label]

\* A thread accesses the structure while it is there.
Access(t, label) ==
  /\ pc[t] = label
  /\ Allocated

\* Where a thread is about to access pf_dev->..., past its test of pf_dev.
Accessing == {"look", "relook", "counting", "recording", "noting",
              "enabling", "disabling", "resetting"}

\* After the kfree the access may do anything.  The thread is not followed
\* further; the file of a user goes with its process.
UseAfterFree(t) ==
  /\ pc[t] \in Accessing
  /\ ~ Allocated
  /\ Goto(t, "fault")
  /\ open' = open \ {t}
  /\ UNCHANGED <<phase, step, leaving, acquired, pf_dev, enabled, stats>>
  /\ UNCHANGED <<outcome, next, disturbed, met>>

-----------------------------------------------------------------------------

Init ==
  /\ phase = "absent"
  /\ step = "none"
  /\ leaving = FALSE
  /\ acquired = {}
  /\ pf_dev = FALSE
  /\ enabled = FALSE
  /\ stats = Zero
  /\ open = {}
  /\ pc = [t \in Threads |-> "idle"]
  /\ outcome = [c \in Contexts |-> "errors"]
  /\ next = [u \in Users |-> 1]
  /\ disturbed = FALSE
  /\ met = {}

-----------------------------------------------------------------------------
(* Loading and removing the module.                                        *)

\* pf_init up to its first resource besides memory.  The kernel loads the
\* module again only when nobody holds a file of an earlier load.
BeginInit ==
  /\ phase = "absent"
  /\ ~ pf_dev
  /\ open = {}
  /\ acquired' = acquired \cup {"memory"}
  /\ pf_dev' = TRUE
  /\ enabled' = FALSE
  /\ stats' = Zero
  /\ phase' = "loading"
  /\ step' = "region"
  /\ disturbed' = (\E c \in Contexts : pc[c] \notin {"idle", "fault"})
  /\ UNCHANGED <<leaving, open, threadVars, met>>

\* One acquisition of pf_init.
Acquire ==
  /\ phase = "loading"
  /\ step # "none"
  /\ acquired' = acquired \cup {step}
  /\ step' = Following(step)
  /\ UNCHANGED <<phase, leaving, pf_dev, enabled, stats, open, threadVars, disturbed, met>>

\* One that fails.  pf_register_netdev, the last call, cannot.
FailToAcquire ==
  /\ phase = "loading"
  /\ step \in Faults
  /\ phase' = "releasing"
  /\ step' = ErrorLabel(step)
  /\ met' = met \cup open
  /\ UNCHANGED <<leaving, acquired, pf_dev, enabled, stats, open, threadVars, disturbed>>

\* Everything is acquired; "Filtering starts disabled", with the device live.
EndInit ==
  /\ phase = "loading"
  /\ step = "none"
  /\ enabled' = FALSE
  /\ phase' = "loaded"
  /\ UNCHANGED <<step, leaving, acquired, pf_dev, stats, open, threadVars, disturbed, met>>

\* Faulty: an exit that waits for no file, without pf_cdev.owner.
ExitAnyTime ==
  /\ phase = "loaded"
  /\ phase' = "stopping"
  /\ leaving' = TRUE
  /\ UNCHANGED <<step, acquired, pf_dev, enabled, stats, open, threadVars, disturbed, met>>

\* pf_cdev.owner is THIS_MODULE: the kernel runs pf_exit when no file is
\* open, and lets none be opened from then on.
BeginExit ==
  /\ phase = "loaded"
  /\ open = {}
  /\ phase' = "stopping"
  /\ leaving' = TRUE
  /\ UNCHANGED <<step, acquired, pf_dev, enabled, stats, open, threadVars, disturbed, met>>

\* Faulty: an exit that leaves the filter enabled.
ReleaseUnstopped ==
  /\ phase = "stopping"
  /\ phase' = "releasing"
  /\ step' = "device"
  /\ UNCHANGED <<leaving, acquired, pf_dev, enabled, stats, open, threadVars, disturbed, met>>

\* pf_exit disables the filter and goes on to give back its resources.
StopFiltering ==
  /\ phase = "stopping"
  /\ enabled' = FALSE
  /\ phase' = "releasing"
  /\ step' = "device"
  /\ UNCHANGED <<leaving, acquired, pf_dev, stats, open, threadVars, disturbed, met>>

\* One release, on either path.
Release ==
  /\ phase = "releasing"
  /\ step # "none"
  /\ acquired' = acquired \ {step}
  /\ step' = Below(step)
  /\ UNCHANGED <<phase, leaving, pf_dev, enabled, stats, open, threadVars, disturbed, met>>

\* pf_dev = NULL, after the kfree.
Forget ==
  /\ phase = "releasing"
  /\ step = "none"
  /\ pf_dev' = FALSE
  /\ phase' = "absent"
  /\ leaving' = FALSE
  /\ UNCHANGED <<step, acquired, enabled, stats, open, threadVars, disturbed, met>>

Module ==
  \/ BeginInit \/ Acquire \/ FailToAcquire \/ EndInit
  \/ BeginExit \/ StopFiltering \/ Release \/ Forget

-----------------------------------------------------------------------------
(* Users.                                                                  *)

\* pf_open: possible as soon as the character device is live.
Open(u) ==
  /\ pc[u] = "idle"
  /\ u \notin open
  /\ "cdev" \in acquired
  /\ ~ leaving
  /\ pf_dev
  /\ open' = open \cup {u}
  /\ met' = (IF phase = "releasing" THEN met \cup {u} ELSE met)
  /\ UNCHANGED <<phase, step, leaving, acquired, pf_dev, enabled, stats>>
  /\ UNCHANGED <<threadVars, disturbed>>

\* pf_release, when no ioctl of the file is running.
Close(u) ==
  /\ pc[u] = "idle"
  /\ u \in open
  /\ open' = open \ {u}
  /\ met' = met \ {u}
  /\ UNCHANGED <<phase, step, leaving, acquired, pf_dev, enabled, stats>>
  /\ UNCHANGED <<threadVars, disturbed>>

\* pf_ioctl and the test of pf_dev in pf_enable, pf_disable and
\* pf_reset_statistics.  With pf_dev NULL nothing happens.
Ioctl(u) ==
  /\ pc[u] = "idle"
  /\ u \in open
  /\ pf_dev
  /\ \E label \in {"enabling", "disabling", "resetting"} : Goto(u, label)
  /\ next' = [next EXCEPT ![u] = 1]
  /\ UNCHANGED <<moduleVars, enabled, stats, outcome, disturbed>>

Enable(u) ==
  /\ Access(u, "enabling")
  /\ enabled' = TRUE
  /\ Goto(u, "idle")
  /\ UNCHANGED <<moduleVars, stats, outcome, next, disturbed>>

Disable(u) ==
  /\ Access(u, "disabling")
  /\ enabled' = FALSE
  /\ Goto(u, "idle")
  /\ UNCHANGED <<moduleVars, stats, outcome, next, disturbed>>

\* Faulty: a reset that goes on behind the last counter.
ResetPastEnd(u) ==
  /\ Access(u, "resetting")
  /\ stats' = [stats EXCEPT ![ResetOrder[next[u]]] = 0]
  /\ disturbed' = TRUE
  /\ next' = [next EXCEPT ![u] = @ + 1]
  /\ IF next[u] <= Len(ResetOrder) THEN UNCHANGED pc ELSE Goto(u, "idle")
  /\ UNCHANGED <<moduleVars, enabled, outcome>>

\* One atomic64_set of pf_reset_statistics.
ResetCounter(u) ==
  /\ Access(u, "resetting")
  /\ stats' = [stats EXCEPT ![ResetOrder[next[u]]] = 0]
  /\ disturbed' = TRUE
  /\ IF next[u] < Len(ResetOrder)
     THEN next' = [next EXCEPT ![u] = @ + 1] /\ UNCHANGED pc
     ELSE Goto(u, "idle") /\ UNCHANGED next
  /\ UNCHANGED <<moduleVars, enabled, outcome>>

-----------------------------------------------------------------------------
(* Packets.                                                                *)

\* pf_rx_handler asks pf_is_enabled, which tests pf_dev first.
Receive(c) ==
  /\ pc[c] = "idle"
  /\ stats["received"] + Cardinality({d \in Contexts : pc[d] # "idle"}) < MaxReceived
  /\ pf_dev
  /\ Goto(c, "look")
  /\ UNCHANGED <<moduleVars, enabled, stats, outcome, next, disturbed>>

\* ... and then reads enabled; a packet that finds it off is passed.
Look(c) ==
  /\ Access(c, "look")
  /\ Goto(c, IF enabled THEN "enter" ELSE "idle")
  /\ UNCHANGED <<moduleVars, enabled, stats, outcome, next, disturbed>>

\* pf_process_packet tests pf_dev and asks pf_is_enabled again.
Enter(c) ==
  /\ pc[c] = "enter"
  /\ Goto(c, IF pf_dev THEN "relook" ELSE "idle")
  /\ UNCHANGED <<moduleVars, enabled, stats, outcome, next, disturbed>>

\* Faulty: a second look that does not look.
RelookBlindly(c) ==
  /\ Access(c, "relook")
  /\ Goto(c, "count")
  /\ UNCHANGED <<moduleVars, enabled, stats, outcome, next, disturbed>>

Relook(c) ==
  /\ Access(c, "relook")
  /\ Goto(c, IF enabled THEN "count" ELSE "idle")
  /\ UNCHANGED <<moduleVars, enabled, stats, outcome, next, disturbed>>

\* The packet is parsed and filtered, and goes to the counter it deserves.
\* Decisions test pf_dev once more, the other two counters do not.
Judge(c) ==
  \E o \in Outcome :
    /\ outcome' = [outcome EXCEPT ![c] = o]
    /\ Goto(c, IF o \in {"invalid", "errors"} THEN "noting" ELSE "record")

\* pf_stats_packet_received; with pf_dev NULL the packet goes on uncounted.
Count(c) ==
  /\ pc[c] = "count"
  /\ IF pf_dev THEN Goto(c, "counting") /\ UNCHANGED outcome ELSE Judge(c)
  /\ UNCHANGED <<moduleVars, enabled, stats, next, disturbed>>

CountReceived(c) ==
  /\ Access(c, "counting")
  /\ stats' = [stats EXCEPT !["received"] = @ + 1]
  /\ Judge(c)
  /\ UNCHANGED <<moduleVars, enabled, next, disturbed>>

\* Faulty: a packet that is not counted unless it could be parsed.
NoteNothing(c) ==
  /\ Access(c, "noting")
  /\ Goto(c, "idle")
  /\ UNCHANGED <<moduleVars, enabled, stats, outcome, next, disturbed>>

\* invalid_packets or errors; the packet is passed.
Note(c) ==
  /\ Access(c, "noting")
  /\ stats' = [stats EXCEPT ![outcome[c]] = @ + 1]
  /\ Goto(c, "idle")
  /\ UNCHANGED <<moduleVars, enabled, outcome, next, disturbed>>

\* pf_allow_packet, pf_drop_packet and pf_monitor_packet.
Record(c) ==
  /\ pc[c] = "record"
  /\ Goto(c, IF pf_dev THEN "recording" ELSE "idle")
  /\ UNCHANGED <<moduleVars, enabled, stats, outcome, next, disturbed>>

CountDecision(c) ==
  /\ Access(c, "recording")
  /\ stats' = [stats EXCEPT ![outcome[c]] = @ + 1]
  /\ Goto(c, "idle")
  /\ UNCHANGED <<moduleVars, enabled, outcome, next, disturbed>>

-----------------------------------------------------------------------------

UserStep(u)   == \/ Enable(u) \/ Disable(u) \/ ResetCounter(u)
PacketStep(c) == \/ Look(c) \/ Enter(c) \/ Relook(c) \/ Count(c)
                 \/ CountReceived(c) \/ Note(c) \/ Record(c) \/ CountDecision(c)

Next ==
  \/ Module
  \/ \E u \in Users : Open(u) \/ Close(u) \/ Ioctl(u) \/ UserStep(u)
  \/ \E c \in Contexts : Receive(c) \/ PacketStep(c)
  \/ \E t \in Threads : UseAfterFree(t)

Spec == Init /\ [][Next]_vars

-----------------------------------------------------------------------------
(* Properties.                                                             *)

PacketLabel == {"idle", "look", "enter", "relook", "count", "counting",
                "record", "recording", "noting", "fault"}
UserLabel   == {"idle", "enabling", "disabling", "resetting", "fault"}

\* Every variable has its type.
TypeOK ==
  /\ phase \in {"absent", "loading", "loaded", "stopping", "releasing"}
  /\ step \in Resource \cup {"none"}
  /\ leaving \in BOOLEAN
  /\ acquired \subseteq Resource
  /\ pf_dev \in BOOLEAN
  /\ enabled \in BOOLEAN
  /\ stats \in [Counter -> Nat]
  /\ open \subseteq Users
  /\ pc \in [Threads -> PacketLabel \cup UserLabel]
  /\ \A c \in Contexts : pc[c] \in PacketLabel
  /\ \A u \in Users : pc[u] \in UserLabel
  /\ outcome \in [Contexts -> Outcome]
  /\ next \in [Users -> 1 .. Len(ResetOrder)]
  /\ disturbed \in BOOLEAN
  /\ met \subseteq Users

\* On no path of pf_init and pf_exit is a resource held whose base is gone,
\* acquired while it is held, or released while it is not.
ResourcesNest ==
  /\ \A r \in acquired \ {"memory"} : Below(r) \in acquired
  /\ phase = "loading" => step \notin acquired
  /\ phase = "releasing" /\ step # "none" => step \in acquired

\* When pf_init has failed, wherever it did, and when pf_exit is through,
\* nothing is held and no pointer to the structure is left.
NothingLeftBehind == phase = "absent" => acquired = {} /\ ~ pf_dev

\* No ioctl accesses the structure after its end, on whatever path of pf_init
\* and pf_exit, unless its file was open while a pf_init failed: a file that
\* met no failure keeps pf_exit away until it is closed.
IoctlsAreSafe == \A u \in Users : pc[u] = "fault" => u \in met

\* Contexts whose packet has been received and not been accounted for.
Pending == {c \in Contexts : pc[c] \in {"record", "recording", "noting"}}

\* Short of a reset, every packet received is counted once: as allowed,
\* dropped, monitored, invalid or an error, or it is still under way.
Balanced ==
  ~ disturbed /\ Allocated =>
    stats["received"] = stats["allowed"] + stats["dropped"] + stats["monitored"]
                        + stats["invalid"] + stats["errors"] + Cardinality(Pending)

\* Contexts with a packet that will be filtered.
Filtering == {c \in Contexts : pc[c] \in {"count", "counting", "record",
                                          "recording", "noting"}}

\* Once pf_exit has disabled the filter no further packet is filtered, so
\* that the packets under way can only become fewer.
ExitDrains ==
  [][leaving /\ phase = "releasing" => Filtering' \subseteq Filtering]_vars

-----------------------------------------------------------------------------
(* What the documents say of the driver and the driver does not do.        *)

\* "Avoid use-after-free", says docs/kernel-driver.md: no ioctl of a file
\* opened during a pf_init that then fails meets a freed structure.
OpenFilesAreSafe == \A u \in Users : pc[u] # "fault"

=============================================================================
