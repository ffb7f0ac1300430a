----------------------------- MODULE Statistics -----------------------------
(***************************************************************************)
(* The statistics subsystem (kernel/packet_filter/statistics.c): counters  *)
(* that every context moves one atomic operation at a time, and snapshots  *)
(* and resets that walk over them counter by counter.                      *)
(*                                                                         *)
(* A call is the sequence of its accesses to shared state: todo holds what *)
(* a thread has still to do of the call it is in, and every access is a    *)
(* step.  The spinlock is held across steps by snapshots and full resets;  *)
(* a critical section of one access is one step.  No file of the           *)
(* repository calls the subsystem, so any thread may make any call.        *)
(***************************************************************************)
EXTENDS Integers, Lists

CONSTANTS
  Threads,     \* contexts that call the subsystem
  NoThread,    \* the spinlock is free
  Calls,       \* the calls an instance explores
  Watched,     \* the counters it follows; accesses to the others are left out
  Lengths,     \* packet lengths
  MaxCount     \* bound: nothing is recorded once a counter is this high

\* The counters, in the order in which each reset function zeroes them.
PacketCounters   == <<"rx_packets", "rx_bytes", "tx_packets", "tx_bytes",
                      "total_packets", "total_bytes">>
DecisionCounters == <<"rx_allowed", "rx_dropped", "rx_monitored",
                      "tx_allowed", "tx_dropped", "tx_monitored">>
ProtocolCounters == <<"tcp_packets", "udp_packets", "icmp_packets", "other_packets">>
ParserCounters   == <<"parsed_packets", "parse_errors", "malformed_packets">>
RuleCounters     == <<"whitelist_matches", "blacklist_matches",
                      "monitor_matches", "rule_misses">>
ErrorCounters    == <<"memory_errors", "invalid_rule_errors", "ioctl_errors",
                      "internal_errors">>

Counter == UNION {Range(group) : group \in
                    {PacketCounters, DecisionCounters, ProtocolCounters,
                     ParserCounters, RuleCounters, ErrorCounters}}

ASSUME ThreadsAssumption  == IsFiniteSet(Threads)
ASSUME NoThreadAssumption == NoThread \notin Threads
ASSUME WatchedAssumption  == Watched \subseteq Counter
ASSUME BoundsAssumption   == MaxCount \in Nat /\ Lengths \subseteq Nat

VARIABLES
  initialized,  \* pf_statistics_initialized
  enabled,      \* pf_engine_stats.enabled
  counter,      \* pf_engine_stats.global
  holder,       \* the thread inside pf_engine_stats.lock
  todo,         \* what is left of each thread's call
  snapshot,     \* what the snapshot under way has copied so far
  before,       \* history: the counters when the lock was taken
  torn          \* history: recordings under way when the last full reset began

vars == <<initialized, enabled, counter, holder, todo, snapshot, before, torn>>

lockVars  == <<holder, snapshot, before, torn>>
stateVars == <<initialized, enabled>>

-----------------------------------------------------------------------------
(* Accesses.  "n" is the amount of an addition, and for a test the number  *)
(* of accesses to leave out when it fails.                                 *)

Access(op, on, n) == [op |-> op, on |-> on, n |-> n]
Do(op)            == Access(op, "none", 0)
Add(c, n)         == Access("add", c, n)

Follow(steps) ==
  Selection(steps, {s \in Range(steps) : s.on \in Watched \cup {"none"}})

Each(op, counters) ==
  Follow([i \in DOMAIN counters |-> Access(op, counters[i], 0)])

\* "if (!pf_statistics_initialized) return" in front of the rest of a call.
IfInitialized(steps) == <<Access("ask", "none", Len(steps))>> \o steps

\* ... and pf_statistics_is_enabled, in front of what a function records.
IfRecording(recorded) ==
  IfInitialized(<<Access("look", "none", Len(recorded))>> \o recorded)

IfEnabled(adds) == IfRecording(Follow(adds))

-----------------------------------------------------------------------------
(* Recording.                                                              *)

RecordRx(len) == IfEnabled(<<Add("rx_packets", 1), Add("rx_bytes", len),
                             Add("total_packets", 1), Add("total_bytes", len)>>)

RecordTx(len) == IfEnabled(<<Add("tx_packets", 1), Add("tx_bytes", len),
                             Add("total_packets", 1), Add("total_bytes", len)>>)

RecordAllow   == {IfEnabled(<<Add(c, 1)>>) : c \in {"rx_allowed", "tx_allowed"}}
RecordDrop    == {IfEnabled(<<Add(c, 1)>>) : c \in {"rx_dropped", "tx_dropped"}}
RecordMonitor == {IfEnabled(<<Add(c, 1)>>) : c \in {"rx_monitored", "tx_monitored"}}

RecordProtocol == {IfEnabled(<<Add(c, 1)>>) : c \in Range(ProtocolCounters)}
RecordParser   == {IfEnabled(<<Add(c, 1)>>) : c \in Range(ParserCounters)}
RecordRule     == {IfEnabled(<<Add(c, 1)>>) : c \in Range(RuleCounters)}
RecordError    == {IfEnabled(<<Add(c, 1)>>) : c \in Range(ErrorCounters)}

\* The match by the rule's type, then the decision by the action, which
\* counts as received; each asks again whether the subsystem is enabled.
RecordRuleAction ==
  {IfRecording(IfEnabled(<<Add(match, 1)>>) \o decision) :
     match    \in Range(RuleCounters),
     decision \in {IfEnabled(<<Add(c, 1)>>) :
                     c \in {"rx_allowed", "rx_dropped", "rx_monitored"}}}

-----------------------------------------------------------------------------
(* Resetting and reading.                                                  *)

ResetPackets   == Each("zero", PacketCounters)
ResetDecisions == IfInitialized(Each("zero", DecisionCounters))
ResetProtocols == IfInitialized(Each("zero", ProtocolCounters))
ResetParser    == IfInitialized(Each("zero", ParserCounters))
ResetRules     == Each("zero", RuleCounters)
ResetErrors    == IfInitialized(Each("zero", ErrorCounters))

ResetGroups == ResetPackets \o ResetDecisions \o ResetProtocols \o ResetParser
               \o ResetRules \o ResetErrors

\* Faulty: a reset without the lock, one that keeps it longer, and one that
\* never gives it back.
UnlockedReset   == IfInitialized(ResetGroups \o <<Do("engine")>>)
LongLockedReset == IfInitialized(<<Do("lock")>> \o ResetGroups
                                 \o <<Do("engine"), Do("unlock")>>)
KeptLockReset   == IfInitialized(<<Do("lock")>> \o ResetGroups \o <<Do("engine")>>)

\* The rule engine resets its own counters, under its mutex, at the end.
Reset == IfInitialized(<<Do("lock")>> \o ResetGroups
                       \o <<Do("unlock"), Do("engine")>>)

Exit == IfInitialized(Reset \o <<Do("clear_enabled"), Do("clear_initialized")>>)

SnapshotOrder == <<"rx_packets", "rx_bytes", "rx_allowed", "rx_dropped",
                   "rx_monitored", "tx_packets", "tx_bytes", "tx_allowed",
                   "tx_dropped", "tx_monitored">>
                 \o ProtocolCounters \o ParserCounters \o RuleCounters
                 \o ErrorCounters \o <<"total_packets", "total_bytes">>

GetSnapshot ==
  IfInitialized(<<Do("lock")>> \o Each("copy", SnapshotOrder) \o <<Do("unlock")>>)

\* Reads without the lock, printed or returned; which counter is read makes
\* no difference to anybody.
Reads(counters) == [i \in DOMAIN Each("print", counters) |-> Do("print")]

DumpPackets   == Reads(PacketCounters)
DumpProtocols == Reads(ProtocolCounters)
DumpRules     == Reads(RuleCounters) \o <<Do("engine")>>
DumpErrors    == Reads(<<"parse_errors", "malformed_packets">> \o ErrorCounters)

Dump == IfInitialized(DumpPackets \o DumpProtocols \o DumpRules \o DumpErrors)

Readers == {Reads(<<c>>) : c \in Range(PacketCounters)}
           \cup {Reads(pair) : pair \in {<<"rx_allowed", "tx_allowed">>,
                                        <<"rx_dropped", "tx_dropped">>,
                                        <<"rx_monitored", "tx_monitored">>}}

\* The counters of a rule, copied under the engine's mutex.
GetRuleStats == IfInitialized(<<Do("engine")>>)

\* What a call may do, by its name.
Body ==
  [rx             |-> {RecordRx(len) : len \in Lengths},
   tx             |-> {RecordTx(len) : len \in Lengths},
   allow          |-> RecordAllow,
   drop           |-> RecordDrop,
   monitor        |-> RecordMonitor,
   protocol       |-> RecordProtocol,
   parser         |-> RecordParser,
   rule           |-> RecordRule,
   error          |-> RecordError,
   rule_action    |-> RecordRuleAction,
   enable         |-> {IfInitialized(<<Do("enable")>>)},
   disable        |-> {IfInitialized(<<Do("disable")>>)},
   reset          |-> {Reset},
   reset_part     |-> {ResetDecisions, ResetProtocols, ResetParser, ResetErrors},
   exit           |-> {Exit},
   get_snapshot   |-> {GetSnapshot},
   dump           |-> {Dump, DumpPackets, DumpProtocols, DumpRules, DumpErrors},
   read           |-> Readers,
   get_rule_stats |-> {GetRuleStats}]

RecordingCalls == {"rx", "tx", "allow", "drop", "monitor", "protocol", "parser",
                   "rule", "error", "rule_action"}

ASSUME CallsAssumption == Calls \subseteq DOMAIN Body

-----------------------------------------------------------------------------
(* Threads.                                                                *)

Zero == [c \in Watched |-> 0]

Current(t) == Head(todo[t])

At(t, op) == todo[t] # <<>> /\ Current(t).op = op

\* The accesses a thread goes on with, "count" of them done or left out.
Advance(t, count) == todo' = [todo EXCEPT ![t] = SubSeq(@, count + 1, Len(@))]

\* Past its tests a recording only adds: what it still owes to a counter.
Recording(t) == At(t, "add")

Due(steps) == {i \in DOMAIN steps : \A j \in 1 .. i : steps[j].op = "add"}

OwedIn(steps, c) ==
  SumFunction([i \in {j \in Due(steps) : steps[j].on = c} |-> steps[i].n])

Owed(c) == SumFunction([t \in Threads |-> OwedIn(todo[t], c)])

Init ==
  /\ initialized = TRUE
  /\ enabled = TRUE
  /\ counter = Zero
  /\ holder = NoThread
  /\ todo = [t \in Threads |-> <<>>]
  /\ snapshot = <<>>
  /\ before = Zero
  /\ torn = 0

Call(t) ==
  /\ todo[t] = <<>>
  /\ \E call \in Calls :
       /\ call \in RecordingCalls => \A c \in Watched : counter[c] < MaxCount
       /\ \E body \in Body[call] : todo' = [todo EXCEPT ![t] = body]
  /\ UNCHANGED <<stateVars, counter, lockVars>>

\* A test of pf_statistics_initialized.
Ask(t) ==
  /\ At(t, "ask")
  /\ Advance(t, 1 + IF initialized THEN 0 ELSE Current(t).n)
  /\ UNCHANGED <<stateVars, counter, lockVars>>

\* Faulty: the flag read without the lock, and a test that tests nothing.
LookUnlocked(t) ==
  /\ At(t, "look")
  /\ Advance(t, 1 + IF enabled THEN 0 ELSE Current(t).n)
  /\ UNCHANGED <<stateVars, counter, lockVars>>

LookBlindly(t) ==
  /\ At(t, "look")
  /\ holder = NoThread
  /\ Advance(t, 1)
  /\ UNCHANGED <<stateVars, counter, lockVars>>

\* Faulty: a recorder that waits until recording is enabled.
LookUntilEnabled(t) ==
  /\ At(t, "look")
  /\ holder = NoThread
  /\ Advance(t, IF enabled THEN 1 ELSE 0)
  /\ UNCHANGED <<stateVars, counter, lockVars>>

\* The critical section of pf_statistics_is_enabled.
Look(t) ==
  /\ At(t, "look")
  /\ holder = NoThread
  /\ Advance(t, 1 + IF enabled THEN 0 ELSE Current(t).n)
  /\ UNCHANGED <<stateVars, counter, lockVars>>

\* atomic64_inc and atomic64_add.
Increase(t) ==
  /\ At(t, "add")
  /\ counter' = [counter EXCEPT ![Current(t).on] = @ + Current(t).n]
  /\ Advance(t, 1)
  /\ UNCHANGED <<stateVars, lockVars>>

\* atomic64_set to 0.
Clear(t) ==
  /\ At(t, "zero")
  /\ counter' = [counter EXCEPT ![Current(t).on] = 0]
  /\ Advance(t, 1)
  /\ UNCHANGED <<stateVars, lockVars>>

\* The enabled flag under the lock: pf_statistics_enable and _disable.
Switch(t) ==
  /\ At(t, "enable") \/ At(t, "disable")
  /\ holder = NoThread
  /\ enabled' = (Current(t).op = "enable")
  /\ Advance(t, 1)
  /\ UNCHANGED <<initialized, counter, lockVars>>

\* ... and both flags without it, at the end of pf_statistics_exit.
ClearFlag(t) ==
  /\ At(t, "clear_enabled") \/ At(t, "clear_initialized")
  /\ IF Current(t).op = "clear_enabled"
     THEN enabled' = FALSE /\ UNCHANGED initialized
     ELSE initialized' = FALSE /\ UNCHANGED enabled
  /\ Advance(t, 1)
  /\ UNCHANGED <<counter, lockVars>>

\* The lock is taken by a full reset or, with nothing copied, a snapshot.
Lock(t) ==
  /\ At(t, "lock")
  /\ holder = NoThread
  /\ holder' = t
  /\ before' = counter
  /\ torn' = IF \E i \in DOMAIN todo[t] : todo[t][i].op = "copy" THEN torn
             ELSE Cardinality({r \in Threads : Recording(r)})
  /\ Advance(t, 1)
  /\ UNCHANGED <<stateVars, counter, snapshot>>

Copy(t) ==
  /\ At(t, "copy")
  /\ snapshot' = [c \in DOMAIN snapshot \cup {Current(t).on} |->
                    IF c = Current(t).on THEN counter[c] ELSE snapshot[c]]
  /\ Advance(t, 1)
  /\ UNCHANGED <<stateVars, counter, holder, before, torn>>

\* The caller of a snapshot has it now; the next one starts empty.
Unlock(t) ==
  /\ At(t, "unlock")
  /\ holder' = NoThread
  /\ snapshot' = <<>>
  /\ before' = Zero
  /\ Advance(t, 1)
  /\ UNCHANGED <<stateVars, counter, torn>>

\* A read that is printed, and a critical section of the engine's mutex.
Pass(t) ==
  /\ At(t, "print") \/ At(t, "engine")
  /\ Advance(t, 1)
  /\ UNCHANGED <<stateVars, counter, lockVars>>

Step(t) == \/ Ask(t) \/ Look(t) \/ Increase(t) \/ Clear(t) \/ Switch(t) \/ ClearFlag(t)
           \/ Lock(t) \/ Copy(t) \/ Unlock(t) \/ Pass(t)

Next == \E t \in Threads : Call(t) \/ Step(t)

Spec == Init /\ [][Next]_vars

\* A thread inside a call runs on, and the kernel's queued spinlock serves
\* the threads that wait for it in turn.
LiveSpec ==
  Spec /\ \A t \in Threads : WF_vars(Step(t)) /\ SF_vars(Lock(t) \/ Look(t) \/ Switch(t))

-----------------------------------------------------------------------------
(* Properties.                                                             *)

Ops == {"ask", "look", "add", "zero", "copy", "print", "lock", "unlock", "engine",
        "enable", "disable", "clear_enabled", "clear_initialized"}

\* Every variable has its type, a thread inside the lock will leave it, and
\* only the lock's holder has a snapshot under way.
TypeOK ==
  /\ initialized \in BOOLEAN
  /\ enabled \in BOOLEAN
  /\ counter \in [Watched -> Nat]
  /\ holder \in Threads \cup {NoThread}
  /\ \A t \in Threads : \A i \in DOMAIN todo[t] :
       todo[t][i] \in [op : Ops, on : Watched \cup {"none"}, n : Nat]
  /\ \A t \in Threads : holder = t => \E i \in DOMAIN todo[t] : todo[t][i].op = "unlock"
  /\ DOMAIN snapshot \subseteq Watched
  /\ snapshot # <<>> => holder # NoThread
  /\ torn \in Nat

\* A full reset is between its lock and its unlock.
Resetting == \E t \in Threads : holder = t /\ \E i \in DOMAIN todo[t] : todo[t][i].op = "zero"

\* A counter together with what the recordings under way will add to it.
Settled(c) == IF c \in Watched THEN counter[c] + Owed(c) ELSE 0

Drift == Settled("total_packets") - Settled("rx_packets") - Settled("tx_packets")

\* pf_stats_record_rx and _tx keep total_packets equal to the sum of both
\* directions up to the recordings under way, and a full reset in between
\* separates them by no more than the recordings it met, however many
\* resets there were: each wipes the difference the last one left.
DriftIsBounded == ~ Resetting => Drift \in -torn .. torn

\* Counters that nothing but a full reset zeroes.
LockedCounters == Range(PacketCounters) \cup Range(RuleCounters)

\* "Protects snapshot/reset operations" (statistics.h:219): a snapshot never
\* shows part of a full reset.  What it copied lies between the counter when
\* it took the lock and the counter now.
SnapshotIsWhole ==
  \A c \in DOMAIN snapshot \cap LockedCounters :
    before[c] <= snapshot[c] /\ snapshot[c] <= counter[c]

\* Once pf_statistics_disable has written the flag, only the recordings that
\* looked before it still count: nothing more is ever owed to any counter.
DisableSettles ==
  [][~ enabled => \A c \in Watched : (counter[c] + Owed(c))' <= counter[c] + Owed(c)]_vars

\* No thread waits for the engine's mutex, where it may sleep, with the
\* spinlock held and interrupts off.
NeverSleepsLocked == \A t \in Threads : At(t, "engine") => holder # t

\* Every call returns, the full reset included, which calls the group resets
\* inside its critical section.
CallsReturn == \A t \in Threads : todo[t] # <<>> ~> todo[t] = <<>>

=============================================================================
