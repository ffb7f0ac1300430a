# Verification of the BeagleBone AI-64 packet filter

TLA+ models, TLC checks and TLAPS proofs for the packet filter of this
repository. Paths are relative to
`src/BeagleBone_AI-64–TI_TDA4VM/` unless they start with `legacy:`, which
stands for `src/Packet_Filter_Driver-main/`.

## 1. Inventory

### How the parts fit together

```
 userspace/tools ──> userspace/lib/libfilter.c ──ioctl──> packet_filter.c (driver)
                                                             │  rx handler
                                                             ▼
 packet_parser.c ──> rule_engine.c <── statistics.c      logging.c
```

The design documents wire all kernel parts into one driver. In the sources the
parts are joined more loosely: `packet_filter.c` has a rule list of its own and
calls a function `pf_filter_packet` that no file defines; `rule_engine.c` is
called by `statistics.c` only; `libfilter.c` guards every ioctl with
`PACKET_FILTER_IOCTL_*` macros that no header defines. So each part is modelled
against every caller its interface admits, not against one call graph.

| part | state | operations | what is hard |
|---|---|---|---|
| **rule engine** `kernel/packet_filter/rule_engine.c` | linked list of rules, `rule_count`, `next_rule_id`, `enabled`, `default_action`, one mutex, an unlocked `initialized` flag, per-rule atomic counters | init, exit, enable/disable, add, create, delete, clear, enable/disable rule, update, sort, find match, evaluate, get action, default action, three type lookups, reset | several critical sections per call, unlocked reads between them, ownership of rule memory, capacity and id races, exit against late calls |
| **driver** `kernel/packet_filter/packet_filter.c` | `pf_dev` pointer, its `enabled`, `initialized`, rule list, twelve atomic counters; character device, class, node | module init and exit with unwinding, open, ioctl (enable, disable, clear, reset), rx handler, packet path, rule operations | ordered acquisition and partial failure, exit with packets and open files in flight, two reads of `enabled` per packet, non-atomic reset |
| **statistics** `kernel/packet_filter/statistics.c` | some thirty global atomics, a switch and a spinlock, `initialized` | record (rx, tx, allow, drop, monitor, protocol, parser, rule), snapshot, six resets, rule statistics | the lock covers snapshot and reset, the counters move without it |
| **packet parser** `kernel/packet_filter/packet_parser.c` | none | Ethernet, IPv4, TCP, UDP, ICMP, whole packet, validate, offsets, address and port match | bounds, lengths taken from packet fields |
| **logging** `kernel/packet_filter/logging.c` | level, debug switch, four counters, spinlock | log, set level, statistics | unlocked read of the level |
| **userspace library** `userspace/lib/libfilter.c` | descriptor, initialised flag, cached default action, monitoring flag, interface, rule file | init, cleanup, open, close, rules, load, save, reload, statistics, networks | cached state against the driver's, half-done reloads, file truncated before the data is there |
| **tools** `userspace/tools/*.c` | previous sample of the counters | command line, polling | differences of counters across a reset |
| **tests, generators** `tests/` | none of the filter's | unit tests, load | – |
| **legacy driver** `legacy:packet_filter/packet_filter.c` | rule list and rwsem, rule cache, id counter, mode, statistics, virtual net device, log fifo and worker | init, cleanup, ioctl, transmit, rule operations | devices live before the cache exists, error path, cleanup order, rule used after unlock |
| **legacy userspace** `legacy:packet_filter/userspace/` | a descriptor | ioctl wrappers | – |
| **8051 demos, scripts, docs** | – | – | not part of the filter |

What makes each part correct:

- *rule engine*: the table is counted exactly and bounded; no two rules share
  an id; memory is linked, held by one thread, or free; packets are decided by
  the rule of highest priority up to a sort that is on its way; ties keep their
  order; hits are conserved; every call returns; callers see what a plain set
  of rules would answer.
- *driver*: after a failed init nothing is left acquired and nothing is
  released twice; no packet or ioctl touches a freed device; every counted
  packet ends in one decision; after disable returns, later packets pass.
- *statistics*: totals equal the sums of their parts up to the records under
  way and what a reset met; a snapshot never shows half of a full reset;
  nothing is counted after a disable by a record that starts after it; nobody
  sleeps with the spinlock held.
- *parser*: no read outside the data, where the headers are linear; success
  implies what the validator tests; headers lie inside the packet one after
  another; a rule decides a frame by what the frame shows.
- *library*: what a caller was told got through is what it remembers; a load
  counts what was taken; a save that lost nothing can be loaded again; what a
  failing reload or save leaves behind is known.
- *filter_ctl*: an exit status of 1 means that the rules are as they were.
- *filter_stats*: the difference printed is the traffic of the interval.

`PROJECT.json` lists the hazards of all parts at their lines.

## 2. Plan

| | module | state |
|---|---|---|
| 1 | `RuleEngine`, its abstract specification `RulePolicy`, the refinement | modelled, checked, proved (section 3) |
| 2 | `PacketFilter` | modelled, checked, proved (section 4) |
| 3 | `Statistics` | modelled, checked, proved (section 5) |
| 4 | `PacketParser`, with the match fields of a rule | modelled, checked, proved (section 6) |
| 5 | `LibFilter`, and `FilterCtl`, which composes it with the command line tool | modelled, checked, proved (section 7) |
| 6 | `FilterStats` | modelled, checked, proved (section 8) |

Every invariant, every action property and the refinement that a passing run
checks is proved for all values of the constants; the one property with a
further hypothesis is `DriftIsBounded` (section 5). What stays with TLC is
liveness: `CallsReturn` of the rule engine and of the statistics,
`TableGetsSorted` and `StopEnds`.

Parameters are CONSTANTs with named assumptions, operations are one action
each, and no module uses RECURSIVE operators, so that all of them can be proved
about. `Lists` holds the one list operator that several models share;
`ListLemmas` holds what the proofs need of lists, folds and sums: that an
insertion, a removal or a selection keeps the order of what it keeps, that a
fold exists and goes on one element at a time, that a sum over a finite set
changes by what one of its elements changes.

## 3. The rule engine

### Modules

| module | content |
|---|---|
| `RuleEngine` | `rule_engine.c`: state, one action per critical section or unlocked step, properties |
| `RulePolicy` | what callers are promised: a set of rules, the ids that may be out of place, answers to packets |
| `RuleEngineRefinement` | the mapping from `RuleEngine` to `RulePolicy` |
| `ListLemmas` | lemmas on sequences, folds and sums, for all the proofs |
| `RuleEngineProofs` | the inductive invariants and the theorems |
| `RuleEngineRefinementProofs` | the proof of the refinement |
| `MCRuleEngine` | constants for TLC |

### State

`rules`, `rule_count`, `next_rule_id`, `enabled`, `default_action` are the
fields of `struct pf_rule_engine`; `initialized` is `pf_engine_initialized`.
`heap` maps each allocated address to the rule stored there, so that freeing,
leaking and dangling can be told apart; `sorted_rules` is the list on the stack
of `pf_rule_engine_sort_rules`. `pc`, `obj`, `pkt` and `verdict` are the local
state of a thread inside a call. A rule is its `id`, its `body` (priority,
type, action, enabled, and as `pattern` the set of packets its match fields
select) and its `hits`.

Two variables have no counterpart in memory. `fresh[t]` is history: the rule
whose place thread `t` has changed and not sorted yet. `late` holds the threads
that may have read `pf_engine_initialized` before the exit cleared it: every
call tests the flag *before* it takes the mutex, so a thread can pass the test
and get the lock after the exit is over. Instead of one more step per call, the
guard `Entered(t)` admits one such call per thread after the exit.

### Actions and code

| action | code |
|---|---|
| `AddRule`, `InsertRule`, `BeginSort`, `MoveRule`, `EndSort`, `LogAndReturn` | `pf_rule_engine_add_rule` (400–471) with `pf_rule_engine_sort_rules` (1527–1605) |
| `CreateRule` | `pf_rule_engine_create_rule` (345–368): the id is drawn in its own critical section |
| `DeleteRule`, `FreeRule` | `pf_rule_engine_delete_rule` (478–506) |
| `ClearRules` | `pf_rule_engine_clear_rules` (513–539) |
| `SetRuleState` | `pf_rule_engine_enable_rule`, `_disable_rule` (546–591) |
| `UpdateRule`, then the sort | `pf_rule_engine_update_rule` (598–686) |
| `ResetStatistics` | `pf_rule_engine_reset_statistics` (1398–1420) |
| `StartEvaluate`, `MatchPacket`, `ReadDefault`, `ReturnVerdict` | `pf_rule_engine_evaluate` (977–1058), `pf_rule_engine_get_action` (1065–1091) |
| `Classify` | the whitelist, blacklist and monitor lookups (1169–1358) |
| `SetDefaultAction`, `SetEnabled` | 1098–1122, 154–185 |
| `BeginExit`, `EndExit` | `pf_rule_engine_exit` (119–147): unlock, then the flag |

What a critical section does is one action, since no other code sees its
middle; the sort, which holds the lock over a loop, is one action per node, and
the lock is held exactly while some thread is at `"sorting"`. Steps outside the
lock — the allocation before it, the `kfree` and the log after it, the second
read of `default_action` — are actions of their own. A refusal that changes
nothing (`-EINVAL`, `-ENODEV`, `-ENOENT`, `-ENOMEM`) is the same as not calling
and has no action; refusals that change something have (`CreateRule` loses an
id, `InsertRule` frees the copy on `-ENOSPC` and `-EEXIST`).

### Properties

Safety: `CountMatchesTable`, `UniqueRules`, `HeapOwnership`,
`InversionsAreFresh`, `HitsConserved`, and the action properties
`TiesKeepOrder` and `MatchSkipsOnlyFresh`. Liveness: `CallsReturn`,
`TableGetsSorted`. Refinement: `ImplementsPolicy`. Each is stated in words where
it is defined.

### Runs

| run | question | instance |
|---|---|---|
| `re_table` | is the table sound under concurrent changes? | 2 threads, 4 objects, at most 3 rules, ids modulo 4, callers choose 2 or ask for an id; three bodies: two priorities, so that two of three rules tie, and one refused |
| `re_evaluate` | are packets decided and counted as they should be, and do callers see what `RulePolicy` allows? | 2 threads, 2 rules, 2 packets, two bodies that overlap on a packet; add, update, evaluate, set default, the switch, the reset, exit |
| `re_live` | does every call end, does every table get sorted, and do callers see what `RulePolicy` allows while the engine exits? | 2 threads, 2 rules; add, delete, update, classify, rule state, exit; no symmetry |
| `re_log_freed` | *violated*: "Avoid use-after-free" | add, delete |

Bounds. Two threads are enough for each race listed: every hazard is a step of
one call between two steps of another. Three rules are needed to see a sort
insert between two others and a tie on both sides of a third; `IdSpace` is
small so that `next_rule_id` wraps, meets ids callers chose, and passes 0.
`re_table` has an object more than the table has room for, so that a fourth
rule is allocated, meets a full table, alone or in a race for the last slot, and
is freed on `-ENOSPC`; `-EEXIST` happens with the id that callers choose. `MaxHits` caps only the counters, at one
match per rule between two resets. `Ops` selects the calls an instance
explores: the state space of all twelve at once is too large, and the runs are
cut by question; the theorems hold for every `Ops`.

Fairness (`LiveSpec`): strong fairness of `Continue(t)` for each thread, none
for `Call`, `BeginExit` or `EndExit`: nobody has to call, but a call that began
goes on. Weak fairness would not do for steps that need the lock, which other
threads take again and again; the kernel's mutex is fair to its waiters (it
hands itself over to a waiter that lost too often), so a waiter does get it.

### What is disagreed with

- A rule of higher priority is passed over while the add or update that placed
  it has not sorted yet, where the comment at `rule_engine.c` 954–957 says
  "First match is therefore the highest-priority match". `MatchHolds` proves
  that this is the only case; no run is spent on showing that it happens.
- A whitelist rule of higher priority beats a blacklist rule: priority alone
  orders the list, where `docs/packet-flow.md` (872) says "Blacklist > Whitelist >
  Default Policy". Read off `FindMatch`; no run is spent on it.
- `pf_rule_engine_add_rule` logs the name of a rule that may have been freed
  (`re_log_freed`).
- A rule added by a call that tested the engine before its exit, and got the
  lock after it, stays allocated for ever: the exit empties the table first and
  clears `initialized` last. Such calls are part of `re_evaluate` and `re_live`;
  no run is spent on the leak.

### What is proved

For every set of threads, objects, packets and bodies, every id space larger
than one and every limit (`RuleEngineProofs`, from the named assumptions in
`RuleEngine`):

| theorem | property |
|---|---|
| `TypesHold` | `TypeOK` |
| `CountHolds` | `CountMatchesTable` |
| `UniquenessHolds` | `UniqueRules` |
| `OwnershipHolds` | `HeapOwnership` |
| `OrderHolds` | `InversionsAreFresh` |
| `MatchHolds` | `MatchSkipsOnlyFresh` |
| `CountersHold` | `HitsConserved` |
| `TiesHold` | `TiesKeepOrder` |
| `PolicyHolds` | `ImplementsPolicy` (`RuleEngineRefinementProofs`) |

The argument has three layers.

1. `TableInv` = types, count, uniqueness, ownership and `SortIsLocal` (the
   sort's own list is empty unless a thread is sorting). None is inductive
   alone: a delete keeps the types because the object it takes is allocated,
   which is ownership; ownership survives a delete because the object was
   linked once, which is uniqueness; and a search that finds no duplicate in
   `rules` says something of the whole table only because `sorted_rules` is
   empty whenever the lock is free. One lemma per action shows it preserved.
2. `ThreadInv`: a thread owes a sort only between its change and the end of its
   sort, and has no rule pointer before it matches.
3. `OrderInv` adds to `InversionsAreFresh` that the list a sort is building is
   itself sorted (`ScratchIsSorted`). `EndSort` is why: it drops one thread's
   debt and makes that list the table, which then has no inversion at all.
   Elsewhere the work is to show that positions survive: a tail, a removal and
   an append keep the order of the rules they leave, and only a rule that some
   thread now owes a sort for is added or gets another priority. Dropping the
   debt without sorting happens only after the exit, where nothing is claimed.

`HitsConserved` is inductive given the types. `TiesKeepOrder` speaks of steps:
in `MoveRule`, the only one that reorders anything, the head of the list goes
behind its equals in the list being built, and the rules it overtook were
behind it with lower priority. The table as a whole is the built list followed
by what is left, and the lemmas on inserting say that nothing else moves.

`PolicyHolds` maps each step: one that links, unlinks, rewrites or toggles a
rule is `Install`, `Remove`, `Rewrite` or `Toggle`; `EndSort` is `Settle`, which
drops what was unsettled; moving a rule within a sort and freeing one that is no
longer listed are stutters; a match is `Decide`, and that no rival of higher
priority was passed over unless one of the two is unsettled is
`InversionsAreFresh`. It needs the invariant of the theorems above and
`ContentsInv`: the bodies in the heap are those the policy knows.

### What is only model-checked, and what is not modelled

- Only TLC: liveness (beyond the prover).
- `pf_rule_engine_init` after an exit: it wipes the engine, mutex included. The
  engine starts initialised and is gone after its exit.
- `pf_rule_engine_insert_by_priority` (1493–1524), which nothing calls and
  which links a rule without lock, id or count; the dump and name functions,
  which change nothing.
- Data: names, interfaces, addresses and ports are reduced to which packets a
  rule matches; bytes move with the packet counters.
- The atomic counters are modelled as moving inside the critical section that
  moves them; code that reads them without the lock (the dump functions) is
  left out.

## 4. The driver

### Modules

| module | content |
|---|---|
| `PacketFilter` | `packet_filter.c`: loading, unwinding, removal, open files, ioctls, packets |
| `PacketFilterProofs` | the inductive invariant and the theorems |
| `MCPacketFilter` | constants for TLC |

### State

`phase` and `step` say where the single thread inside `pf_init` or `pf_exit`
is: the resource it acquires or gives back next. `acquired` is the set of
resources held, where `"memory"` is the structure behind `pf_dev`; the pointer
itself is `pf_dev`. The two differ between `kfree(pf_dev)` and
`pf_dev = NULL`, and that is where the hazards are. `enabled` and `stats` are
fields of the structure. Each context (a CPU with a packet) and each user (a
process with at most one file) has a `pc`; `outcome` is what the parser and
the rules make of a context's packet. `disturbed` is history: a reset or a
reload came between the counts of some packet; so is `met`, the users whose
file was open while a `pf_init` gave its structure up.

### Actions and code

Each test of `pf_dev` and each access behind one is a step of its own, because
nothing keeps the structure alive in between. A critical section of
`pf_state_lock` is one step.

| action | code |
|---|---|
| `BeginInit`, `Acquire`, `EndInit` | `pf_init` (751–890), one step per resource |
| `FailToAcquire`, `Release`, `Forget` | its labels (893–925): `ErrorLabel` is the table of the gotos, `Below` the order in which the labels fall through |
| `BeginExit`, `StopFiltering`, `Release`, `Forget` | `pf_exit` (933–999), which releases in the same order |
| `Open`, `Close`, `Ioctl` | 82–146, with the test of `pf_dev` in the function called |
| `Enable`, `Disable`, `ResetCounter` | 168–255; the reset is one step per counter |
| `Receive`, `Look` | `pf_rx_handler` (515–529) asks `pf_is_enabled` |
| `Enter`, `Relook` | `pf_process_packet` (393–409) tests again |
| `Count`, `CountReceived` | `pf_stats_packet_received` (258–265) |
| `Note` | the accesses of 416 and 446, which have no test of their own |
| `Record`, `CountDecision` | `pf_allow_packet` and its two sisters (456–508, 268–295) |
| `UseAfterFree` | any of these accesses after the `kfree`; the thread goes to `"fault"` and is not followed |

What the kernel contributes is external to the repository and modelled from how
the code relies on it (`.owner = THIS_MODULE`): a device can be opened as soon
as `cdev_add` has succeeded, inside `pf_init` too; it cannot be opened while the
module is removed; a removal starts only with no file open; `release` is not
called while an ioctl of the file runs. Packets come from whoever attaches
`pf_rx_handler`: `pf_register_netdev` does not, by its own comment, so that the
model admits packets at any time, and `pf_exit` has nothing it could detach.
A new load is not considered while a file of an earlier one is open.

### Runs

| run | question | instance |
|---|---|---|
| `pf_module` | do all paths of loading and removal balance, and is every packet counted once, with a user and packets about? | 2 contexts, 1 user, every resource may fail, at most 2 packets between resets |
| `pf_failed_init` | *violated*: "Avoid use-after-free" | 1 context, 1 user, failures |

Bounds. One user against the module shows every race between an ioctl and a
load or a removal; two contexts are needed for a reload with one packet of
the old load and one of the new, and for counters moved by both.
`MaxReceived` stops new packets, not their processing. `IoctlsAreSafe` is about
every load and removal of the run, those after a failed load included: only a
user in `met` gets to freed memory, which the run does reach. No liveness is stated:
`pf_init` and `pf_exit` have no loop and wait for nobody.

### What is disagreed with

- Nothing flushes packets between disabling the filter and freeing the
  structure, where `docs/kernel-driver.md` (1155–1165) puts "Flush active
  operations" before anything is freed. `ExitDrains` says what does hold: from then on they
  can only become fewer.
- A file opened during a load that fails afterwards reaches freed memory
  (`pf_failed_init`). `IoctlsStaySafe` proves that a failing `pf_init` is the
  only way.
- `pf_init` switches the filter off as its last assignment, after a user may
  have switched it on.
- Not a disagreement, but worth knowing: a reset between the two counts of a
  packet zeroes only the first, and Allowed stays above RX, which
  `docs/testing.md` (1049) takes for about equal. `BalanceHolds` proves that
  without a reset the sum is exact.

### What is proved

For any finite set of contexts, any users, any bound and any set of resources
that may fail (`PacketFilterProofs`):

| theorem | property |
|---|---|
| `DriverTypesHold` | `TypeOK` |
| `NestingHolds` | `ResourcesNest` |
| `NothingStays` | `NothingLeftBehind` |
| `IoctlsStaySafe` | `IoctlsAreSafe` |
| `ExitDrainsHolds` | `ExitDrains` |
| `BalanceHolds` | `Balanced` |

`DriverInv` is inductive. Its part `ModuleShape` says that `acquired` is
determined by `phase` and `step`: `Before(step)` while loading,
`DownFrom(step)` while releasing; a goto label is right exactly if it maps the
one to the other. Types need it, since a step that acquired `"memory"` would
have no successor. Its part `UsersHoldFiles` says that whoever is inside an
ioctl has a file open, that the exit runs without files, and that a file that
is open while there is no structure, or while it is given up, is one of `met`. `Balanced` is inductive given `DriverInv`; its
steps move the counters and the cardinality of `Pending` by the same amount.

### What is not modelled

- The driver's rule list (593–744): no file of the repository adds a rule to
  it. Its operations resemble those of the rule engine, which are modelled.
- `initialized` and `debug_enabled`, which no code of the driver reads, the
  counters in bytes, which move with those in packets, and `rule_matches` and
  `rule_misses`, which only the reset touches.
- The parsing in `pf_extract_packet_info` and the decision of
  `pf_filter_packet`, which no file defines: `Judge` admits every outcome.

## 5. The statistics

`Statistics` models `statistics.c`. A call is the sequence of its accesses to
shared state, `todo[t]` is what is left of the one thread `t` is in, and every
access is a step: a test of `pf_statistics_initialized` (`Ask`), the critical
section of `pf_statistics_is_enabled` (`Look`), one `atomic64_inc`, `_add`,
`_set` or `_read` (`Increase`, `Clear`, `Copy`, `Pass`), taking and giving back
the spinlock (`Lock`, `Unlock`), the flags (`Switch`, `ClearFlag`). A test
carries the number of accesses to leave out when it fails. The functions of the
file are the operators `RecordRx` … `GetRuleStats`, in its order; `Body` lists
them by name. So an order that matters — the counters of a record, the groups
of a reset, the engine's reset after the unlock — is read off one definition.
No file of the repository calls the subsystem, so any thread makes any call.
`before` and `torn` are history: the counters when the lock was taken, and how
many recordings the last full reset met.

`st_counters` has 2 threads, all calls, and follows four counters: both
directions, their total, and one that the exported reset of its group zeroes
without the lock; accesses to the others are left out of `todo`, and the module
is written so that any set may be followed. Two threads make every race between
two calls. `MaxCount` ends recording, nothing else: a drift needs one record.

- `DriftIsBounded` – the total stays equal to its parts up to records under
  way; a full reset that meets `n` of them leaves a difference of at most `n`,
  and the next one wipes it. With a third thread `n` is 2.
- `SnapshotIsWhole` – of the counters that only a full reset zeroes, a snapshot
  shows none from before and one from after it. The resets of one group are
  exported and lock nothing, and of their counters this is false.
- `DisableSettles`, `NeverSleepsLocked`, and the liveness property
  `CallsReturn`, which holds because the group resets, called inside the
  critical section of the full one, do not take the lock themselves.

Fairness: a thread inside a call runs on (weak), and one that waits for the
spinlock gets it though others take it again and again (strong on the steps
that need it): the kernel's spinlocks are queued.

What is proved (`StatisticsProofs`), for any finite set of threads, any calls,
any packet lengths and any set of counters followed:

| theorem | property |
|---|---|
| `CountersTypesHold` | `TypeOK` |
| `NeverSleepsHolds` | `NeverSleepsLocked` |
| `SnapshotHolds` | `SnapshotIsWhole` |
| `DisableHolds` | `DisableSettles` |
| `DriftHolds` | `DriftIsBounded`, where the packets of both directions and their total are among the counters followed: an instance that leaves one out cannot say how they differ |

The state says only what each thread has left to do, so the inductive
invariant has to say of what. `PlaceInv`: each thread is at a place in a program,
that is, `todo[t]` is what follows the first `pc` accesses of some `p`, and `t`
has the lock exactly between the places `k` and `l` of it. `Program(p, k, l)`
says what the proofs need of a program, and `BodiesArePrograms` that every
call's body is one. A program without a critical section is `Open`: a test leads
to its end or to something that is no addition, and an addition stands in a run
behind the look of its recording, which adds to each counter once and to
`total_packets` exactly if to a direction. In a `Section` tests in front of the
lock lead to it or behind its return, nothing behind it needs it, and inside are
either copies or the zeroes of a reset, with `rx_packets`, `tx_packets` and
`total_packets` in this order. That programs stay programs when they are put
behind a test or one after another (`OpenConcat`, `SectionIfInitialized`, …)
is what lets one argument serve all calls, for counters that may be left out.

- `NeverSleepsLocked` and `TypeOK` are read off the place of the holder.
- `SnapshotIsWhole` needs the history `before`: while a snapshot has the lock,
  the counters only a full reset zeroes are no less than at its start, because
  whoever zeroes them has the lock.
- `DisableSettles` and `DriftIsBounded` need what a thread owes at its place:
  what is left of its run, and nothing anywhere else. An addition moves it to
  the counter; only an enabled look makes it more, by one packet on both sides
  of the drift.
- `DriftIsBounded` is not inductive: `DriftInv` adds what holds in the middle of
  a reset. No look passes while the lock is held, so what is owed to either
  side when the reset starts is at most `torn`, one for each recording, and only falls;
  each zero replaces what a counter and its debts come to by the debts alone.
  After `rx_packets` that one is bounded, after `tx_packets` both together, and
  after `total_packets` the difference is. What the last reset left is wiped.

Left out: `pf_statistics_init` after an exit, which wipes the lock with the
counters. `reset_count` is written by the reset only and read by nobody.

## 6. The packet parser

`PacketParser` models `packet_parser.c` and what `rule_engine.c` (209–338,
693–1007) makes of its result. `pf_parse_packet` is an action per layer, in each
of which the parser of that layer, its result code and its validator are
operators named after them; `packet` is `struct pf_parsed_packet`, with what a
failing layer leaves in it. A frame is its length and its header fields, 16-bit
fields as two bytes in network order, addresses as sets of bits.

`pf_packet_data` compares with `skb->len` and answers `skb->data + offset`, and
nothing here pulls: of a frame the first `headlen` bytes are there, the linear
part, and the rest is in fragments. `EthernetLook`, `Ipv4Look` and
`TransportLook` are how far a parser looks into its header before it gives up or
has read it; a look behind the linear part is `ReadFragment`, which ends the run
at `"fault"`: what is read there is no byte of the frame.

`Match` then matches a rule the engine accepts against the packet, whatever the
parser made of it. The engine never asks `pf_validate_packet`, so that a packet
given up half way is matched by the fields it got and by zeros for the others.

`pp_parse` parses every combination of 17 lengths, each next to the end of a
header, with wrong and right versions, header lengths with and without options,
length fields whose order of bytes matters, and four protocols; frames of 60
bytes with 20 lengths of the linear part around the same boundaries; and 324
well-formed frames that differ in what rules look at, one interface being none.
Each is matched against 16 rules, each field alone and several together. The
system stops when a frame is done, so deadlock is not checked.

- `LinearHeadersSuffice` – a read behind the linear part happens only where the
  linear part ends inside the headers the frame claims to have: never in a
  linear frame, and never in one whose headers were pulled.
- `HeadersFit` – no header length of the frame leads an offset out of it, and
  payload and headers add up.
- `ValidIffSuccess`, `UnsupportedIsExact` – the parser, the validator and
  `pf_packet_protocol_supported` agree, at whatever layer parsing ended.
- `MatchIsOnFrame` – parsing and matching decide every frame as a reference
  definition does that looks at what the frame shows by its own lengths: a
  truncated frame, a UDP packet of wrong length, no IPv4 at all. A frame parsed
  to the end is decided by all its fields.

What is proved (`PacketParserProofs`), for every set of frames and rules whose
fields fit their widths:

| theorem | property |
|---|---|
| `ParserTypesHold` | `TypeOK` |
| `FragmentReadsHold` | `LinearHeadersSuffice` |
| `HeadersHold` | `HeadersFit` |
| `ValidityHolds` | `ValidIffSuccess` |
| `UnsupportedHolds` | `UnsupportedIsExact` |
| `MatchingHolds` | `MatchIsOnFrame` |

`ParserInv` says of each layer that has been passed what its flags, lengths and
fields in `packet` are in terms of the frame (`EthernetParsed`, `Ipv4Parsed`,
`TransportParsed`), and in `Progress` where the parser is and what it answers
when it stops. A look stays inside the headers because the lengths checked one
layer earlier are still known of `packet`, which no property says by itself.

Worth knowing: no file of the repository calls `pf_parse_packet`, so that
nothing says that its caller pulls; `pf_extract_packet_info`, which parses for
the driver, pulls the Ethernet and IPv4 headers and not the transport's
(`packet_filter.c` 317–365). And in the model: a rule's direction takes no part in matching;
the IP total length is not compared with the length of the frame; fragments are
parsed like whole packets; a UDP packet with a wrong length keeps its ports.

## 7. The library and filter_ctl

`LibFilter` models `libfilter.c`: `library[c]` holds the static variables of
process `c`, `driver` the rules and settings the driver has, `file` the lines of
the rule files. A call that makes at most one request is an action with the code
it returns; `load`, `reload` and `save` are a step per request or file access,
with the rest of the call in `todo[c]`. A load opens the file (`StartLoad`) and
takes lines from it as `fgets` fills its buffer, some at a time and as the file
is by then (`FillBuffer`), up to its end (`AtEnd`). A save prints a header and
the rules (`Printed`); the lines get to the file one after another, while others
may read it, truncate it or write to it (`SaveLine`), and any of them may be
lost, since the results of `fprintf` and `fclose` (918–958) are not looked at:
`EndSave` returns `FILTER_SUCCESS` whatever is in the file. The queries change nothing and are
the sets of their answers. `supported` is which `PACKET_FILTER_IOCTL_*` macros
the build found: the code has an `#ifdef` around each request, the
`ioctl_defs.h` of the repository defines none of the names, and the calls differ
in what they do without (an error, or success from what is remembered), so both
builds are checked. The driver may refuse any request, and a process may die
between any two steps. `owner` and `disturbed` are history: whose request last
got a setting through, and whose load or save met a change by another process.

`FilterCtl` extends it with `filter_ctl.c`: `ctl[c]` is the stage, command line
and exit status of a process; a command is an action that takes one of the
library's, with the argument parsers and the dispatch of `main`. Numbers above
`UintLimit`, `UINT32_MAX`, are refused. A process may
be killed at any step, and the next starts with a fresh library.

| run | question | instance |
|---|---|---|
| `lf_calls` | is the library right after any sequence of calls? | 1 process, both builds, a rule that is refused and one that is taken, a file with a line that is skipped, room for 2 rules |
| `ctl` | does the exit status tell what happened, with another process about? | 2 processes: one with any of 28 command lines, one that saves to the file the first saves to; a missing file, a file with a bad port and a rule, one with another rule; room for 2 rules |
| `ctl_reload` | *violated*: "A failed configuration should not leave the driver in a partially updated state" | 1 process |

Addresses are 2 bits wide, enough for the networks /0, /1 and /2 and for an
address that is out of range. Room for two rules lets the driver be full in the
middle of a load. `UintLimit` is 70000, above the 16 bits of ports and
priorities; the order of numbers is all that matters. Two processes that save to
one file show what the one does to the other; two kinds of rules show the
order of a list. That a file is loaded while another process writes it is in the
model, and the theorems cover it; together with the rest it is too large for TLC,
so that in `ctl` the files that are saved to are not loaded, and in `lf_calls`
one process loads what it saved, cut by its own death or by lost lines.

Abstractions of files. The unit is the line: a buffer read ends at the end of a
line, and a line that got to the file in part, or runs into one that did, counts
as lost. What is written beyond the end of a file that another process
truncated leaves zeros in between, and what is written over lines may cut the
next one; both are a `Fragment`, which no load takes for a rule (`Written`).

- `LoadIsExact` – at every moment of a load the driver has what it had, and
  then as many rules as were counted, in the order of the lines; after a
  reload's clear it had none.
- `SaveCanBeLoaded` – a save that returns `FILTER_SUCCESS` leaves as many
  loadable lines as there were rules, in their order, if nobody else wrote to the
  file meanwhile and no line was lost. The last condition is the code's, which
  does not notice: on a full disk the same `FILTER_SUCCESS` comes with a file
  that is cut or empty. No document promises otherwise, so that no run is spent
  on showing it. A network loses its mask, and priority, id and whether the rule
  is enabled are not in the file: the property says what does survive.
- `SettingsAgree` – the settings are written to the cache before the driver is
  asked (`filter_set_default_action`, `_interface`) or after
  (`filter_enable_monitoring`); either way the process that last got one through
  agrees with the driver until one of its own calls fails.
- `FailureChangesNothing` – of every command but `reload`. A load of no rules
  at all exits with 0.

Liveness is not claimed: a call ends when the driver answers, which is not the
library's doing.

What is proved (`UserspaceProofs`), for any processes, file contents, rules,
command lines, width of addresses and room in the driver:

| theorem | property |
|---|---|
| `LibraryTypesHold` | `TypeOK` of `LibFilter` |
| `SettingsHold` | `SettingsAgree` |
| `LoadHolds` | `LoadIsExact` |
| `SaveHolds` | `SaveCanBeLoaded` |
| `CtlTypesHold` | `CtlTypeOK` |
| `FailuresHold` | `FailureChangesNothing` |
| `CtlLoadHolds`, `CtlSaveHolds`, `CtlSettingsHold` | the library's under `filter_ctl` |

`LibInv` strengthens the three of the library by what a process that nobody
meddled with finds between the steps of its call: no rules after a reload's
clear, the rules of an exact load, an empty file when it was opened to save to,
and then what has been printed, as far as it was written (`row` lines out of
`at`, which are equal exactly if none was lost). That one more line keeps a load
exact, that a buffer more does not touch what was read before, and that what is
written loads again, are lemmas about folds over lists of lines. `LibStep` is a step of the library with any
arguments; `CtlStep` shows that every command is one, so that what is proved of
the library holds under the tool. `CtlInv` adds to it that whoever changed the
driver's rules, unless by a reload, is loading or ends with 0
(`Accounted`): a failing command is caught in the middle by this, not by its
exit status.

The assumptions are on what an instance may choose: files, lines, rules and
command lines have the form their parsers give them (`RulesAssumption`,
`ContentsAssumption`, `CommandsAssumption`, …). `PowersAssumption` says that
powers of two are positive numbers, which the provers do not know; TLC
evaluates it on every run.

Worth knowing: a save empties its file first, and a refused `GET_RULES` or a
kill leaves it empty; two reloads that overlap load every rule twice; `status`
prints the monitoring flag of its own new process, always off; a save on a full
disk succeeds.

Not modelled: NULL and buffer-size checks, the contents of statistics, version
strings, `filter_error_string` and the dumps.

## 8. filter_stats

`FilterStats` models `filter_stats.c`: `show`, `reset`, and `monitor` with its
loop, a step per library call and per test of `stop_monitoring`, against a
driver that counts packets modulo `CounterSpace`, refuses reads, and is reset by
others; a signal may come at any step. The tool uses counters that
`libfilter.h` does not declare; `userspace/tools/README.md` (189) says so, and
the model is of the tool built with a header that has them. Of the counters one
is kept, since they are sampled and subtracted alike.

`fs_monitor` takes counters of 2 bits, so that they wrap within an interval;
`Process` is bounded by fewer packets per interval than a counter has values,
beyond which no difference could be right.

- `DeltaIsTraffic` – through wraps and refused reads. A reset in between makes
  the difference far too large (435–457 subtract without a test), and the
  property excludes it.
- `StopEnds` – under weak fairness of the process: it is scheduled, and `sleep`
  and the driver come back. Nothing is assumed of the answers.

What is proved (`FilterStatsProofs`), for every `CounterSpace` above zero (the
code's is 2^64): `StatsTypesHold` (`TypeOK`) and `DeltaHolds`
(`DeltaIsTraffic`). `SamplesTied` is what makes it inductive: the sample the
loop remembers and the driver's counter differ by the traffic since, or by that
less one turn of the counter, so the subtraction modulo `CounterSpace` restores
it.

The elapsed time is measured around the read instead of the interval, so the
printed rates are wrong; rates are not modelled.

## 9. What is only model-checked, and what is not modelled

Proved, for all values of the constants, are all invariants and action
properties of the passing runs and the refinement. Checked by TLC alone, on the
instances above:

- the liveness properties `CallsReturn` (rule engine and statistics),
  `TableGetsSorted` and `StopEnds`: fairness and ENABLED are out of the prover's
  reach;
- the three violations, which are counterexamples.

The theorems are about the models. They rest on the assumptions the modules
name, on TLAPS with its backends Z3, Zenon and LS4, and on the library's
theorems about finite sets, functions and sequences.

Not modelled:

- *Kernel logging*: whether a message is printed; nothing depends on it.
- *The legacy driver* cannot be built: `legacy:packet_filter/packet_filter.c`
  takes `read_lock` (106) on what `packet_filter.h` (83) declares a
  `rw_semaphore`, queues a `pf_log_worker` (395) nobody declares, and calls
  `pf_log_packet` and `pf_update_stats` (14, 15), which nobody defines. It has
  no behaviour to be faithful to. Its userspace is ioctl wrappers.
- *filter_test, benchmark, tests, load generators*: clients of the parts above.
- *8051 demos and scripts*: not part of the filter.

## 10. Running

```
cd tla
tlc -workers 4 -config re_table.cfg MCRuleEngine        # re_evaluate, re_live, re_log_freed
tlc -workers 4 -config pf_module.cfg MCPacketFilter     # pf_failed_init
tlc -workers 4 -config st_counters.cfg MCStatistics
tlc -workers 4 -config pp_parse.cfg MCPacketParser
tlc -workers 4 -config lf_calls.cfg MCLibFilter
tlc -workers 4 -config ctl.cfg MCFilterCtl              # ctl_reload
tlc -workers 4 -config fs_monitor.cfg MCFilterStats
tlapm ListLemmas.tla
tlapm RuleEngineProofs.tla                              # RuleEngineRefinementProofs
tlapm PacketFilterProofs.tla
tlapm StatisticsProofs.tla
tlapm PacketParserProofs.tla
tlapm UserspaceProofs.tla
tlapm FilterStatsProofs.tla
```
