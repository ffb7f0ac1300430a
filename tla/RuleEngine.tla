----------------------------- MODULE RuleEngine -----------------------------
(***************************************************************************)
(* The kernel rule engine (kernel/packet_filter/rule_engine.c): a rule     *)
(* table kept as a linked list of heap objects behind one mutex, and the   *)
(* threads that call its API concurrently.                                 *)
(*                                                                         *)
(* A critical section of pf_engine.lock is one action, except the sort,    *)
(* which holds the lock across one step per list node it moves.  Whatever  *)
(* the code does outside the lock (allocate, free, read a field through a  *)
(* pointer it kept, read default_action) is a step of its own.             *)
(***************************************************************************)
EXTENDS Integers, FiniteSets, SequencesExt

CONSTANTS
  Threads,      \* callers of the API: ioctl and packet-processing contexts
  Objects,      \* addresses kmemdup can return
  NoObject,     \* the NULL pointer
  Packets,      \* packets, told apart only by the rules that match them
  NoPacket,     \* no packet under evaluation
  Bodies,       \* rule contents callers submit
  CallerIds,    \* rule ids callers choose themselves; 0 asks for one
  IdSpace,      \* number of rule ids: 2^32 for the code's __u32
  MaxRules,     \* PF_RULE_ENGINE_MAX_RULES
  MaxPriority,  \* PF_RULE_PRIORITY_MAX
  MaxHits,      \* bound on the evaluations counted against one rule
  Ops           \* API calls an instance explores

RuleType == {"WHITELIST", "BLACKLIST", "MONITOR"}
Action   == {"ALLOW", "DROP", "MONITOR"}
Id       == 0 .. IdSpace - 1

\* What a caller fills in: "enabled" is the rule's state, "pattern" the set
\* of packets its match fields select.
Body == [priority : Nat, type : RuleType, action : Action,
         enabled : BOOLEAN, pattern : SUBSET Packets]

\* The counters of struct pf_rule_stats; bytes move with "matched".
Counter == Action \cup {"matched"}
Rule    == [id : Id, body : Body, hits : [Counter -> Nat]]

OpNames == {"add", "create", "delete", "clear", "rule_state", "update",
            "evaluate", "classify", "set_default", "enable", "reset", "exit"}

ASSUME NoObjectAssumption == NoObject \notin Objects
ASSUME NoPacketAssumption == NoPacket \notin Packets
ASSUME BodiesAssumption   == Bodies \subseteq Body
ASSUME IdAssumption       == /\ IdSpace \in Nat /\ IdSpace > 1
                             /\ CallerIds \subseteq Id
ASSUME LimitAssumption    == /\ MaxRules \in Nat
                             /\ MaxPriority \in Nat
                             /\ MaxHits \in Nat
ASSUME OpsAssumption      == Ops \subseteq OpNames

VARIABLES
  initialized,     \* pf_engine_initialized
  exiting,         \* pf_rule_engine_exit is between its unlock and its end
  late,            \* threads that may have found the engine before its exit
  enabled,         \* pf_engine.enabled
  default_action,  \* pf_engine.default_action
  rules,           \* pf_engine.rules: the list, as a sequence of objects
  rule_count,      \* pf_engine.rule_count
  next_rule_id,    \* pf_engine.next_rule_id
  sorted_rules,    \* the list the sort is building on its stack
  heap,            \* allocated objects and their contents
  pc,              \* where each thread is inside an API call
  obj,             \* the rule pointer a thread keeps in a local variable
  pkt,             \* the packet a thread has had evaluated
  verdict,         \* the action an evaluation hands to its caller
  fresh            \* history: the rule whose place a thread must still sort

vars == <<initialized, exiting, late, enabled, default_action, rules,
          rule_count, next_rule_id, sorted_rules, heap, pc, obj, pkt, verdict,
          fresh>>

engineVars == <<initialized, exiting, enabled, default_action>>
tableVars  == <<rules, rule_count, next_rule_id, sorted_rules, heap>>
evalVars   == <<pkt, verdict>>

-----------------------------------------------------------------------------
(* Rules and the list.                                                     *)

Allocated == DOMAIN heap

\* Every rule of the table, wherever a sort has it at the moment.
Listed == Range(rules) \cup Range(sorted_rules)

Priority(o) == heap[o].body.priority

NoHits == [c \in Counter |-> 0]

NewRule(id, body) == [id |-> id, body |-> body, hits |-> NoHits]

ValidBody(body) == body.priority <= MaxPriority

\* Faulty: a counter wider than the ids it hands out.
UnwrappedSuccessor(id) == id + 1

\* next_rule_id++ on a __u32.
Successor(id) == (id + 1) % IdSpace

Matches(o, p) == heap[o].body.enabled /\ p \in heap[o].body.pattern

\* Faulty: a search that stops one node early.
FindRuleButLast(id) ==
  IF initialized THEN SelectInSeq(Front(rules), LAMBDA o : heap[o].id = id)
  ELSE 0

\* Position of the first rule with this id, 0 when there is none.  With the
\* engine gone the search finds nothing, whatever is in the list.
FindRule(id) ==
  IF initialized THEN SelectInSeq(rules, LAMBDA o : heap[o].id = id) ELSE 0

\* Faulty: a search that goes on after a match.
FindLastMatch(p) ==
  IF initialized THEN SelectLastInSeq(rules, LAMBDA o : Matches(o, p)) ELSE 0

\* Position of the first rule that matches the packet, 0 when none does.
FindMatch(p) ==
  IF initialized THEN SelectInSeq(rules, LAMBDA o : Matches(o, p)) ELSE 0

\* Faulty: an insertion that never finds a place before the tail, and one
\* that compares with <= and so turns equal priorities around.
AppendRule(list, o) == Append(list, o)

InsertBeforeEqual(list, o) ==
  LET later == {i \in DOMAIN list : Priority(o) <= Priority(list[i])}
  IN  InsertAt(list, Min(later \cup {Len(list) + 1}), o)

\* The insertion step of the sort: in front of the first rule of strictly
\* greater priority, at the tail when there is none.
InsertByPriority(list, o) ==
  LET later == {i \in DOMAIN list : Priority(o) < Priority(list[i])}
      at    == IF later = {} THEN Len(list) + 1
               ELSE CHOOSE i \in later : \A j \in later : i <= j
  IN  InsertAt(list, at, o)

-----------------------------------------------------------------------------
(* Threads.                                                                *)

\* The mutex is held across steps by a sort only.
LockFree == \A t \in Threads : pc[t] # "sorting"

Calls(t, op) == pc[t] = "idle" /\ op \in Ops

\* pf_engine_initialized is tested before the lock is taken.  A thread that
\* passed the test can be late and get the lock after the exit.
Entered(t) == initialized \/ t \in late

Goto(t, label) == pc' = [pc EXCEPT ![t] = label]

\* kmemdup of a rule; it may also fail, which callers model by not calling.
Allocate(o, rule) ==
  heap' = [x \in Allocated \cup {o} |-> IF x = o THEN rule ELSE heap[x]]

\* kfree of every object in a set.
Free(objects) == heap' = [x \in Allocated \ objects |-> heap[x]]

\* Faulty: an error path that forgets the kfree.
LeakAndReturn(t) ==
  /\ UNCHANGED heap
  /\ obj' = [obj EXCEPT ![t] = NoObject]
  /\ Goto(t, "idle")

\* Free the object a thread holds and return to the caller.
FreeAndReturn(t) ==
  /\ Free({obj[t]})
  /\ obj' = [obj EXCEPT ![t] = NoObject]
  /\ Goto(t, "idle")

-----------------------------------------------------------------------------
(* pf_rule_engine_init leaves the engine empty, enabled and allowing.      *)

Init ==
  /\ initialized = TRUE
  /\ exiting = FALSE
  /\ late = {}
  /\ enabled = TRUE
  /\ default_action = "ALLOW"
  /\ rules = <<>>
  /\ rule_count = 0
  /\ next_rule_id = 1
  /\ sorted_rules = <<>>
  /\ heap = [o \in {} |-> o]
  /\ pc = [t \in Threads |-> "idle"]
  /\ obj = [t \in Threads |-> NoObject]
  /\ pkt = [t \in Threads |-> NoPacket]
  /\ verdict = [t \in Threads |-> "none"]
  /\ fresh = [t \in Threads |-> NoObject]

-----------------------------------------------------------------------------
(* Adding a rule: duplicate it, insert it under the lock, sort afterwards. *)

\* pf_rule_engine_add_rule up to its lock.
AddRule(t) ==
  /\ Calls(t, "add")
  /\ Entered(t)
  /\ \E body \in Bodies, id \in CallerIds, o \in Objects \ Allocated :
       /\ ValidBody(body)
       /\ Allocate(o, NewRule(id, body))
       /\ obj' = [obj EXCEPT ![t] = o]
  /\ Goto(t, "insert")
  /\ UNCHANGED <<rules, rule_count, next_rule_id, sorted_rules, fresh>>
  /\ UNCHANGED <<engineVars, evalVars>>

\* pf_rule_engine_create_rule: the id is taken in a critical section of its
\* own and stays taken when the rule is then refused or kmemdup fails.
CreateRule(t) ==
  /\ Calls(t, "create")
  /\ Entered(t)
  /\ LockFree
  /\ next_rule_id' = Successor(next_rule_id)
  /\ \/ \E body \in Bodies, o \in Objects \ Allocated :
          /\ ValidBody(body)
          /\ Allocate(o, NewRule(next_rule_id, body))
          /\ obj' = [obj EXCEPT ![t] = o]
          /\ Goto(t, "insert")
     \/ UNCHANGED <<heap, obj, pc>>
  /\ UNCHANGED <<rules, rule_count, sorted_rules, fresh>>
  /\ UNCHANGED <<engineVars, evalVars>>

\* Faulty: one rule too many.
FullLate == rule_count > MaxRules

\* No further rule is taken.
Full == rule_count >= MaxRules

\* The critical section of pf_rule_engine_add_rule: -ENOSPC, -EEXIST or the
\* rule at the tail of the list, still unsorted when the lock is dropped.
InsertRule(t) ==
  LET o    == obj[t]
      auto == heap[o].id = 0
      id   == IF auto THEN next_rule_id ELSE heap[o].id
  IN  /\ pc[t] = "insert"
      /\ LockFree
      /\ \/ /\ Full
            /\ FreeAndReturn(t)
            /\ UNCHANGED <<rules, rule_count, next_rule_id, fresh>>
         \/ /\ ~ Full
            /\ next_rule_id' = IF auto THEN Successor(next_rule_id)
                               ELSE next_rule_id
            /\ \/ /\ FindRule(id) # 0
                  /\ FreeAndReturn(t)
                  /\ UNCHANGED <<rules, rule_count, fresh>>
               \/ /\ FindRule(id) = 0
                  /\ heap' = [heap EXCEPT ![o].id = id]
                  /\ rules' = Append(rules, o)
                  /\ rule_count' = rule_count + 1
                  /\ fresh' = [fresh EXCEPT ![t] = o]
                  /\ Goto(t, "sort")
                  /\ UNCHANGED obj
      /\ UNCHANGED sorted_rules
      /\ UNCHANGED <<engineVars, evalVars>>

\* pf_rule_engine_sort_rules, called by add and by update after they have
\* dropped the lock: it takes the lock again, or finds the engine gone.
BeginSort(t) ==
  /\ pc[t] = "sort"
  /\ \/ /\ Entered(t)
        /\ LockFree
        /\ Goto(t, "sorting")
        /\ UNCHANGED <<obj, fresh>>
     \/ /\ ~initialized
        /\ Goto(t, "log")
        /\ fresh' = [fresh EXCEPT ![t] = NoObject]
        /\ UNCHANGED obj
  /\ UNCHANGED <<rules, rule_count, next_rule_id, sorted_rules, heap>>
  /\ UNCHANGED <<engineVars, evalVars>>

\* Faulty: a turn of the sort that moves the node to the wrong list head.
MoveRuleToOwnList(t) ==
  /\ pc[t] = "sorting"
  /\ rules # <<>>
  /\ rules' = Append(Tail(rules), Head(rules))
  /\ UNCHANGED <<rule_count, next_rule_id, sorted_rules, heap, pc, obj, fresh>>
  /\ UNCHANGED <<engineVars, evalVars>>

\* One turn of the sort's loop: the head of the list moves to its place.
MoveRule(t) ==
  /\ pc[t] = "sorting"
  /\ rules # <<>>
  /\ rules' = Tail(rules)
  /\ sorted_rules' = InsertByPriority(sorted_rules, Head(rules))
  /\ UNCHANGED <<rule_count, next_rule_id, heap, pc, obj, fresh>>
  /\ UNCHANGED <<engineVars, evalVars>>

\* The sorted list replaces the empty one and the lock is dropped.
EndSort(t) ==
  /\ pc[t] = "sorting"
  /\ rules = <<>>
  /\ rules' = sorted_rules
  /\ sorted_rules' = <<>>
  /\ Goto(t, "log")
  /\ fresh' = [fresh EXCEPT ![t] = NoObject]
  /\ UNCHANGED <<rule_count, next_rule_id, heap, obj>>
  /\ UNCHANGED <<engineVars, evalVars>>

\* The caller returns.  An add first logs new_rule->name, through the
\* pointer it kept while it did not hold the lock; an update kept none.
LogAndReturn(t) ==
  /\ pc[t] = "log"
  /\ obj' = [obj EXCEPT ![t] = NoObject]
  /\ Goto(t, "idle")
  /\ UNCHANGED <<tableVars, engineVars, evalVars, fresh>>

-----------------------------------------------------------------------------
(* Removing and changing rules.                                            *)

\* pf_rule_engine_delete_rule unlinks under the lock and frees after it.
DeleteRule(t) ==
  /\ Calls(t, "delete")
  /\ Entered(t)
  /\ LockFree
  /\ \E id \in Id :
       LET i == FindRule(id)
       IN  /\ i # 0
           /\ rules' = RemoveAt(rules, i)
           /\ obj' = [obj EXCEPT ![t] = rules[i]]
  /\ rule_count' = IF rule_count > 0 THEN rule_count - 1 ELSE rule_count
  /\ Goto(t, "free")
  /\ UNCHANGED <<next_rule_id, sorted_rules, heap, fresh>>
  /\ UNCHANGED <<engineVars, evalVars>>

FreeRule(t) ==
  /\ pc[t] = "free"
  /\ FreeAndReturn(t)
  /\ UNCHANGED <<rules, rule_count, next_rule_id, sorted_rules, fresh>>
  /\ UNCHANGED <<engineVars, evalVars>>

\* Both pf_rule_engine_clear_rules and the first half of the exit.
DropAllRules ==
  /\ rules' = <<>>
  /\ rule_count' = 0
  /\ Free(Range(rules))
  /\ UNCHANGED <<next_rule_id, sorted_rules>>

ClearRules(t) ==
  /\ Calls(t, "clear")
  /\ Entered(t)
  /\ LockFree
  /\ DropAllRules
  /\ UNCHANGED <<pc, obj, fresh>>
  /\ UNCHANGED <<engineVars, evalVars>>

\* pf_rule_engine_enable_rule and pf_rule_engine_disable_rule.
SetRuleState(t) ==
  /\ Calls(t, "rule_state")
  /\ Entered(t)
  /\ LockFree
  /\ \E id \in Id, on \in BOOLEAN :
       LET i == FindRule(id)
       IN  /\ i # 0
           /\ heap' = [heap EXCEPT ![rules[i]].body.enabled = on]
  /\ UNCHANGED <<rules, rule_count, next_rule_id, sorted_rules>>
  /\ UNCHANGED <<pc, obj, fresh, engineVars, evalVars>>

\* pf_rule_engine_update_rule rewrites a rule where it stands, keeping its
\* id and counters, and sorts afterwards.  It never asks for initialized.
UpdateRule(t) ==
  /\ Calls(t, "update")
  /\ LockFree
  /\ \E id \in Id, body \in Bodies :
       LET i == FindRule(id)
       IN  /\ ValidBody(body)
           /\ i # 0
           /\ heap' = [heap EXCEPT ![rules[i]].body = body]
           /\ fresh' = [fresh EXCEPT ![t] = rules[i]]
  /\ Goto(t, "sort")
  /\ UNCHANGED <<rules, rule_count, next_rule_id, sorted_rules, obj>>
  /\ UNCHANGED <<engineVars, evalVars>>

\* Faulty: a reset that forgets one counter.
ResetAllButDrops(t) ==
  /\ Calls(t, "reset")
  /\ Entered(t)
  /\ LockFree
  /\ heap' = [o \in Allocated |->
                IF o \in Range(rules)
                THEN [heap[o] EXCEPT !.hits = [NoHits EXCEPT !["DROP"] =
                                                 heap[o].hits["DROP"]]]
                ELSE heap[o]]
  /\ UNCHANGED <<rules, rule_count, next_rule_id, sorted_rules>>
  /\ UNCHANGED <<pc, obj, fresh, engineVars, evalVars>>

\* pf_rule_engine_reset_statistics.
ResetStatistics(t) ==
  /\ Calls(t, "reset")
  /\ Entered(t)
  /\ LockFree
  /\ heap' = [o \in Allocated |->
                IF o \in Range(rules) THEN [heap[o] EXCEPT !.hits = NoHits]
                ELSE heap[o]]
  /\ UNCHANGED <<rules, rule_count, next_rule_id, sorted_rules>>
  /\ UNCHANGED <<pc, obj, fresh, engineVars, evalVars>>

-----------------------------------------------------------------------------
(* Evaluating packets: pf_rule_engine_evaluate and its caller              *)
(* pf_rule_engine_get_action.                                              *)

\* The engine's state is read in a critical section of its own.  With the
\* engine off the answer is default_action, read without the lock; with the
\* engine gone it is that or the zero that evaluate cleared its result to.
StartEvaluate(t) ==
  /\ Calls(t, "evaluate")
  /\ \/ /\ Entered(t)
        /\ LockFree
        /\ \A o \in Allocated : heap[o].hits["matched"] < MaxHits
        /\ Goto(t, IF enabled THEN "match" ELSE "default")
        /\ UNCHANGED verdict
     \/ /\ ~initialized
        /\ Goto(t, "default")
        /\ UNCHANGED verdict
     \/ /\ ~initialized
        /\ Goto(t, "result")
        /\ verdict' = [verdict EXCEPT ![t] = "ALLOW"]
  /\ UNCHANGED <<tableVars, engineVars, pkt, obj, fresh>>

\* The locked half of evaluate.  On a match the counters move and a pointer
\* to the rule leaves the lock in match->rule.  On none, evaluate answers
\* with default_action under the lock, and get_action reads it again after.
MatchPacket(t) ==
  /\ pc[t] = "match"
  /\ LockFree
  /\ \E p \in Packets :
       LET i      == FindMatch(p)
           o      == rules[i]
           action == heap[o].body.action
       IN  /\ pkt' = [pkt EXCEPT ![t] = p]
           /\ \/ /\ i # 0
                 /\ heap' = [heap EXCEPT ![o].hits["matched"] = @ + 1,
                                         ![o].hits[action] = @ + 1]
                 /\ obj' = [obj EXCEPT ![t] = o]
                 /\ verdict' = [verdict EXCEPT ![t] = action]
                 /\ Goto(t, "result")
              \/ /\ i = 0
                 /\ verdict' = [verdict EXCEPT ![t] = default_action]
                 /\ Goto(t, "result")
                 /\ UNCHANGED <<heap, obj>>
              \/ /\ i = 0
                 /\ Goto(t, "default")
                 /\ UNCHANGED <<heap, obj, verdict>>
  /\ UNCHANGED <<rules, rule_count, next_rule_id, sorted_rules, fresh>>
  /\ UNCHANGED engineVars

\* The read of default_action outside the lock.
ReadDefault(t) ==
  /\ pc[t] = "default"
  /\ verdict' = [verdict EXCEPT ![t] = default_action]
  /\ Goto(t, "result")
  /\ UNCHANGED <<tableVars, engineVars, obj, pkt, fresh>>

\* pf_rule_engine_process_whitelist, _blacklist and _monitor: any matching
\* rule of the type decides, whatever its priority or action and whether
\* or not the engine is enabled.
Classify(t) ==
  /\ Calls(t, "classify")
  /\ LockFree
  /\ \E p \in Packets, type \in RuleType :
       IF Entered(t) /\ \E o \in Range(rules) :
                           heap[o].body.type = type /\ Matches(o, p)
       THEN /\ verdict' = [verdict EXCEPT ![t] =
                             CASE type = "WHITELIST" -> "ALLOW"
                               [] type = "BLACKLIST" -> "DROP"
                               [] type = "MONITOR"   -> "MONITOR"]
            /\ Goto(t, "result")
       ELSE Goto(t, "default") /\ UNCHANGED verdict
  /\ UNCHANGED <<tableVars, engineVars, obj, pkt, fresh>>

\* The caller has used the result and is done with it.
ReturnVerdict(t) ==
  /\ pc[t] = "result"
  /\ obj' = [obj EXCEPT ![t] = NoObject]
  /\ pkt' = [pkt EXCEPT ![t] = NoPacket]
  /\ verdict' = [verdict EXCEPT ![t] = "none"]
  /\ Goto(t, "idle")
  /\ UNCHANGED <<tableVars, engineVars, fresh>>

-----------------------------------------------------------------------------
(* The engine's own state.                                                 *)

\* pf_rule_engine_set_default_action.
SetDefaultAction(t) ==
  /\ Calls(t, "set_default")
  /\ Entered(t)
  /\ LockFree
  /\ default_action' \in Action
  /\ UNCHANGED <<initialized, exiting, enabled, tableVars, evalVars>>
  /\ UNCHANGED <<pc, obj, fresh>>

\* pf_rule_engine_enable and pf_rule_engine_disable.
SetEnabled(t) ==
  /\ Calls(t, "enable")
  /\ Entered(t)
  /\ LockFree
  /\ enabled' \in BOOLEAN
  /\ UNCHANGED <<initialized, exiting, default_action, tableVars, evalVars>>
  /\ UNCHANGED <<pc, obj, fresh>>

\* pf_rule_engine_exit empties the table under the lock, drops the lock and
\* only then lets callers see that the engine is gone.
BeginExit ==
  /\ "exit" \in Ops
  /\ initialized
  /\ ~exiting
  /\ LockFree
  /\ DropAllRules
  /\ exiting' = TRUE
  /\ UNCHANGED <<initialized, late, enabled, default_action, evalVars>>
  /\ UNCHANGED <<pc, obj, fresh>>

EndExit ==
  /\ exiting
  /\ exiting' = FALSE
  /\ initialized' = FALSE
  /\ late' = Threads
  /\ UNCHANGED <<enabled, default_action, tableVars, evalVars>>
  /\ UNCHANGED <<pc, obj, fresh>>

-----------------------------------------------------------------------------

\* A thread starts an API call, or makes it whole in one critical section.
Call(t) ==
  /\ late' = late \ {t}
  /\ \/ AddRule(t) \/ CreateRule(t) \/ DeleteRule(t) \/ ClearRules(t)
     \/ SetRuleState(t) \/ UpdateRule(t) \/ ResetStatistics(t)
     \/ StartEvaluate(t) \/ Classify(t) \/ SetDefaultAction(t) \/ SetEnabled(t)

\* A thread continues the call it is in.
Continue(t) ==
  /\ UNCHANGED late
  /\ \/ InsertRule(t) \/ BeginSort(t) \/ MoveRule(t) \/ EndSort(t)
     \/ LogAndReturn(t) \/ FreeRule(t)
     \/ MatchPacket(t) \/ ReadDefault(t) \/ ReturnVerdict(t)

Next ==
  \/ \E t \in Threads : Call(t) \/ Continue(t)
  \/ BeginExit
  \/ EndExit

Spec == Init /\ [][Next]_vars

\* Nobody has to call the engine.  A thread inside a call is scheduled, and
\* the kernel mutex hands itself to its waiters, so a thread that can take
\* the lock again and again does take it.
Fairness == \A t \in Threads : SF_vars(Continue(t))

LiveSpec == Spec /\ Fairness

-----------------------------------------------------------------------------
(* Properties.                                                             *)

PcLabel == {"idle", "insert", "sort", "sorting", "log", "free",
            "match", "default", "result"}

\* Every variable has its type.
TypeOK ==
  /\ initialized \in BOOLEAN
  /\ exiting \in BOOLEAN
  /\ late \subseteq Threads
  /\ enabled \in BOOLEAN
  /\ default_action \in Action
  /\ rules \in Seq(Objects)
  /\ sorted_rules \in Seq(Objects)
  /\ rule_count \in Nat
  /\ next_rule_id \in Id
  /\ Allocated \subseteq Objects
  /\ heap \in [Allocated -> Rule]
  /\ pc \in [Threads -> PcLabel]
  /\ obj \in [Threads -> Objects \cup {NoObject}]
  /\ pkt \in [Threads -> Packets \cup {NoPacket}]
  /\ verdict \in [Threads -> Action \cup {"none"}]
  /\ fresh \in [Threads -> Objects \cup {NoObject}]

\* Objects a thread owns: a rule not yet inserted, or one already unlinked.
Held(t) == IF pc[t] \in {"insert", "free"} THEN {obj[t]} ELSE {}

\* rule_count, on which -ENOSPC is decided, counts exactly the rules of the
\* table at every moment, a sort in progress included, and stays within
\* PF_RULE_ENGINE_MAX_RULES whoever races whom to the last free slot.
CountMatchesTable ==
  /\ rule_count = Len(rules) + Len(sorted_rules)
  /\ rule_count <= MaxRules

\* No object is linked twice and, while the engine exists, no two rules of
\* the table have one id, although ids come from callers and from a counter
\* that wraps.
UniqueRules ==
  /\ IsInjective(rules)
  /\ IsInjective(sorted_rules)
  /\ Range(rules) \cap Range(sorted_rules) = {}
  /\ initialized =>
       \A o, q \in Listed : o # q => heap[o].id # heap[q].id

\* The list never links freed memory, a thread never frees what is still
\* linked or what another thread holds, and no object is lost: whatever is
\* allocated is in the table or in the hands of a thread that will link it
\* or free it.
HeapOwnership ==
  /\ Allocated = Listed \cup UNION {Held(t) : t \in Threads}
  /\ \A t \in Threads : Held(t) \cap Listed = {}
  /\ \A t, u \in Threads : t # u => Held(t) \cap Held(u) = {}

\* Rules whose last change of place or priority has not been sorted yet.
Fresh == {fresh[t] : t \in Threads}

\* Wherever two rules stand against their priorities, an add or an update of
\* one of them is on its way to sort: the engine never settles unsorted.
InversionsAreFresh ==
  initialized =>
    \A i, j \in DOMAIN rules :
      i < j /\ Priority(rules[j]) < Priority(rules[i]) =>
        rules[i] \in Fresh \/ rules[j] \in Fresh

\* Every match of a rule is counted under the action it led to, across
\* updates that change the action and resets that race evaluations.
HitsConserved ==
  \A o \in Allocated :
    LET hits == heap[o].hits
    IN  hits["matched"] = hits["ALLOW"] + hits["DROP"] + hits["MONITOR"]

\* o stands before q in the table; what a sort has moved comes first.
Before(o, q) ==
  LET list == sorted_rules \o rules
  IN  \E i, j \in DOMAIN list : i < j /\ list[i] = o /\ list[j] = q

\* Rules of equal priority keep the order they were added in: no step of a
\* sort, and no change of other rules, makes two of them change places.
TiesKeepOrder ==
  [][\A o, q \in Listed \cap Listed' :
       Before(o, q) /\ Priority(o)' = Priority(q)' => ~ Before(q, o)']_vars

\* pf_rule_engine_find_match passes over a matching rule of higher priority
\* only where one of the two rules still waits for its sort.
MatchSkipsOnlyFresh ==
  [][\A t \in Threads :
       pc[t] = "match" /\ obj'[t] # NoObject =>
         \A o \in Listed :
           Matches(o, pkt'[t]) /\ Priority(o) < Priority(obj'[t]) =>
             o \in Fresh \/ obj'[t] \in Fresh]_vars

\* A thread inside an API call comes back from it.
CallsReturn == \A t \in Threads : pc[t] # "idle" ~> pc[t] = "idle"

\* An unsorted table is sorted again, however often callers add and update.
SortedList ==
  \A i, j \in DOMAIN rules :
    i < j => Priority(rules[i]) <= Priority(rules[j])
TableGetsSorted == ~ SortedList ~> SortedList \/ ~ initialized

-----------------------------------------------------------------------------
(* What the source and the documents say of the engine and the engine does *)
(* not do.                                                                 *)

\* "Avoid use-after-free", says docs/kernel-driver.md: the rule whose name
\* an add logs when it is done is still allocated.
LoggedRuleIsAllocated ==
  \A t \in Threads :
    pc[t] = "log" /\ obj[t] # NoObject => obj[t] \in Allocated

=============================================================================
