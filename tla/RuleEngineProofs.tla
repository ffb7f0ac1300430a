-------------------------- MODULE RuleEngineProofs --------------------------
(***************************************************************************)
(* Proofs about RuleEngine, for every set of threads, objects, packets and *)
(* rule bodies, every id space and every limit.                            *)
(***************************************************************************)
EXTENDS RuleEngine, ListLemmas, SequenceTheorems, TLAPS

-----------------------------------------------------------------------------
(* The list operations.                                                    *)

\* find_rule returns the position of the first rule with an id, or 0; with
\* the engine gone it returns 0.
LEMMA FindRuleProperties ==
  ASSUME NEW id, rules \in Seq(Objects)
  PROVE  /\ FindRule(id) \in 0 .. Len(rules)
         /\ FindRule(id) # 0 => heap[rules[FindRule(id)]].id = id
         /\ initialized /\ FindRule(id) = 0 =>
              \A i \in 1 .. Len(rules) : heap[rules[i]].id # id
<1> DEFINE I == {i \in 1 .. Len(rules) : heap[rules[i]].id = id}
<1>0. Len(rules) \in Nat
  BY LenProperties
<1>1. FindRule(id) = IF initialized /\ I # {} THEN Min(I) ELSE 0
  BY DEF FindRule, SelectInSeq
<1>2. I \in SUBSET Nat
  BY <1>0
<1>3. CASE ~ initialized \/ I = {}
  <2>1. FindRule(id) = 0 /\ 0 \in 0 .. Len(rules)
    BY <1>0, <1>1, <1>3
  <2>2. QED
    BY <1>3, <2>1
<1>4. CASE initialized /\ I # {}
  <2>1. Min(I) \in I
    BY <1>2, <1>4, LeastElement DEF Min
  <2>2. FindRule(id) = Min(I)
    BY <1>1, <1>4
  <2>3. QED
    BY <1>0, <2>1, <2>2
<1>5. QED
  BY <1>3, <1>4

\* find_match returns the position of the first matching rule, or 0; with
\* the engine gone it returns 0.
LEMMA FindMatchProperties ==
  ASSUME NEW p, rules \in Seq(Objects)
  PROVE  /\ FindMatch(p) \in 0 .. Len(rules)
         /\ FindMatch(p) # 0 =>
              /\ initialized
              /\ Matches(rules[FindMatch(p)], p)
              /\ \A i \in 1 .. FindMatch(p) - 1 : ~ Matches(rules[i], p)
<1> DEFINE I == {i \in 1 .. Len(rules) : Matches(rules[i], p)}
<1>0. Len(rules) \in Nat
  BY LenProperties
<1>1. FindMatch(p) = IF initialized /\ I # {} THEN Min(I) ELSE 0
  BY DEF FindMatch, SelectInSeq
<1>2. I \in SUBSET Nat
  BY <1>0
<1>3. CASE ~ initialized \/ I = {}
  BY <1>0, <1>1, <1>3
<1>4. CASE initialized /\ I # {}
  <2>0. FindMatch(p) = Min(I)
    BY <1>1, <1>4
  <2>1. Min(I) \in I /\ \A j \in I : Min(I) <= j
    BY <1>2, <1>4, LeastElement DEF Min
  <2>2. FindMatch(p) \in 1 .. Len(rules) /\ Matches(rules[FindMatch(p)], p)
    BY <2>0, <2>1
  <2>3. ASSUME NEW i \in 1 .. FindMatch(p) - 1
        PROVE  ~ Matches(rules[i], p)
    <3>1. i \in 1 .. Len(rules) /\ ~ (FindMatch(p) <= i)
      BY <1>0, <2>2
    <3>2. QED
      BY <2>0, <2>1, <3>1
  <2>4. QED
    BY <1>0, <1>4, <2>2, <2>3
<1>5. QED
  BY <1>3, <1>4

\* The sort's insertion puts a rule somewhere into its list: behind no rule
\* of greater priority and in front of one, or at the tail.
LEMMA InsertByPriorityProperties ==
  ASSUME NEW list \in Seq(Objects), NEW o \in Objects
  PROVE  \E at \in 1 .. Len(list) + 1 :
           /\ InsertByPriority(list, o) = InsertAt(list, at, o)
           /\ \A i \in 1 .. at - 1 : ~ (Priority(o) < Priority(list[i]))
           /\ at <= Len(list) => Priority(o) < Priority(list[at])
<1> DEFINE later == {i \in DOMAIN list : Priority(o) < Priority(list[i])}
           at    == IF later = {} THEN Len(list) + 1
                    ELSE CHOOSE i \in later : \A j \in later : i <= j
<1>0. Len(list) \in Nat /\ DOMAIN list = 1 .. Len(list)
  BY LenProperties
<1>1. InsertByPriority(list, o) = InsertAt(list, at, o)
  BY DEF InsertByPriority
<1>2. CASE later = {}
  <2>1. at = Len(list) + 1
    BY <1>2
  <2>2. \A i \in 1 .. Len(list) : ~ (Priority(o) < Priority(list[i]))
    BY <1>0, <1>2
  <2>3. QED
    BY <1>0, <1>1, <2>1, <2>2
<1>3. CASE later # {}
  <2>1. later \in SUBSET Nat
    BY <1>0
  <2>2. \E i \in later : \A j \in later : i <= j
    BY <1>3, <2>1, LeastElement
  <2>3. at \in later /\ \A j \in later : at <= j
    BY <1>3, <2>2
  <2> HIDE DEF at
  <2>4. at \in 1 .. Len(list) /\ Priority(o) < Priority(list[at])
    BY <1>0, <2>3
  <2>5. \A i \in 1 .. at - 1 : ~ (Priority(o) < Priority(list[i]))
    BY <1>0, <2>3, <2>4
  <2>6. QED
    BY <1>0, <1>1, <2>4, <2>5
<1>4. QED
  BY <1>2, <1>3

-----------------------------------------------------------------------------
(* The inductive invariant of the table.                                   *)

\* Outside a sort nothing is on the sort's own list.
SortIsLocal == LockFree => sorted_rules = <<>>

\* The types need the ownership of objects, since a thread reads and frees
\* through the pointer it keeps; the ownership needs uniqueness, since a
\* rule linked twice would stay linked when it is deleted; and both need to
\* know that callers who hold the lock see the whole table in one list.
TableInv ==
  /\ TypeOK
  /\ CountMatchesTable
  /\ UniqueRules
  /\ HeapOwnership
  /\ SortIsLocal

\* A rule that has hit nothing has its counters.
LEMMA NoHitsType == NoHits \in [Counter -> Nat]
BY DEF NoHits

\* A new rule is a rule.
LEMMA NewRuleType ==
  ASSUME NEW body \in Bodies, NEW id \in Id
  PROVE  NewRule(id, body) \in Rule
BY NoHitsType, BodiesAssumption DEF NewRule, Rule

\* What follows an id is an id.
LEMMA SuccessorType ==
  ASSUME NEW id \in Id
  PROVE  Successor(id) \in Id
BY IdAssumption DEF Successor, Id

\* The engine starts with an empty table.
LEMMA InitTableInv == Init => TableInv
<1> SUFFICES ASSUME Init PROVE TableInv
  OBVIOUS
<1> USE DEF Init
<1>1. TypeOK
  <2>1. Allocated \subseteq Objects /\ heap \in [Allocated -> Rule]
    BY DEF Allocated
  <2>2. rules \in Seq(Objects) /\ sorted_rules \in Seq(Objects)
    BY EmptySeq
  <2>3. next_rule_id \in Id
    BY IdAssumption DEF Id
  <2>4. QED
    BY <2>1, <2>2, <2>3 DEF TypeOK, Action, PcLabel
<1>2. Listed = {} /\ Allocated = {}
  BY EmptyList DEF Listed, Allocated
<1>3. CountMatchesTable /\ UniqueRules
  BY <1>2, EmptyList, LimitAssumption DEF CountMatchesTable, UniqueRules
<1>4. HeapOwnership /\ SortIsLocal
  BY <1>2 DEF HeapOwnership, Held, SortIsLocal
<1>5. QED
  BY <1>1, <1>3, <1>4 DEF TableInv

\* An add allocates a rule that only its thread knows.
LEMMA AddRuleStep ==
  ASSUME TableInv, NEW t \in Threads, AddRule(t), late' \subseteq Threads
  PROVE  TableInv'
<1>1. PICK body \in Bodies, id \in CallerIds, o \in Objects \ Allocated :
        Allocate(o, NewRule(id, body)) /\ obj' = [obj EXCEPT ![t] = o]
  BY DEF AddRule
<1>2. /\ pc[t] = "idle" /\ pc' = [pc EXCEPT ![t] = "insert"]
      /\ UNCHANGED <<rules, rule_count, next_rule_id, sorted_rules, fresh>>
      /\ UNCHANGED <<initialized, exiting, enabled, default_action, pkt, verdict>>
  BY DEF AddRule, Calls, Goto, engineVars, evalVars
<1>3. /\ Allocated' = Allocated \cup {o}
      /\ heap' = [x \in Allocated \cup {o} |->
                    IF x = o THEN NewRule(id, body) ELSE heap[x]]
  BY <1>1 DEF Allocate, Allocated
<1>4. Listed' = Listed /\ o \notin Listed
  BY <1>1, <1>2 DEF Listed, TableInv, HeapOwnership
<1>5. /\ Held(t) = {} /\ Held(t)' = {o}
      /\ \A u \in Threads \ {t} : Held(u)' = Held(u)
  BY <1>1, <1>2 DEF Held, TableInv, TypeOK
<1>6. TypeOK'
  <2>1. NewRule(id, body) \in Rule
    BY IdAssumption, NewRuleType
  <2>2. heap' \in [Allocated' -> Rule]
    BY <1>3, <2>1 DEF TableInv, TypeOK
  <2>3. QED
    BY <1>1, <1>2, <1>3, <2>2 DEF TableInv, TypeOK, PcLabel
<1>7. CountMatchesTable'
  BY <1>2 DEF TableInv, CountMatchesTable
<1>8. UniqueRules'
  BY <1>2, <1>3, <1>4 DEF TableInv, UniqueRules, HeapOwnership, Listed
<1>9. HeapOwnership'
  BY <1>1, <1>3, <1>4, <1>5 DEF TableInv, HeapOwnership
<1>10. SortIsLocal'
  BY <1>2 DEF TableInv, SortIsLocal, LockFree, TypeOK
<1>11. QED
  BY <1>6, <1>7, <1>8, <1>9, <1>10 DEF TableInv

\* Creating a rule first takes an id, and is then an add.
LEMMA CreateRuleStep ==
  ASSUME TableInv, NEW t \in Threads, CreateRule(t), late' \subseteq Threads
  PROVE  TableInv'
<1>1. /\ pc[t] = "idle" /\ next_rule_id' = Successor(next_rule_id)
      /\ UNCHANGED <<rules, rule_count, sorted_rules, fresh>>
      /\ UNCHANGED <<initialized, exiting, enabled, default_action, pkt, verdict>>
  BY DEF CreateRule, Calls, engineVars, evalVars
<1>2. next_rule_id \in Id /\ next_rule_id' \in Id
  BY <1>1, SuccessorType DEF TableInv, TypeOK
<1>3. CASE UNCHANGED <<heap, obj, pc>>
  <2>1. Listed' = Listed /\ Allocated' = Allocated /\ LockFree' = LockFree
    BY <1>1, <1>3 DEF Listed, Allocated, LockFree
  <2>2. \A u \in Threads : Held(u)' = Held(u)
    BY <1>3 DEF Held
  <2>3. QED
    BY <1>1, <1>2, <1>3, <2>1, <2>2
    DEF TableInv, TypeOK, CountMatchesTable, UniqueRules, HeapOwnership, SortIsLocal
<1>4. CASE \E body \in Bodies, o \in Objects \ Allocated :
             /\ ValidBody(body)
             /\ Allocate(o, NewRule(next_rule_id, body))
             /\ obj' = [obj EXCEPT ![t] = o]
             /\ Goto(t, "insert")
  <2>1. PICK body \in Bodies, o \in Objects \ Allocated :
          /\ Allocate(o, NewRule(next_rule_id, body))
          /\ obj' = [obj EXCEPT ![t] = o]
          /\ pc' = [pc EXCEPT ![t] = "insert"]
    BY <1>4 DEF Goto
  <2>2. /\ Allocated' = Allocated \cup {o}
        /\ heap' = [x \in Allocated \cup {o} |->
                      IF x = o THEN NewRule(next_rule_id, body) ELSE heap[x]]
    BY <2>1 DEF Allocate, Allocated
  <2>3. Listed' = Listed /\ o \notin Listed
    BY <1>1, <2>1 DEF Listed, TableInv, HeapOwnership
  <2>4. /\ Held(t) = {} /\ Held(t)' = {o}
        /\ \A u \in Threads \ {t} : Held(u)' = Held(u)
    BY <1>1, <2>1 DEF Held, TableInv, TypeOK
  <2>5. TypeOK'
    <3>1. NewRule(next_rule_id, body) \in Rule
      BY <1>2, NewRuleType
    <3>2. heap' \in [Allocated' -> Rule]
      BY <2>2, <3>1 DEF TableInv, TypeOK
    <3>3. QED
      BY <1>1, <1>2, <2>1, <2>2, <3>2 DEF TableInv, TypeOK, PcLabel
  <2>6. CountMatchesTable'
    BY <1>1 DEF TableInv, CountMatchesTable
  <2>7. UniqueRules'
    BY <1>1, <2>2, <2>3 DEF TableInv, UniqueRules, HeapOwnership, Listed
  <2>8. HeapOwnership'
    BY <2>1, <2>2, <2>3, <2>4 DEF TableInv, HeapOwnership
  <2>9. SortIsLocal'
    BY <1>1, <2>1 DEF TableInv, SortIsLocal, LockFree, TypeOK
  <2>10. QED
    BY <2>5, <2>6, <2>7, <2>8, <2>9 DEF TableInv
<1>5. QED
  BY <1>3, <1>4 DEF CreateRule

\* A thread frees the object it holds: a rule it could not insert, or one it
\* has unlinked.
LEMMA FreeAndReturnStep ==
  ASSUME TableInv, NEW t \in Threads, pc[t] \in {"insert", "free"},
         FreeAndReturn(t), next_rule_id' \in Id, late' \subseteq Threads,
         UNCHANGED <<rules, rule_count, sorted_rules, fresh>>,
         UNCHANGED <<initialized, exiting, enabled, default_action, pkt, verdict>>
  PROVE  TableInv'
<1>1. /\ heap' = [x \in Allocated \ {obj[t]} |-> heap[x]]
      /\ obj' = [obj EXCEPT ![t] = NoObject]
      /\ pc' = [pc EXCEPT ![t] = "idle"]
  BY DEF FreeAndReturn, Free, Goto
<1>2. Allocated' = Allocated \ {obj[t]} /\ Listed' = Listed
  BY <1>1 DEF Allocated, Listed
<1>3. /\ Held(t) = {obj[t]} /\ Held(t)' = {}
      /\ \A u \in Threads \ {t} : Held(u)' = Held(u)
  BY <1>1 DEF Held, TableInv, TypeOK
<1>4. TypeOK'
  <2>1. heap' \in [Allocated' -> Rule]
    BY <1>1, <1>2 DEF TableInv, TypeOK
  <2>2. QED
    BY <1>1, <1>2, <2>1 DEF TableInv, TypeOK, PcLabel
<1>5. CountMatchesTable'
  BY DEF TableInv, CountMatchesTable
<1>6. UniqueRules'
  BY <1>1, <1>2, <1>3 DEF TableInv, UniqueRules, HeapOwnership
<1>7. HeapOwnership'
  BY <1>2, <1>3 DEF TableInv, HeapOwnership
<1>8. SortIsLocal'
  BY <1>1 DEF TableInv, SortIsLocal, LockFree, TypeOK
<1>9. QED
  BY <1>4, <1>5, <1>6, <1>7, <1>8 DEF TableInv

\* The rule joins the table only when there is room and its id is new.
LEMMA InsertRuleStep ==
  ASSUME TableInv, NEW t \in Threads, InsertRule(t), late' \subseteq Threads
  PROVE  TableInv'
<1> DEFINE o    == obj[t]
           auto == heap[o].id = 0
           id   == IF auto THEN next_rule_id ELSE heap[o].id
<1>1. /\ pc[t] = "insert" /\ LockFree /\ sorted_rules' = sorted_rules
      /\ UNCHANGED <<initialized, exiting, enabled, default_action, pkt, verdict>>
  BY DEF InsertRule, Full, engineVars, evalVars
<1>2. o \in Allocated /\ o \notin Listed /\ o \in Objects
  BY <1>1 DEF TableInv, HeapOwnership, Held, TypeOK
<1>3. /\ id \in Id
      /\ next_rule_id \in Id
      /\ Successor(next_rule_id) \in Id
  BY <1>2, SuccessorType DEF TableInv, TypeOK, Rule
<1>4. CASE rule_count >= MaxRules
  BY <1>1, <1>3, <1>4, FreeAndReturnStep, LimitAssumption
  DEF InsertRule, Full, TableInv, TypeOK
<1>5. CASE rule_count < MaxRules
  <2>1. next_rule_id' = IF auto THEN Successor(next_rule_id) ELSE next_rule_id
    BY <1>5, LimitAssumption DEF InsertRule, Full, TableInv, TypeOK
  <2>2. CASE FindRule(id) # 0
    <3>1. FreeAndReturn(t) /\ UNCHANGED <<rules, rule_count, fresh>>
      BY <1>5, <2>2, LimitAssumption DEF InsertRule, Full, TableInv, TypeOK
    <3>2. QED
      BY <1>1, <1>3, <2>1, <3>1, FreeAndReturnStep
  <2>3. CASE FindRule(id) = 0
    <3>1. /\ heap' = [heap EXCEPT ![o].id = id]
          /\ rules' = Append(rules, o)
          /\ rule_count' = rule_count + 1
          /\ fresh' = [fresh EXCEPT ![t] = o]
          /\ pc' = [pc EXCEPT ![t] = "sort"]
          /\ obj' = obj
      BY <1>5, <2>3, LimitAssumption DEF InsertRule, Full, TableInv, TypeOK, Goto
    <3> HIDE DEF o, id
    <3>2. /\ rules' \in Seq(Objects)
          /\ Len(rules') = Len(rules) + 1
          /\ Range(rules') = Range(rules) \cup {o}
          /\ IsInjective(rules')
      BY <1>2, <3>1, AppendElements DEF TableInv, TypeOK, UniqueRules, Listed
    <3>3. Allocated' = Allocated /\ Listed' = Listed \cup {o}
      BY <1>1, <3>1, <3>2 DEF Allocated, Listed
    <3>4. /\ Held(t) = {o} /\ Held(t)' = {}
          /\ \A u \in Threads \ {t} : Held(u)' = Held(u)
      BY <1>1, <3>1 DEF Held, TableInv, TypeOK, o
    <3>5. heap' \in [Allocated -> Rule]
      BY <1>2, <1>3, <3>1 DEF TableInv, TypeOK, Rule
    <3>6. \A q \in Listed :
            heap'[q].id = heap[q].id /\ (initialized => heap[q].id # id)
      <4>1. sorted_rules = <<>>
        BY <1>1 DEF TableInv, SortIsLocal
      <4>2. Listed = {rules[i] : i \in 1 .. Len(rules)}
        BY <4>1, RangeOfList, EmptyList DEF Listed, TableInv, TypeOK
      <4>3. initialized =>
              \A i \in 1 .. Len(rules) : heap[rules[i]].id # id
        BY <2>3, FindRuleProperties DEF TableInv, TypeOK
      <4>4. QED
        BY <1>2, <3>1, <4>2, <4>3 DEF TableInv, TypeOK
    <3>7. heap'[o].id = id
      BY <1>2, <3>1 DEF TableInv, TypeOK, Rule
    <3>8. TypeOK'
      BY <1>1, <1>2, <1>3, <2>1, <3>1, <3>2, <3>3, <3>5
      DEF TableInv, TypeOK, PcLabel
    <3>9. CountMatchesTable'
      <4>1. Len(rules) \in Nat /\ Len(sorted_rules) \in Nat
        BY LenProperties DEF TableInv, TypeOK
      <4>2. QED
        BY <1>1, <1>5, <3>1, <3>2, <4>1, LimitAssumption
        DEF TableInv, TypeOK, CountMatchesTable
    <3>10. UniqueRules'
      BY <1>1, <1>2, <3>2, <3>3, <3>6, <3>7 DEF TableInv, UniqueRules, Listed
    <3>11. HeapOwnership'
      BY <1>2, <3>3, <3>4 DEF TableInv, HeapOwnership
    <3>12. SortIsLocal'
      BY <1>1 DEF TableInv, SortIsLocal
    <3>13. QED
      BY <3>8, <3>9, <3>10, <3>11, <3>12 DEF TableInv
  <2>4. QED
    BY <2>2, <2>3
<1>6. QED
  BY <1>4, <1>5, LimitAssumption DEF TableInv, TypeOK

\* A step that leaves the table, the ids in it and the objects threads hold
\* alone, and that does not release the lock of a sort.
LEMMA QuietStep ==
  ASSUME TableInv, TypeOK', initialized' => initialized,
         UNCHANGED <<rules, rule_count, sorted_rules>>,
         Allocated' = Allocated,
         \A o \in Allocated : heap'[o].id = heap[o].id,
         \A u \in Threads : Held(u)' = Held(u),
         LockFree' => LockFree
  PROVE  TableInv'
<1>1. Listed' = Listed /\ Listed \subseteq Allocated
  BY DEF Listed, TableInv, HeapOwnership
<1>2. CountMatchesTable' /\ UniqueRules'
  BY <1>1 DEF TableInv, CountMatchesTable, UniqueRules
<1>3. HeapOwnership' /\ SortIsLocal'
  BY <1>1 DEF TableInv, HeapOwnership, SortIsLocal
<1>4. QED
  BY <1>2, <1>3 DEF TableInv

\* Threads hold objects at "insert" and "free" only, and a lock at
\* "sorting" only: a thread that moves between other labels changes neither.
LEMMA MoveStep ==
  ASSUME TypeOK, NEW t \in Threads, NEW label,
         pc[t] \notin {"insert", "free"}, label \notin {"insert", "free"},
         pc[t] # "sorting" \/ label = "sorting",
         pc' = [pc EXCEPT ![t] = label],
         \A u \in Threads \ {t} : obj'[u] = obj[u]
  PROVE  /\ \A u \in Threads : Held(u)' = Held(u)
         /\ LockFree' => LockFree
<1>1. \A u \in Threads : pc'[u] = IF u = t THEN label ELSE pc[u]
  BY DEF TypeOK
<1>2. Held(t)' = {} /\ Held(t) = {}
  BY <1>1 DEF Held
<1>3. \A u \in Threads \ {t} : Held(u)' = Held(u)
  BY <1>1 DEF Held
<1>4. LockFree' => LockFree
  BY <1>1 DEF LockFree
<1>5. QED
  BY <1>2, <1>3, <1>4

\* A sort that takes the lock starts with an empty list of its own.
LEMMA BeginSortStep ==
  ASSUME TableInv, NEW t \in Threads, BeginSort(t), late' \subseteq Threads
  PROVE  TableInv'
<1>1. /\ pc[t] = "sort"
      /\ \E label \in {"sorting", "log"} : pc' = [pc EXCEPT ![t] = label]
      /\ UNCHANGED <<rules, rule_count, next_rule_id, sorted_rules, heap, obj>>
      /\ UNCHANGED <<initialized, exiting, enabled, default_action, pkt, verdict>>
      /\ fresh' = fresh \/ fresh' = [fresh EXCEPT ![t] = NoObject]
  BY DEF BeginSort, Goto, engineVars, evalVars
<1>2. Allocated' = Allocated
  BY <1>1 DEF Allocated
<1>3. TypeOK'
  BY <1>1, <1>2 DEF TableInv, TypeOK, PcLabel
<1>4. (\A u \in Threads : Held(u)' = Held(u)) /\ (LockFree' => LockFree)
  BY <1>1, MoveStep DEF TableInv
<1>5. QED
  BY <1>1, <1>2, <1>3, <1>4, QuietStep

\* A turn of the sort moves a rule from one list to the other.
LEMMA MoveRuleStep ==
  ASSUME TableInv, NEW t \in Threads, MoveRule(t), late' \subseteq Threads
  PROVE  TableInv'
<1> DEFINE o == Head(rules)
<1>1. /\ pc[t] = "sorting" /\ rules # <<>>
      /\ rules' = Tail(rules)
      /\ sorted_rules' = InsertByPriority(sorted_rules, o)
      /\ UNCHANGED <<rule_count, next_rule_id, heap, pc, obj, fresh>>
      /\ UNCHANGED <<initialized, exiting, enabled, default_action, pkt, verdict>>
  BY DEF MoveRule, engineVars, evalVars
<1>2. /\ rules \in Seq(Objects) /\ sorted_rules \in Seq(Objects)
      /\ IsInjective(rules) /\ IsInjective(sorted_rules)
      /\ Range(rules) \cap Range(sorted_rules) = {}
  BY DEF TableInv, TypeOK, UniqueRules
<1>3. /\ rules' \in Seq(Objects) /\ Len(rules') = Len(rules) - 1
      /\ o \in Objects /\ o \in Range(rules)
      /\ Range(rules') = Range(rules) \ {o}
      /\ IsInjective(rules')
  BY <1>1, <1>2, HeadTailProperties, TailElements
<1> HIDE DEF o
<1>4. PICK at \in 1 .. Len(sorted_rules) + 1 :
        sorted_rules' = InsertAt(sorted_rules, at, o)
  BY <1>1, <1>2, <1>3, InsertByPriorityProperties
<1>5. /\ sorted_rules' \in Seq(Objects)
      /\ Len(sorted_rules') = Len(sorted_rules) + 1
      /\ Range(sorted_rules') = Range(sorted_rules) \cup {o}
      /\ IsInjective(sorted_rules')
  <2>1. o \notin Range(sorted_rules)
    BY <1>2, <1>3
  <2>2. QED
    BY <1>2, <1>3, <1>4, <2>1, InsertAtProperties, InsertAtElements
<1>6. Listed' = Listed /\ Allocated' = Allocated
  BY <1>1, <1>3, <1>5 DEF Listed, Allocated
<1>7. TypeOK'
  BY <1>1, <1>3, <1>5, <1>6 DEF TableInv, TypeOK
<1>8. CountMatchesTable'
  <2>1. Len(rules) \in Nat /\ Len(sorted_rules) \in Nat
    BY <1>2, LenProperties
  <2>2. QED
    BY <1>1, <1>3, <1>5, <2>1 DEF TableInv, CountMatchesTable
<1>9. UniqueRules'
  BY <1>1, <1>2, <1>3, <1>5, <1>6 DEF TableInv, UniqueRules
<1>10. HeapOwnership'
  <2>1. \A u \in Threads : Held(u)' = Held(u)
    BY <1>1 DEF Held
  <2>2. QED
    BY <1>6, <2>1 DEF TableInv, HeapOwnership
<1>11. SortIsLocal'
  BY <1>1 DEF SortIsLocal, LockFree
<1>12. QED
  BY <1>7, <1>8, <1>9, <1>10, <1>11 DEF TableInv

\* At its end the sort's list becomes the table.
LEMMA EndSortStep ==
  ASSUME TableInv, NEW t \in Threads, EndSort(t), late' \subseteq Threads
  PROVE  TableInv'
<1>1. /\ pc[t] = "sorting" /\ rules = <<>>
      /\ rules' = sorted_rules /\ sorted_rules' = <<>>
      /\ pc' = [pc EXCEPT ![t] = "log"]
      /\ fresh' = [fresh EXCEPT ![t] = NoObject]
      /\ UNCHANGED <<rule_count, next_rule_id, heap, obj>>
      /\ UNCHANGED <<initialized, exiting, enabled, default_action, pkt, verdict>>
  BY DEF EndSort, Goto, engineVars, evalVars
<1>2. Listed' = Listed /\ Allocated' = Allocated
  BY <1>1 DEF Listed, Allocated
<1>3. TypeOK'
  <2>1. sorted_rules' \in Seq(Objects)
    BY <1>1, EmptySeq
  <2>2. QED
    BY <1>1, <1>2, <2>1 DEF TableInv, TypeOK, PcLabel
<1>4. CountMatchesTable'
  <2>1. Len(rules) = 0 /\ Len(sorted_rules') = 0 /\ Len(sorted_rules) \in Nat
    BY <1>1, EmptyList, LenProperties DEF TableInv, TypeOK
  <2>2. QED
    BY <1>1, <2>1 DEF TableInv, CountMatchesTable
<1>5. UniqueRules'
  BY <1>1, <1>2, EmptyList DEF TableInv, UniqueRules
<1>6. HeapOwnership'
  <2>1. \A u \in Threads : Held(u)' = Held(u)
    BY <1>1 DEF Held, TableInv, TypeOK
  <2>2. QED
    BY <1>2, <2>1 DEF TableInv, HeapOwnership
<1>7. SortIsLocal'
  BY <1>1 DEF SortIsLocal
<1>8. QED
  BY <1>3, <1>4, <1>5, <1>6, <1>7 DEF TableInv

\* Steps of a thread that change neither the table nor the heap.
LEMMA LogAndReturnStep ==
  ASSUME TableInv, NEW t \in Threads, LogAndReturn(t), late' \subseteq Threads
  PROVE  TableInv'
<1>1. /\ pc[t] = "log" /\ pc' = [pc EXCEPT ![t] = "idle"]
      /\ obj' = [obj EXCEPT ![t] = NoObject]
      /\ UNCHANGED <<rules, rule_count, next_rule_id, sorted_rules, heap, fresh>>
      /\ UNCHANGED <<initialized, exiting, enabled, default_action, pkt, verdict>>
  BY DEF LogAndReturn, Goto, tableVars, engineVars, evalVars
<1>2. Allocated' = Allocated
  BY <1>1 DEF Allocated
<1>3. TypeOK'
  BY <1>1, <1>2 DEF TableInv, TypeOK, PcLabel
<1>4. (\A u \in Threads : Held(u)' = Held(u)) /\ (LockFree' => LockFree)
  BY <1>1, MoveStep DEF TableInv, TypeOK
<1>5. QED
  BY <1>1, <1>2, <1>3, <1>4, QuietStep

\* A deleted rule leaves the table for the hands of the thread that frees it.
LEMMA DeleteRuleStep ==
  ASSUME TableInv, NEW t \in Threads, DeleteRule(t), late' \subseteq Threads
  PROVE  TableInv'
<1>1. /\ pc[t] = "idle" /\ LockFree
      /\ rule_count' = IF rule_count > 0 THEN rule_count - 1 ELSE rule_count
      /\ pc' = [pc EXCEPT ![t] = "free"]
      /\ UNCHANGED <<next_rule_id, sorted_rules, heap, fresh>>
      /\ UNCHANGED <<initialized, exiting, enabled, default_action, pkt, verdict>>
  BY DEF DeleteRule, Calls, Goto, engineVars, evalVars
<1>2. /\ rules \in Seq(Objects) /\ Len(rules) \in Nat
      /\ IsInjective(rules) /\ sorted_rules = <<>>
  BY <1>1, LenProperties DEF TableInv, TypeOK, UniqueRules, SortIsLocal
<1>3. PICK i \in 1 .. Len(rules) :
        rules' = RemoveAt(rules, i) /\ obj' = [obj EXCEPT ![t] = rules[i]]
  <2>1. PICK id \in Id :
          /\ FindRule(id) # 0
          /\ rules' = RemoveAt(rules, FindRule(id))
          /\ obj' = [obj EXCEPT ![t] = rules[FindRule(id)]]
    BY DEF DeleteRule
  <2>2. FindRule(id) \in 1 .. Len(rules)
    BY <1>2, <2>1, FindRuleProperties
  <2>3. QED
    BY <2>1, <2>2
<1> DEFINE o == rules[i]
<1>4. /\ rules' \in Seq(Objects) /\ Len(rules') = Len(rules) - 1
      /\ Range(rules') = Range(rules) \ {o} /\ IsInjective(rules')
  BY <1>2, <1>3, RemoveAtProperties, RemoveAtElements
<1>5. o \in Objects /\ o \in Range(rules)
  BY <1>2, RangeOfList
<1> HIDE DEF o
<1>6. Listed' = Listed \ {o} /\ Allocated' = Allocated /\ o \in Listed
  BY <1>1, <1>2, <1>4, <1>5, EmptyList DEF Listed, Allocated
<1>7. /\ Held(t) = {} /\ Held(t)' = {o}
      /\ \A u \in Threads \ {t} : Held(u)' = Held(u)
  BY <1>1, <1>3 DEF Held, TableInv, TypeOK, o
<1>8. TypeOK'
  <2>1. rule_count' \in Nat
    BY <1>1 DEF TableInv, TypeOK
  <2>2. obj' \in [Threads -> Objects \cup {NoObject}]
    BY <1>3, <1>5 DEF TableInv, TypeOK, o
  <2>3. QED
    BY <1>1, <1>4, <1>6, <2>1, <2>2 DEF TableInv, TypeOK, PcLabel
<1>9. CountMatchesTable'
  <2>1. Len(sorted_rules) = 0 /\ Len(rules) > 0
    BY <1>2, EmptyList
  <2>2. QED
    BY <1>1, <1>2, <1>4, <2>1, LimitAssumption
    DEF TableInv, TypeOK, CountMatchesTable
<1>10. UniqueRules'
  BY <1>1, <1>4, <1>6 DEF TableInv, UniqueRules
<1>11. HeapOwnership'
  BY <1>6, <1>7 DEF TableInv, HeapOwnership
<1>12. SortIsLocal'
  BY <1>1, <1>2 DEF SortIsLocal
<1>13. QED
  BY <1>8, <1>9, <1>10, <1>11, <1>12 DEF TableInv

\* Under the lock, all rules can be unlinked and freed at once.
LEMMA DropAllRulesStep ==
  ASSUME TableInv, LockFree, DropAllRules,
         initialized' \in BOOLEAN, exiting' \in BOOLEAN,
         late' \subseteq Threads,
         UNCHANGED <<enabled, default_action, pc, obj, pkt, verdict, fresh>>
  PROVE  TableInv'
<1>1. /\ rules' = <<>> /\ rule_count' = 0
      /\ heap' = [x \in Allocated \ Range(rules) |-> heap[x]]
      /\ UNCHANGED <<next_rule_id, sorted_rules>>
  BY DEF DropAllRules, Free
<1>2. sorted_rules = <<>> /\ Listed = Range(rules) /\ Listed' = {}
  BY <1>1, EmptyList DEF TableInv, SortIsLocal, Listed
<1>3. Allocated' = Allocated \ Listed
  BY <1>1, <1>2 DEF Allocated
<1>4. \A u \in Threads : Held(u)' = Held(u)
  BY DEF Held
<1>5. TypeOK'
  <2>1. heap' \in [Allocated' -> Rule]
    BY <1>1, <1>2, <1>3 DEF TableInv, TypeOK
  <2>2. rules' \in Seq(Objects)
    BY <1>1, EmptySeq
  <2>3. QED
    BY <1>1, <1>3, <2>1, <2>2 DEF TableInv, TypeOK
<1>6. CountMatchesTable'
  BY <1>1, <1>2, EmptyList, LimitAssumption DEF CountMatchesTable
<1>7. UniqueRules'
  BY <1>1, <1>2, EmptyList DEF UniqueRules
<1>8. HeapOwnership'
  BY <1>2, <1>3, <1>4 DEF TableInv, HeapOwnership
<1>9. SortIsLocal'
  BY <1>1, <1>2 DEF SortIsLocal
<1>10. QED
  BY <1>5, <1>6, <1>7, <1>8, <1>9 DEF TableInv

\* Switching or rewriting a rule, and counting on it, change its contents
\* where it stands.
LEMMA RewriteStep ==
  ASSUME TableInv, NEW o \in Allocated, NEW rule \in Rule,
         rule.id = heap[o].id,
         heap' = [heap EXCEPT ![o] = rule],
         UNCHANGED <<rules, rule_count, next_rule_id, sorted_rules>>,
         UNCHANGED <<initialized, exiting, enabled, default_action>>,
         late' \subseteq Threads,
         pc' \in [Threads -> PcLabel],
         obj' \in [Threads -> Objects \cup {NoObject}],
         pkt' \in [Threads -> Packets \cup {NoPacket}],
         verdict' \in [Threads -> Action \cup {"none"}],
         fresh' \in [Threads -> Objects \cup {NoObject}],
         \A u \in Threads : Held(u)' = Held(u),
         LockFree' => LockFree
  PROVE  TableInv'
<1>1. Allocated' = Allocated
  BY DEF Allocated
<1>2. heap' \in [Allocated -> Rule]
  BY DEF TableInv, TypeOK
<1>3. TypeOK'
  BY <1>1, <1>2 DEF TableInv, TypeOK
<1>4. \A x \in Allocated : heap'[x].id = heap[x].id
  BY DEF TableInv, TypeOK
<1>5. QED
  BY <1>1, <1>3, <1>4, QuietStep

\* Enabling and disabling a rule keep the table.
LEMMA SetRuleStateStep ==
  ASSUME TableInv, NEW t \in Threads, SetRuleState(t), late' \subseteq Threads
  PROVE  TableInv'
<1>1. UNCHANGED <<rules, rule_count, next_rule_id, sorted_rules, pc, obj, fresh,
                  initialized, exiting, enabled, default_action, pkt, verdict>>
  BY DEF SetRuleState, engineVars, evalVars
<1>2. PICK i \in 1 .. Len(rules), on \in BOOLEAN :
        heap' = [heap EXCEPT ![rules[i]].body.enabled = on]
  <2>1. rules \in Seq(Objects) /\ Len(rules) \in Nat
    BY LenProperties DEF TableInv, TypeOK
  <2>2. PICK id \in Id, on \in BOOLEAN :
          /\ FindRule(id) # 0
          /\ heap' = [heap EXCEPT ![rules[FindRule(id)]].body.enabled = on]
    BY DEF SetRuleState
  <2>3. FindRule(id) \in 1 .. Len(rules)
    BY <2>1, <2>2, FindRuleProperties
  <2>4. QED
    BY <2>2, <2>3
<1> DEFINE o    == rules[i]
           rule == [heap[o] EXCEPT !.body.enabled = on]
<1>3. o \in Allocated /\ heap[o] \in Rule
  BY RangeOfList DEF TableInv, TypeOK, HeapOwnership, Listed
<1>4. rule \in Rule /\ rule.id = heap[o].id /\ heap' = [heap EXCEPT ![o] = rule]
  BY <1>2, <1>3 DEF Rule, Body, TableInv, TypeOK
<1>5. (\A u \in Threads : Held(u)' = Held(u)) /\ LockFree' = LockFree
  BY <1>1 DEF Held, LockFree
<1>6. TypeOK
  BY DEF TableInv
<1> HIDE DEF o, rule
<1>7. QED
  BY <1>1, <1>3, <1>4, <1>5, <1>6, RewriteStep DEF TypeOK

\* ... so does another body for a rule,
LEMMA UpdateRuleStep ==
  ASSUME TableInv, NEW t \in Threads, UpdateRule(t), late' \subseteq Threads
  PROVE  TableInv'
<1>1. /\ pc[t] = "idle" /\ pc' = [pc EXCEPT ![t] = "sort"]
      /\ UNCHANGED <<rules, rule_count, next_rule_id, sorted_rules, obj,
                     initialized, exiting, enabled, default_action, pkt, verdict>>
  BY DEF UpdateRule, Calls, Goto, engineVars, evalVars
<1>2. PICK i \in 1 .. Len(rules), body \in Bodies :
        /\ heap' = [heap EXCEPT ![rules[i]].body = body]
        /\ fresh' = [fresh EXCEPT ![t] = rules[i]]
  <2>1. rules \in Seq(Objects) /\ Len(rules) \in Nat
    BY LenProperties DEF TableInv, TypeOK
  <2>2. PICK id \in Id, body \in Bodies :
          /\ FindRule(id) # 0
          /\ heap' = [heap EXCEPT ![rules[FindRule(id)]].body = body]
          /\ fresh' = [fresh EXCEPT ![t] = rules[FindRule(id)]]
    BY DEF UpdateRule
  <2>3. FindRule(id) \in 1 .. Len(rules)
    BY <2>1, <2>2, FindRuleProperties
  <2>4. QED
    BY <2>2, <2>3
<1> DEFINE o    == rules[i]
           rule == [heap[o] EXCEPT !.body = body]
<1>3. o \in Allocated /\ heap[o] \in Rule /\ o \in Objects
  BY RangeOfList DEF TableInv, TypeOK, HeapOwnership, Listed
<1>4. rule \in Rule /\ rule.id = heap[o].id /\ heap' = [heap EXCEPT ![o] = rule]
  BY <1>2, <1>3, BodiesAssumption DEF Rule, TableInv, TypeOK
<1>5. (\A u \in Threads : Held(u)' = Held(u)) /\ (LockFree' => LockFree)
  BY <1>1, MoveStep DEF TableInv
<1>6. /\ fresh' \in [Threads -> Objects \cup {NoObject}]
      /\ pc' \in [Threads -> PcLabel]
  BY <1>1, <1>2, <1>3 DEF TableInv, TypeOK, PcLabel
<1>7. TypeOK
  BY DEF TableInv
<1> HIDE DEF o, rule
<1>8. QED
  BY <1>1, <1>3, <1>4, <1>5, <1>6, <1>7, RewriteStep DEF TypeOK

\* ... a reset of the counters,
LEMMA ResetStatisticsStep ==
  ASSUME TableInv, NEW t \in Threads, ResetStatistics(t), late' \subseteq Threads
  PROVE  TableInv'
<1>1. /\ UNCHANGED <<rules, rule_count, next_rule_id, sorted_rules, pc, obj, fresh,
                     initialized, exiting, enabled, default_action, pkt, verdict>>
      /\ heap' = [o \in Allocated |->
                    IF o \in Range(rules) THEN [heap[o] EXCEPT !.hits = NoHits]
                    ELSE heap[o]]
  BY DEF ResetStatistics, engineVars, evalVars
<1>2. Allocated' = Allocated
  BY <1>1 DEF Allocated
<1>3. ASSUME NEW o \in Allocated
      PROVE  heap'[o] \in Rule /\ heap'[o].id = heap[o].id
  <2>1. heap[o] \in Rule
    BY DEF TableInv, TypeOK
  <2>2. [heap[o] EXCEPT !.hits = NoHits] \in Rule
    BY <2>1, NoHitsType DEF Rule
  <2>3. QED
    BY <1>1, <2>1, <2>2 DEF Rule
<1>4. heap' \in [Allocated -> Rule]
  BY <1>1, <1>3
<1>5. TypeOK'
  BY <1>1, <1>2, <1>4 DEF TableInv, TypeOK
<1>6. (\A u \in Threads : Held(u)' = Held(u)) /\ LockFree' = LockFree
  BY <1>1 DEF Held, LockFree
<1>7. QED
  BY <1>1, <1>2, <1>3, <1>5, <1>6, QuietStep

\* ... the start of an evaluation,
LEMMA StartEvaluateStep ==
  ASSUME TableInv, NEW t \in Threads, StartEvaluate(t), late' \subseteq Threads
  PROVE  TableInv'
<1>1. /\ pc[t] = "idle"
      /\ \E label \in {"match", "default", "result"} :
           pc' = [pc EXCEPT ![t] = label]
      /\ verdict' = verdict \/ verdict' = [verdict EXCEPT ![t] = "ALLOW"]
      /\ UNCHANGED <<rules, rule_count, next_rule_id, sorted_rules, heap, obj, fresh>>
      /\ UNCHANGED <<initialized, exiting, enabled, default_action, pkt>>
  BY DEF StartEvaluate, Calls, Goto, tableVars, engineVars, evalVars
<1>2. Allocated' = Allocated
  BY <1>1 DEF Allocated
<1>3. TypeOK'
  BY <1>1, <1>2 DEF TableInv, TypeOK, PcLabel, Action
<1>4. (\A u \in Threads : Held(u)' = Held(u)) /\ (LockFree' => LockFree)
  BY <1>1, MoveStep DEF TableInv
<1>5. QED
  BY <1>1, <1>2, <1>3, <1>4, QuietStep

\* A match counts on the rule and lets a pointer to it out of the lock.
LEMMA MatchPacketStep ==
  ASSUME TableInv, NEW t \in Threads, MatchPacket(t), late' \subseteq Threads
  PROVE  TableInv'
<1>1. /\ pc[t] = "match"
      /\ UNCHANGED <<rules, rule_count, next_rule_id, sorted_rules, fresh>>
      /\ UNCHANGED <<initialized, exiting, enabled, default_action>>
  BY DEF MatchPacket, engineVars
<1>2. TypeOK
  BY DEF TableInv
<1>3. PICK p \in Packets :
        LET i      == FindMatch(p)
            o      == rules[i]
            action == heap[o].body.action
        IN  /\ pkt' = [pkt EXCEPT ![t] = p]
            /\ \/ /\ i # 0
                  /\ heap' = [heap EXCEPT ![o].hits["matched"] = @ + 1,
                                          ![o].hits[action] = @ + 1]
                  /\ obj' = [obj EXCEPT ![t] = o]
                  /\ verdict' = [verdict EXCEPT ![t] = action]
                  /\ Goto(t, "result")
               \/ /\ i = 0
                  /\ verdict' = [verdict EXCEPT ![t] = default_action]
                  /\ Goto(t, "result")
                  /\ UNCHANGED <<heap, obj>>
               \/ /\ i = 0
                  /\ Goto(t, "default")
                  /\ UNCHANGED <<heap, obj, verdict>>
  BY DEF MatchPacket
<1> DEFINE i      == FindMatch(p)
           o      == rules[i]
           action == heap[o].body.action
<1>4. CASE i # 0
  <2>1. /\ heap' = [heap EXCEPT ![o].hits["matched"] = @ + 1,
                                ![o].hits[action] = @ + 1]
        /\ pkt' = [pkt EXCEPT ![t] = p]
        /\ obj' = [obj EXCEPT ![t] = o]
        /\ verdict' = [verdict EXCEPT ![t] = action]
        /\ pc' = [pc EXCEPT ![t] = "result"]
    BY <1>3, <1>4 DEF Goto
  <2>2. i \in 1 .. Len(rules)
    <3>1. rules \in Seq(Objects) /\ Len(rules) \in Nat
      BY <1>2, LenProperties DEF TypeOK
    <3>2. QED
      BY <1>4, <3>1, FindMatchProperties
  <2> HIDE DEF i
  <2>3. o \in Allocated /\ o \in Objects /\ heap[o] \in Rule
    BY <1>2, <2>2, RangeOfList DEF TableInv, TypeOK, HeapOwnership, Listed
  <2> HIDE DEF o
  <2>4. action \in Action /\ action \in Counter /\ "matched" \in Counter
    BY <2>3 DEF Rule, Body, Counter
  <2> HIDE DEF action
  <2> DEFINE hits == [[heap[o].hits EXCEPT !["matched"] = @ + 1]
                        EXCEPT ![action] = @ + 1]
             rule == [heap[o] EXCEPT !.hits = hits]
  <2>5. heap[o].hits \in [Counter -> Nat]
    BY <2>3 DEF Rule
  <2>6. hits \in [Counter -> Nat]
    BY <2>4, <2>5
  <2> HIDE DEF hits
  <2>7. rule \in Rule /\ rule.id = heap[o].id
    BY <2>3, <2>6 DEF Rule
  <2>8. heap' = [heap EXCEPT ![o] = rule]
    BY <1>2, <2>1, <2>3, <2>4, <2>5 DEF hits, TypeOK, Rule
  <2>9. (\A u \in Threads : Held(u)' = Held(u)) /\ (LockFree' => LockFree)
    BY <1>1, <1>2, <2>1, MoveStep DEF TypeOK
  <2>10. /\ pkt' \in [Threads -> Packets \cup {NoPacket}]
         /\ obj' \in [Threads -> Objects \cup {NoObject}]
         /\ verdict' \in [Threads -> Action \cup {"none"}]
         /\ pc' \in [Threads -> PcLabel]
    BY <1>2, <2>1, <2>3, <2>4 DEF TypeOK, PcLabel
  <2> HIDE DEF rule
  <2>11. QED
    BY <1>1, <1>2, <2>3, <2>7, <2>8, <2>9, <2>10, RewriteStep DEF TypeOK
<1>5. CASE i = 0
  <2>1. /\ pkt' = [pkt EXCEPT ![t] = p]
        /\ UNCHANGED <<heap, obj>>
        /\ \E label \in {"result", "default"} : pc' = [pc EXCEPT ![t] = label]
        /\ verdict' = verdict \/ verdict' = [verdict EXCEPT ![t] = default_action]
    BY <1>3, <1>5 DEF Goto
  <2>2. Allocated' = Allocated
    BY <2>1 DEF Allocated
  <2>3. TypeOK'
    BY <1>1, <1>2, <2>1, <2>2 DEF TypeOK, PcLabel
  <2>4. (\A u \in Threads : Held(u)' = Held(u)) /\ (LockFree' => LockFree)
    BY <1>1, <1>2, <2>1, MoveStep
  <2>5. QED
    BY <1>1, <2>1, <2>2, <2>3, <2>4, QuietStep
<1>6. QED
  BY <1>4, <1>5

\* ... the default action read at its end,
LEMMA ReadDefaultStep ==
  ASSUME TableInv, NEW t \in Threads, ReadDefault(t), late' \subseteq Threads
  PROVE  TableInv'
<1>1. /\ pc[t] = "default" /\ pc' = [pc EXCEPT ![t] = "result"]
      /\ verdict' = [verdict EXCEPT ![t] = default_action]
      /\ UNCHANGED <<rules, rule_count, next_rule_id, sorted_rules, heap, obj, fresh>>
      /\ UNCHANGED <<initialized, exiting, enabled, default_action, pkt>>
  BY DEF ReadDefault, Goto, tableVars, engineVars
<1>2. Allocated' = Allocated
  BY <1>1 DEF Allocated
<1>3. TypeOK'
  BY <1>1, <1>2 DEF TableInv, TypeOK, PcLabel
<1>4. (\A u \in Threads : Held(u)' = Held(u)) /\ (LockFree' => LockFree)
  BY <1>1, MoveStep DEF TableInv
<1>5. QED
  BY <1>1, <1>2, <1>3, <1>4, QuietStep

\* ... the processing of the rules of one type,
LEMMA ClassifyStep ==
  ASSUME TableInv, NEW t \in Threads, Classify(t), late' \subseteq Threads
  PROVE  TableInv'
<1>1. /\ pc[t] = "idle"
      /\ \E label \in {"result", "default"} : pc' = [pc EXCEPT ![t] = label]
      /\ verdict' = verdict \/ \E a \in Action : verdict' = [verdict EXCEPT ![t] = a]
      /\ UNCHANGED <<rules, rule_count, next_rule_id, sorted_rules, heap, obj, fresh>>
      /\ UNCHANGED <<initialized, exiting, enabled, default_action, pkt>>
  BY DEF Classify, Calls, Goto, tableVars, engineVars, RuleType, Action
<1>2. Allocated' = Allocated
  BY <1>1 DEF Allocated
<1>3. TypeOK'
  BY <1>1, <1>2 DEF TableInv, TypeOK, PcLabel
<1>4. (\A u \in Threads : Held(u)' = Held(u)) /\ (LockFree' => LockFree)
  BY <1>1, MoveStep DEF TableInv
<1>5. QED
  BY <1>1, <1>2, <1>3, <1>4, QuietStep

\* ... and the verdict returned.
LEMMA ReturnVerdictStep ==
  ASSUME TableInv, NEW t \in Threads, ReturnVerdict(t), late' \subseteq Threads
  PROVE  TableInv'
<1>1. /\ pc[t] = "result" /\ pc' = [pc EXCEPT ![t] = "idle"]
      /\ obj' = [obj EXCEPT ![t] = NoObject]
      /\ pkt' = [pkt EXCEPT ![t] = NoPacket]
      /\ verdict' = [verdict EXCEPT ![t] = "none"]
      /\ UNCHANGED <<rules, rule_count, next_rule_id, sorted_rules, heap, fresh>>
      /\ UNCHANGED <<initialized, exiting, enabled, default_action>>
  BY DEF ReturnVerdict, Goto, tableVars, engineVars
<1>2. Allocated' = Allocated
  BY <1>1 DEF Allocated
<1>3. TypeOK'
  BY <1>1, <1>2 DEF TableInv, TypeOK, PcLabel
<1>4. (\A u \in Threads : Held(u)' = Held(u)) /\ (LockFree' => LockFree)
  BY <1>1, MoveStep DEF TableInv, TypeOK
<1>5. QED
  BY <1>1, <1>2, <1>3, <1>4, QuietStep

\* Steps that only change the engine's own switches.
LEMMA SwitchStep ==
  ASSUME TableInv,
         initialized' \in BOOLEAN, exiting' \in BOOLEAN,
         late' \subseteq Threads, initialized' => initialized,
         enabled' \in BOOLEAN, default_action' \in Action,
         UNCHANGED <<rules, rule_count, next_rule_id, sorted_rules, heap>>,
         UNCHANGED <<pc, obj, pkt, verdict, fresh>>
  PROVE  TableInv'
<1>1. Allocated' = Allocated
  BY DEF Allocated
<1>2. TypeOK'
  BY <1>1 DEF TableInv, TypeOK
<1>3. (\A u \in Threads : Held(u)' = Held(u)) /\ LockFree' = LockFree
  BY DEF Held, LockFree
<1>4. QED
  BY <1>1, <1>2, <1>3, QuietStep

-----------------------------------------------------------------------------
(* Every step preserves the invariant.                                     *)

\* No step breaks the table.
LEMMA NextTableInv == TableInv /\ [Next]_vars => TableInv'
<1> SUFFICES ASSUME TableInv, [Next]_vars PROVE TableInv'
  OBVIOUS
<1>0. TypeOK
  BY DEF TableInv
<1>1. ASSUME NEW t \in Threads, Call(t)
      PROVE  TableInv'
  <2>0. late' \subseteq Threads
    BY <1>0, <1>1 DEF Call, TypeOK
  <2>1. CASE AddRule(t)         BY <2>0, <2>1, AddRuleStep
  <2>2. CASE CreateRule(t)      BY <2>0, <2>2, CreateRuleStep
  <2>3. CASE DeleteRule(t)      BY <2>0, <2>3, DeleteRuleStep
  <2>4. CASE ClearRules(t)
    BY <1>0, <2>0, <2>4, DropAllRulesStep DEF ClearRules, engineVars, evalVars, TypeOK
  <2>5. CASE SetRuleState(t)    BY <2>0, <2>5, SetRuleStateStep
  <2>6. CASE UpdateRule(t)      BY <2>0, <2>6, UpdateRuleStep
  <2>7. CASE ResetStatistics(t) BY <2>0, <2>7, ResetStatisticsStep
  <2>8. CASE StartEvaluate(t)   BY <2>0, <2>8, StartEvaluateStep
  <2>9. CASE Classify(t)        BY <2>0, <2>9, ClassifyStep
  <2>10. CASE SetDefaultAction(t)
    BY <1>0, <2>0, <2>10, SwitchStep DEF SetDefaultAction, tableVars, evalVars, TypeOK
  <2>11. CASE SetEnabled(t)
    BY <1>0, <2>0, <2>11, SwitchStep DEF SetEnabled, tableVars, evalVars, TypeOK
  <2>12. QED
    BY <1>1, <2>1, <2>2, <2>3, <2>4, <2>5, <2>6, <2>7, <2>8, <2>9, <2>10, <2>11
    DEF Call
<1>2. ASSUME NEW t \in Threads, Continue(t)
      PROVE  TableInv'
  <2>0. late' \subseteq Threads
    BY <1>0, <1>2 DEF Continue, TypeOK
  <2>1. CASE InsertRule(t)      BY <2>0, <2>1, InsertRuleStep
  <2>2. CASE BeginSort(t)       BY <2>0, <2>2, BeginSortStep
  <2>3. CASE MoveRule(t)        BY <2>0, <2>3, MoveRuleStep
  <2>4. CASE EndSort(t)         BY <2>0, <2>4, EndSortStep
  <2>5. CASE LogAndReturn(t)    BY <2>0, <2>5, LogAndReturnStep
  <2>6. CASE FreeRule(t)
    BY <1>0, <2>0, <2>6, FreeAndReturnStep DEF FreeRule, engineVars, evalVars, TypeOK
  <2>7. CASE MatchPacket(t)     BY <2>0, <2>7, MatchPacketStep
  <2>8. CASE ReadDefault(t)     BY <2>0, <2>8, ReadDefaultStep
  <2>9. CASE ReturnVerdict(t)   BY <2>0, <2>9, ReturnVerdictStep
  <2>10. QED
    BY <1>2, <2>1, <2>2, <2>3, <2>4, <2>5, <2>6, <2>7, <2>8, <2>9 DEF Continue
<1>3. CASE BeginExit
  BY <1>0, <1>3, DropAllRulesStep DEF BeginExit, evalVars, TypeOK
<1>4. CASE EndExit
  BY <1>0, <1>4, SwitchStep DEF EndExit, tableVars, evalVars, TypeOK
<1>5. CASE UNCHANGED vars
  BY <1>0, <1>5, SwitchStep DEF vars, TypeOK
<1>6. QED
  BY <1>1, <1>2, <1>3, <1>4, <1>5 DEF Next

\* The invariant holds in every reachable state.
THEOREM TableInvariant == Spec => []TableInv
<1>1. Init => TableInv
  BY InitTableInv
<1>2. TableInv /\ [Next]_vars => TableInv'
  BY NextTableInv
<1>3. QED
  BY <1>1, <1>2, PTL DEF Spec

\* No step leaves a variable of the engine outside its type: no thread reads
\* or frees through a pointer to memory that is not allocated, save the one
\* pf_rule_engine_add_rule logs through, which LogAndReturn sets apart.
THEOREM TypesHold == Spec => []TypeOK
<1>1. TableInv => TypeOK
  BY DEF TableInv
<1>2. QED
  BY <1>1, TableInvariant, PTL

\* rule_count is the number of rules in the table and never exceeds
\* PF_RULE_ENGINE_MAX_RULES, whatever adds, deletes, clears and exits do.
THEOREM CountHolds == Spec => []CountMatchesTable
<1>1. TableInv => CountMatchesTable
  BY DEF TableInv
<1>2. QED
  BY <1>1, TableInvariant, PTL

\* No object is linked twice and no two rules of the table share an id, for
\* every id space, the wrap of next_rule_id included.
THEOREM UniquenessHolds == Spec => []UniqueRules
<1>1. TableInv => UniqueRules
  BY DEF TableInv
<1>2. QED
  BY <1>1, TableInvariant, PTL

\* Every allocated rule is either in the table or held by exactly one thread
\* that will link or free it: no leak, no double free, no dangling link.
THEOREM OwnershipHolds == Spec => []HeapOwnership
<1>1. TableInv => HeapOwnership
  BY DEF TableInv
<1>2. QED
  BY <1>1, TableInvariant, PTL

-----------------------------------------------------------------------------
(* What threads remember.                                                  *)

\* A thread waits for a sort only from its change to the end of the sort,
\* and enters a call without a rule pointer.
ThreadInv ==
  \A t \in Threads :
    /\ pc[t] \notin {"sort", "sorting"} => fresh[t] = NoObject
    /\ pc[t] \in {"idle", "match", "default"} => obj[t] = NoObject

\* A step of one thread leaves what the others remember alone.
LEMMA OneThreadStep ==
  ASSUME ThreadInv, NEW t \in Threads,
         \A u \in Threads \ {t} :
           pc'[u] = pc[u] /\ fresh'[u] = fresh[u] /\ obj'[u] = obj[u],
         pc'[t] \notin {"sort", "sorting"} => fresh'[t] = NoObject,
         pc'[t] \in {"idle", "match", "default"} => obj'[t] = NoObject
  PROVE  ThreadInv'
BY DEF ThreadInv

\* No step leaves a thread where it cannot be.
LEMMA NextThreadInv == TypeOK /\ ThreadInv /\ [Next]_vars => ThreadInv'
<1> SUFFICES ASSUME TypeOK, ThreadInv, [Next]_vars PROVE ThreadInv'
  OBVIOUS
<1> USE DEF Goto
<1>0. ASSUME UNCHANGED <<pc, obj, fresh>>
      PROVE  ThreadInv'
  BY <1>0 DEF ThreadInv
<1>1. ASSUME NEW t \in Threads, Call(t)
      PROVE  ThreadInv'
  <2>0. pc[t] = "idle" /\ obj[t] = NoObject /\ fresh[t] = NoObject
    BY <1>1 DEF Call, Calls, ThreadInv, AddRule, CreateRule, DeleteRule,
       ClearRules, SetRuleState, UpdateRule, ResetStatistics, StartEvaluate,
       Classify, SetDefaultAction, SetEnabled
  <2>1. CASE AddRule(t)
    BY <2>0, <2>1, OneThreadStep DEF AddRule, TypeOK
  <2>2. CASE CreateRule(t)
    <3>1. fresh' = fresh
      BY <2>2 DEF CreateRule
    <3>2. CASE UNCHANGED <<heap, obj, pc>>
      BY <1>0, <3>1, <3>2
    <3>3. CASE \E o \in Objects : /\ obj' = [obj EXCEPT ![t] = o]
                                  /\ pc' = [pc EXCEPT ![t] = "insert"]
      BY <2>0, <3>1, <3>3, OneThreadStep DEF TypeOK
    <3>4. QED
      BY <2>2, <3>2, <3>3 DEF CreateRule
  <2>3. CASE DeleteRule(t)
    BY <2>0, <2>3, OneThreadStep DEF DeleteRule, TypeOK
  <2>4. CASE ClearRules(t)
    BY <1>0, <2>4 DEF ClearRules
  <2>5. CASE SetRuleState(t)
    BY <1>0, <2>5 DEF SetRuleState
  <2>6. CASE UpdateRule(t)
    BY <2>0, <2>6, OneThreadStep DEF UpdateRule, TypeOK
  <2>7. CASE ResetStatistics(t)
    BY <1>0, <2>7 DEF ResetStatistics
  <2>8. CASE StartEvaluate(t)
    BY <2>0, <2>8, OneThreadStep DEF StartEvaluate, TypeOK
  <2>9. CASE Classify(t)
    BY <2>0, <2>9, OneThreadStep DEF Classify, TypeOK
  <2>10. CASE SetDefaultAction(t)
    BY <1>0, <2>10 DEF SetDefaultAction
  <2>11. CASE SetEnabled(t)
    BY <1>0, <2>11 DEF SetEnabled
  <2>12. QED
    BY <1>1, <2>1, <2>2, <2>3, <2>4, <2>5, <2>6, <2>7, <2>8, <2>9, <2>10, <2>11
    DEF Call
<1>2. ASSUME NEW t \in Threads, Continue(t)
      PROVE  ThreadInv'
  <2>1. CASE InsertRule(t)
    <3>1. pc[t] = "insert" /\ fresh[t] = NoObject
      BY <2>1 DEF InsertRule, Full, ThreadInv
    <3>2. CASE FreeAndReturn(t) /\ fresh' = fresh
      BY <3>1, <3>2, OneThreadStep DEF FreeAndReturn, TypeOK
    <3>3. CASE /\ obj' = obj /\ pc' = [pc EXCEPT ![t] = "sort"]
               /\ fresh' = [fresh EXCEPT ![t] = obj[t]]
      BY <3>3, OneThreadStep DEF TypeOK
    <3>4. QED
      BY <2>1, <3>2, <3>3 DEF InsertRule, Full
  <2>2. CASE BeginSort(t)
    BY <2>2, OneThreadStep DEF BeginSort, TypeOK
  <2>3. CASE MoveRule(t)
    BY <1>0, <2>3 DEF MoveRule
  <2>4. CASE EndSort(t)
    BY <2>4, OneThreadStep DEF EndSort, TypeOK
  <2>5. CASE LogAndReturn(t)
    BY <2>5, OneThreadStep DEF LogAndReturn, TypeOK, ThreadInv
  <2>6. CASE FreeRule(t)
    BY <2>6, OneThreadStep DEF FreeRule, FreeAndReturn, TypeOK, ThreadInv
  <2>7. CASE MatchPacket(t)
    <3>1. /\ pc[t] = "match" /\ fresh' = fresh
          /\ fresh[t] = NoObject /\ obj[t] = NoObject
      BY <2>7 DEF MatchPacket, ThreadInv
    <3>2. CASE /\ pc' = [pc EXCEPT ![t] = "result"]
               /\ \E o : obj' = [obj EXCEPT ![t] = o]
      BY <3>1, <3>2, OneThreadStep DEF TypeOK
    <3>3. CASE /\ \E label \in {"result", "default"} :
                    pc' = [pc EXCEPT ![t] = label]
               /\ obj' = obj
      BY <3>1, <3>3, OneThreadStep DEF TypeOK
    <3>4. QED
      BY <2>7, <3>2, <3>3 DEF MatchPacket
  <2>8. CASE ReadDefault(t)
    BY <2>8, OneThreadStep DEF ReadDefault, TypeOK, ThreadInv
  <2>9. CASE ReturnVerdict(t)
    BY <2>9, OneThreadStep DEF ReturnVerdict, TypeOK, ThreadInv
  <2>10. QED
    BY <1>2, <2>1, <2>2, <2>3, <2>4, <2>5, <2>6, <2>7, <2>8, <2>9 DEF Continue
<1>3. CASE BeginExit \/ EndExit \/ UNCHANGED vars
  BY <1>0, <1>3 DEF BeginExit, EndExit, vars
<1>4. QED
  BY <1>1, <1>2, <1>3 DEF Next

-----------------------------------------------------------------------------
(* The order of the table.                                                 *)

\* The list a sort is building is sorted.
ScratchIsSorted ==
  \A i, j \in DOMAIN sorted_rules :
    i < j => Priority(sorted_rules[i]) <= Priority(sorted_rules[j])

OrderInv == InversionsAreFresh /\ ScratchIsSorted

\* What the order of the table is proved from in a step.
Inv == TableInv /\ ThreadInv /\ OrderInv

\* A priority is a number.
LEMMA PriorityType ==
  ASSUME TypeOK, NEW o \in Allocated
  PROVE  Priority(o) \in Nat
BY DEF TypeOK, Rule, Body, Priority

\* A step that moves no rule disturbs the order only by a change of
\* priority, and then the changed rule must be waiting for its sort.
LEMMA PlacesKept ==
  ASSUME Inv,
         UNCHANGED <<rules, sorted_rules>>, initialized' => initialized,
         \A o \in Listed : Priority(o)' = Priority(o) \/ o \in Fresh',
         \A o \in Listed : o \in Fresh => o \in Fresh',
         \/ sorted_rules = <<>>
         \/ \A o \in Listed : Priority(o)' = Priority(o)
  PROVE  OrderInv'
<1>1. /\ DOMAIN rules = 1 .. Len(rules)
      /\ \A i \in DOMAIN rules : rules[i] \in Listed
      /\ DOMAIN sorted_rules = 1 .. Len(sorted_rules)
      /\ \A i \in DOMAIN sorted_rules : sorted_rules[i] \in Listed
  BY RangeOfList DEF Inv, TableInv, TypeOK, Listed
<1>2. InversionsAreFresh'
  BY <1>1 DEF Inv, OrderInv, InversionsAreFresh
<1>3. ScratchIsSorted'
  BY <1>1, EmptyList DEF Inv, OrderInv, ScratchIsSorted
<1>4. QED
  BY <1>2, <1>3 DEF OrderInv

\* While a thread is not on its way to a sort, a step of it lets no rule
\* fall out of those that wait for one.
LEMMA FreshGrows ==
  ASSUME Inv, NEW t \in Threads,
         \/ fresh' = fresh
         \/ fresh[t] = NoObject /\ \E o : fresh' = [fresh EXCEPT ![t] = o]
  PROVE  \A o \in Listed : o \in Fresh => o \in Fresh'
<1>1. Listed \subseteq Objects
  BY DEF Inv, TableInv, HeapOwnership, TypeOK
<1>2. QED
  BY <1>1, NoObjectAssumption DEF Inv, TableInv, TypeOK, Fresh

\* Inserting in front of the first rule of greater priority keeps a list
\* sorted.
LEMMA InsertKeepsSorted ==
  ASSUME NEW list \in Seq(Objects), NEW o \in Objects,
         Priority(o) \in Nat,
         \A i \in 1 .. Len(list) : Priority(list[i]) \in Nat,
         \A i, j \in 1 .. Len(list) :
           i < j => Priority(list[i]) <= Priority(list[j])
  PROVE  \A i, j \in 1 .. Len(list) + 1 :
           i < j => Priority(InsertByPriority(list, o)[i])
                      <= Priority(InsertByPriority(list, o)[j])
<1> DEFINE r == InsertByPriority(list, o)
<1>0. Len(list) \in Nat
  BY LenProperties
<1>1. PICK at \in 1 .. Len(list) + 1 :
        /\ r = InsertAt(list, at, o)
        /\ \A i \in 1 .. at - 1 : ~ (Priority(o) < Priority(list[i]))
        /\ at <= Len(list) => Priority(o) < Priority(list[at])
  BY InsertByPriorityProperties
<1>2. \A k \in 1 .. Len(list) + 1 :
        r[k] = IF k < at THEN list[k] ELSE IF k = at THEN o ELSE list[k - 1]
  BY <1>1, InsertAtProperties, SMTT(30)
<1> HIDE DEF r
<1>3. \A k \in 1 .. Len(list) + 1 :
        \/ k < at /\ k \in 1 .. Len(list) /\ r[k] = list[k]
        \/ k = at /\ r[k] = o
        \/ k > at /\ k - 1 \in at .. Len(list) /\ r[k] = list[k - 1]
  BY <1>0, <1>2
<1>4. \A k \in 1 .. Len(list) : k < at => Priority(list[k]) <= Priority(o)
  BY <1>0, <1>1
<1>5. \A k \in at .. Len(list) : Priority(o) <= Priority(list[k])
  <2>1. SUFFICES ASSUME NEW k \in at .. Len(list)
                 PROVE  Priority(o) <= Priority(list[k])
    OBVIOUS
  <2>2. at \in 1 .. Len(list) /\ k \in 1 .. Len(list) /\ at <= k
    BY <1>0
  <2>3. Priority(list[at]) <= Priority(list[k])
    BY <2>2
  <2>4. QED
    BY <1>1, <2>2, <2>3
<1>6. SUFFICES ASSUME NEW i \in 1 .. Len(list) + 1, NEW j \in 1 .. Len(list) + 1,
                      i < j
               PROVE  Priority(r[i]) <= Priority(r[j])
  BY DEF r
<1>7. CASE i < at /\ j < at
  BY <1>3, <1>6, <1>7
<1>8. CASE i < at /\ j = at
  BY <1>0, <1>3, <1>4, <1>6, <1>8
<1>9. CASE i < at /\ j > at
  <2>1. j - 1 \in at .. Len(list) /\ i \in 1 .. Len(list) /\ j - 1 \in 1 .. Len(list)
        /\ i < j - 1 /\ r[i] = list[i] /\ r[j] = list[j - 1]
    BY <1>0, <1>3, <1>6, <1>9
  <2>2. QED
    BY <2>1
<1>10. CASE i = at /\ j > at
  <2>1. j - 1 \in at .. Len(list) /\ r[j] = list[j - 1] /\ r[i] = o
    BY <1>0, <1>3, <1>6, <1>10
  <2>2. QED
    BY <1>5, <2>1
<1>11. CASE i > at
  <2>1. j - 1 \in 1 .. Len(list) /\ i - 1 \in 1 .. Len(list)
        /\ i - 1 < j - 1 /\ r[i] = list[i - 1] /\ r[j] = list[j - 1]
    BY <1>0, <1>3, <1>6, <1>11
  <2>2. QED
    BY <2>1
<1>12. QED
  BY <1>6, <1>7, <1>8, <1>9, <1>10, <1>11

\* A turn of the sort takes the front off the table, which cannot put two of
\* the remaining rules the wrong way round.
LEMMA MoveRuleOrder ==
  ASSUME Inv, NEW t \in Threads, MoveRule(t)
  PROVE  OrderInv'
<1>1. /\ rules # <<>> /\ rules' = Tail(rules)
      /\ sorted_rules' = InsertByPriority(sorted_rules, Head(rules))
      /\ UNCHANGED <<heap, fresh, initialized>>
  BY DEF MoveRule, engineVars
<1>2. /\ rules \in Seq(Objects) /\ sorted_rules \in Seq(Objects)
      /\ Len(rules) \in Nat /\ Len(sorted_rules) \in Nat
      /\ DOMAIN rules = 1 .. Len(rules)
      /\ DOMAIN sorted_rules = 1 .. Len(sorted_rules)
  BY LenProperties DEF Inv, TableInv, TypeOK
<1>3. /\ Fresh' = Fresh
      /\ \A o : Priority(o)' = Priority(o)
  BY <1>1 DEF Fresh, Priority
<1>4. InversionsAreFresh'
  <2>1. /\ DOMAIN rules' = 1 .. Len(rules) - 1
        /\ \A k \in 1 .. Len(rules) - 1 : rules'[k] = rules[k + 1]
    BY <1>1, <1>2, HeadTailProperties, LenProperties
  <2>2. \A i, j \in DOMAIN rules' :
          i < j => /\ i + 1 \in DOMAIN rules /\ j + 1 \in DOMAIN rules
                   /\ i + 1 < j + 1
                   /\ rules'[i] = rules[i + 1] /\ rules'[j] = rules[j + 1]
    BY <1>2, <2>1
  <2>3. QED
    BY <1>1, <1>3, <2>2 DEF Inv, OrderInv, InversionsAreFresh
<1>5. ScratchIsSorted'
  <2>1. Head(rules) \in Allocated /\ Head(rules) \in Objects
    BY <1>1, <1>2, HeadTailProperties, TailElements
    DEF Inv, TableInv, UniqueRules, HeapOwnership, Listed
  <2>2. \A i \in 1 .. Len(sorted_rules) : sorted_rules[i] \in Allocated
    BY <1>2, RangeOfList DEF Inv, TableInv, HeapOwnership, Listed
  <2>3. /\ Priority(Head(rules)) \in Nat
        /\ \A i \in 1 .. Len(sorted_rules) : Priority(sorted_rules[i]) \in Nat
    BY <2>1, <2>2, PriorityType DEF Inv, TableInv
  <2>4. \A i, j \in 1 .. Len(sorted_rules) + 1 :
          i < j => Priority(sorted_rules'[i]) <= Priority(sorted_rules'[j])
    BY <1>1, <1>2, <2>1, <2>3, InsertKeepsSorted
    DEF Inv, OrderInv, ScratchIsSorted
  <2>5. DOMAIN sorted_rules' = 1 .. Len(sorted_rules) + 1
    <3>1. PICK at \in 1 .. Len(sorted_rules) + 1 :
            sorted_rules' = InsertAt(sorted_rules, at, Head(rules))
      BY <1>1, <1>2, <2>1, InsertByPriorityProperties
    <3>2. QED
      BY <1>2, <2>1, <3>1, InsertAtProperties, LenProperties
  <2>6. QED
    BY <1>3, <2>4, <2>5 DEF ScratchIsSorted
<1>6. QED
  BY <1>4, <1>5 DEF OrderInv

\* The end of the sort puts its sorted list in place.
LEMMA EndSortOrder ==
  ASSUME Inv, NEW t \in Threads, EndSort(t)
  PROVE  OrderInv'
<1>1. rules' = sorted_rules /\ sorted_rules' = <<>> /\ heap' = heap
  BY DEF EndSort
<1>2. \A i \in DOMAIN sorted_rules : Priority(sorted_rules[i]) \in Nat
  BY PriorityType DEF Inv, TableInv, HeapOwnership, Listed, Range
<1>3. InversionsAreFresh'
  BY <1>1, <1>2 DEF Inv, OrderInv, ScratchIsSorted, InversionsAreFresh, Priority
<1>4. ScratchIsSorted'
  BY <1>1 DEF ScratchIsSorted
<1>5. QED
  BY <1>3, <1>4 DEF OrderInv

\* A rule inserted at the tail waits for its sort.
LEMMA InsertRuleOrder ==
  ASSUME Inv, NEW t \in Threads, InsertRule(t)
  PROVE  OrderInv'
<1> DEFINE o == obj[t]
<1>1. /\ pc[t] = "insert" /\ LockFree
      /\ sorted_rules' = sorted_rules /\ initialized' = initialized
      /\ fresh[t] = NoObject
  BY DEF InsertRule, Full, engineVars, Inv, ThreadInv
<1>2. o \in Allocated /\ o \notin Listed /\ o \in Objects
  BY <1>1 DEF Inv, TableInv, HeapOwnership, Held, TypeOK
<1>3. CASE FreeAndReturn(t) /\ rules' = rules /\ fresh' = fresh
  <2>1. \A q \in Listed : Priority(q)' = Priority(q)
    BY <1>2, <1>3 DEF FreeAndReturn, Free, Priority, Inv, TableInv, HeapOwnership
  <2>2. Fresh' = Fresh
    BY <1>3 DEF Fresh
  <2>3. QED
    BY <1>1, <1>3, <2>1, <2>2, PlacesKept
<1>4. CASE /\ \E id : heap' = [heap EXCEPT ![o].id = id]
           /\ rules' = Append(rules, o)
           /\ fresh' = [fresh EXCEPT ![t] = o]
  <2>1. \A q \in Allocated : Priority(q)' = Priority(q)
    BY <1>2, <1>4 DEF Priority, Inv, TableInv, TypeOK, Rule
  <2>2. (\A q \in Listed : q \in Fresh => q \in Fresh') /\ o \in Fresh'
    <3>1. \A q \in Listed : q \in Fresh => q \in Fresh'
      BY <1>1, <1>4, FreshGrows
    <3>2. fresh'[t] = o
      BY <1>4 DEF Inv, TableInv, TypeOK
    <3>3. QED
      BY <3>1, <3>2 DEF Fresh
  <2>3. sorted_rules = <<>> /\ sorted_rules' = <<>>
    BY <1>1 DEF Inv, TableInv, SortIsLocal
  <2>4. /\ rules \in Seq(Objects) /\ Len(rules) \in Nat
        /\ DOMAIN rules = 1 .. Len(rules)
        /\ DOMAIN rules' = 1 .. Len(rules) + 1
        /\ \A k \in 1 .. Len(rules) + 1 :
             rules'[k] = IF k <= Len(rules) THEN rules[k] ELSE o
        /\ \A k \in 1 .. Len(rules) : rules[k] \in Listed /\ rules[k] \in Allocated
    BY <1>2, <1>4, LenProperties, AppendElements, RangeOfList
    DEF Inv, TableInv, TypeOK, Listed, HeapOwnership
  <2>5. InversionsAreFresh'
    <3>1. SUFFICES ASSUME initialized,
                          NEW i \in 1 .. Len(rules) + 1,
                          NEW j \in 1 .. Len(rules) + 1,
                          i < j,
                          heap'[rules'[j]].body.priority
                            < heap'[rules'[i]].body.priority
                   PROVE  rules'[i] \in Fresh' \/ rules'[j] \in Fresh'
      BY <1>1, <2>4 DEF InversionsAreFresh, Priority
    <3>2. CASE j = Len(rules) + 1
      BY <2>2, <2>4, <3>2
    <3>3. CASE j # Len(rules) + 1
      <4>1. /\ i \in 1 .. Len(rules) /\ j \in 1 .. Len(rules)
            /\ rules'[i] = rules[i] /\ rules'[j] = rules[j]
        BY <2>4, <3>1, <3>3
      <4>2. Priority(rules[j]) < Priority(rules[i])
        BY <2>1, <2>4, <3>1, <4>1 DEF Priority
      <4>3. rules[i] \in Fresh \/ rules[j] \in Fresh
        BY <2>4, <3>1, <4>1, <4>2 DEF Inv, OrderInv, InversionsAreFresh
      <4>4. QED
        BY <2>2, <2>4, <4>1, <4>3
    <3>4. QED
      BY <3>2, <3>3
  <2>6. ScratchIsSorted'
    BY <2>3 DEF ScratchIsSorted
  <2>7. QED
    BY <2>5, <2>6 DEF OrderInv
<1>5. QED
  BY <1>3, <1>4 DEF InsertRule, Full, Goto

\* Deleting a rule leaves the others in their order.
LEMMA DeleteRuleOrder ==
  ASSUME Inv, NEW t \in Threads, DeleteRule(t)
  PROVE  OrderInv'
<1>1. /\ LockFree
      /\ UNCHANGED <<sorted_rules, heap, fresh, initialized>>
  BY DEF DeleteRule, engineVars
<1>2. rules \in Seq(Objects) /\ Len(rules) \in Nat /\ DOMAIN rules = 1 .. Len(rules)
  BY LenProperties DEF Inv, TableInv, TypeOK
<1>3. PICK id \in Id : FindRule(id) # 0 /\ rules' = RemoveAt(rules, FindRule(id))
  BY DEF DeleteRule
<1> DEFINE k == FindRule(id)
<1>4. k \in 1 .. Len(rules)
  BY <1>2, <1>3, FindRuleProperties
<1> HIDE DEF k
<1>5. Fresh' = Fresh /\ \A o : Priority(o)' = Priority(o)
  BY <1>1 DEF Fresh, Priority
<1>6. DOMAIN rules' = 1 .. Len(rules) - 1
  BY <1>2, <1>3, <1>4, RemoveAtProperties, LenProperties DEF k
<1>7. \A a \in 1 .. Len(rules) - 1 :
        \/ a < k /\ a \in 1 .. Len(rules) /\ rules'[a] = rules[a]
        \/ a >= k /\ a + 1 \in 1 .. Len(rules) /\ rules'[a] = rules[a + 1]
  <2>1. \A a \in 1 .. Len(rules) - 1 :
          rules'[a] = IF a < k THEN rules[a] ELSE rules[a + 1]
    BY <1>2, <1>3, <1>4, RemoveAtProperties DEF k
  <2>2. QED
    BY <1>2, <1>4, <2>1
<1>8. InversionsAreFresh'
  <2>1. SUFFICES ASSUME initialized,
                        NEW a \in 1 .. Len(rules) - 1,
                        NEW b \in 1 .. Len(rules) - 1,
                        a < b,
                        Priority(rules'[b]) < Priority(rules'[a])
                 PROVE  rules'[a] \in Fresh \/ rules'[b] \in Fresh
    BY <1>1, <1>5, <1>6 DEF InversionsAreFresh, Priority
  <2>2. \A c, d \in 1 .. Len(rules) :
          c < d /\ Priority(rules[d]) < Priority(rules[c]) =>
            rules[c] \in Fresh \/ rules[d] \in Fresh
    BY <1>2, <2>1 DEF Inv, OrderInv, InversionsAreFresh
  <2>3. CASE b < k
    BY <1>2, <1>4, <1>7, <2>1, <2>2, <2>3
  <2>4. CASE a < k /\ b >= k
    BY <1>2, <1>4, <1>7, <2>1, <2>2, <2>4
  <2>5. CASE a >= k
    BY <1>2, <1>4, <1>7, <2>1, <2>2, <2>5
  <2>6. QED
    BY <1>2, <1>4, <2>3, <2>4, <2>5
<1>9. ScratchIsSorted'
  BY <1>1, <1>5 DEF Inv, OrderInv, ScratchIsSorted
<1>10. QED
  BY <1>8, <1>9 DEF OrderInv

\* With the table dropped there is nothing left to sort.
LEMMA DropAllRulesOrder ==
  ASSUME Inv, LockFree, DropAllRules
  PROVE  OrderInv'
<1>1. rules' = <<>> /\ sorted_rules' = <<>>
  BY DEF DropAllRules, Inv, TableInv, SortIsLocal
<1>2. QED
  BY <1>1 DEF OrderInv, InversionsAreFresh, ScratchIsSorted

\* Of the other steps only an update changes a priority, and the updated
\* rule then waits for its sort.
LEMMA NextOrderInv == Inv /\ [Next]_vars => OrderInv'
<1> SUFFICES ASSUME Inv, [Next]_vars PROVE OrderInv'
  OBVIOUS
<1>0. TypeOK /\ Listed \subseteq Allocated
  BY DEF Inv, TableInv, HeapOwnership
<1>1. ASSUME UNCHANGED <<rules, sorted_rules, heap, fresh>>,
             initialized' => initialized
      PROVE  OrderInv'
  BY <1>1, PlacesKept DEF Priority, Fresh
<1>2. ASSUME UNCHANGED <<rules, sorted_rules, fresh, initialized>>,
             \A o \in Listed : heap'[o].body.priority = heap[o].body.priority
      PROVE  OrderInv'
  BY <1>2, PlacesKept DEF Priority, Fresh
<1>3. ASSUME NEW t \in Threads, Call(t)
      PROVE  OrderInv'
  <2>1. CASE AddRule(t) \/ CreateRule(t)
    <3>1. UNCHANGED <<rules, sorted_rules, fresh, initialized>>
      BY <2>1 DEF AddRule, CreateRule, engineVars
    <3>2. CASE heap' = heap
      BY <1>1, <3>1, <3>2
    <3>3. CASE \E o \in Objects \ Allocated : \E rule : Allocate(o, rule)
      <4>1. \A q \in Listed : heap'[q] = heap[q]
        BY <1>0, <3>3 DEF Allocate
      <4>2. QED
        BY <1>2, <3>1, <4>1
    <3>4. QED
      BY <2>1, <3>2, <3>3 DEF AddRule, CreateRule
  <2>2. CASE DeleteRule(t)
    BY <2>2, DeleteRuleOrder
  <2>3. CASE ClearRules(t)
    BY <2>3, DropAllRulesOrder DEF ClearRules
  <2>4. CASE SetRuleState(t)
    <3>1. UNCHANGED <<rules, sorted_rules, fresh, initialized>>
      BY <2>4 DEF SetRuleState, engineVars
    <3>2. PICK id \in Id, on \in BOOLEAN :
            heap' = [heap EXCEPT ![rules[FindRule(id)]].body.enabled = on]
      BY <2>4 DEF SetRuleState
    <3>3. \A o \in Listed : heap'[o].body.priority = heap[o].body.priority
      BY <1>0, <3>2 DEF TypeOK, Rule, Body
    <3>4. QED
      BY <1>2, <3>1, <3>3
  <2>5. CASE UpdateRule(t)
    <3>1. /\ UNCHANGED <<rules, sorted_rules, initialized>>
          /\ LockFree /\ pc[t] = "idle" /\ fresh[t] = NoObject
      BY <2>5 DEF UpdateRule, Calls, engineVars, Inv, ThreadInv
    <3>2. PICK q, body : /\ heap' = [heap EXCEPT ![q].body = body]
                         /\ fresh' = [fresh EXCEPT ![t] = q]
      BY <2>5 DEF UpdateRule
    <3>3. \A o \in Listed : o # q => heap'[o] = heap[o]
      BY <1>0, <3>2 DEF TypeOK
    <3>4. q \in Fresh'
      BY <1>0, <3>2 DEF Fresh, TypeOK
    <3>5. sorted_rules = <<>>
      BY <3>1 DEF Inv, TableInv, SortIsLocal
    <3>6. \A o \in Listed : o \in Fresh => o \in Fresh'
      BY <3>1, <3>2, FreshGrows
    <3>7. QED
      BY <3>1, <3>3, <3>4, <3>5, <3>6, PlacesKept DEF Priority
  <2>6. CASE ResetStatistics(t)
    <3>1. UNCHANGED <<rules, sorted_rules, fresh, initialized>>
      BY <2>6 DEF ResetStatistics, engineVars
    <3>2. \A o \in Listed : heap'[o].body.priority = heap[o].body.priority
      BY <1>0, <2>6 DEF ResetStatistics, TypeOK, Rule
    <3>3. QED
      BY <1>2, <3>1, <3>2
  <2>7. CASE StartEvaluate(t) \/ Classify(t)
    BY <1>1, <2>7 DEF StartEvaluate, Classify, tableVars, engineVars
  <2>8. CASE SetDefaultAction(t) \/ SetEnabled(t)
    BY <1>1, <2>8 DEF SetDefaultAction, SetEnabled, tableVars
  <2>9. QED
    BY <1>3, <2>1, <2>2, <2>3, <2>4, <2>5, <2>6, <2>7, <2>8 DEF Call
<1>4. ASSUME NEW t \in Threads, Continue(t)
      PROVE  OrderInv'
  <2>1. CASE InsertRule(t)
    BY <2>1, InsertRuleOrder
  <2>2. CASE BeginSort(t)
    <3>1. UNCHANGED <<rules, sorted_rules, heap, initialized>>
      BY <2>2 DEF BeginSort, engineVars
    <3>2. CASE fresh' = fresh
      BY <1>1, <3>1, <3>2
    <3>3. CASE ~ initialized
      BY <3>1, <3>3 DEF Inv, OrderInv, InversionsAreFresh, ScratchIsSorted, Priority
    <3>4. QED
      BY <2>2, <3>2, <3>3 DEF BeginSort
  <2>3. CASE MoveRule(t)
    BY <2>3, MoveRuleOrder
  <2>4. CASE EndSort(t)
    BY <2>4, EndSortOrder
  <2>5. CASE LogAndReturn(t) \/ ReadDefault(t) \/ ReturnVerdict(t)
    BY <1>1, <2>5 DEF LogAndReturn, ReadDefault, ReturnVerdict, tableVars, engineVars
  <2>6. CASE FreeRule(t)
    <3>1. UNCHANGED <<rules, sorted_rules, fresh, initialized>>
      BY <2>6 DEF FreeRule, engineVars
    <3>2. obj[t] \notin Listed
      BY <2>6 DEF FreeRule, Inv, TableInv, HeapOwnership, Held
    <3>3. \A o \in Listed : heap'[o] = heap[o]
      BY <1>0, <2>6, <3>2 DEF FreeRule, FreeAndReturn, Free
    <3>4. QED
      BY <1>2, <3>1, <3>3
  <2>7. CASE MatchPacket(t)
    <3>1. UNCHANGED <<rules, sorted_rules, fresh, initialized>>
      BY <2>7 DEF MatchPacket, engineVars
    <3>2. CASE heap' = heap
      BY <1>1, <3>1, <3>2
    <3>3. CASE \E q, c : heap' = [heap EXCEPT ![q].hits["matched"] = @ + 1,
                                              ![q].hits[c] = @ + 1]
      <4>1. \A o \in Listed : heap'[o].body.priority = heap[o].body.priority
        BY <1>0, <3>3 DEF TypeOK, Rule
      <4>2. QED
        BY <1>2, <3>1, <4>1
    <3>4. QED
      BY <2>7, <3>2, <3>3 DEF MatchPacket
  <2>8. QED
    BY <1>4, <2>1, <2>2, <2>3, <2>4, <2>5, <2>6, <2>7 DEF Continue
<1>5. CASE BeginExit
  BY <1>5, DropAllRulesOrder DEF BeginExit
<1>6. CASE EndExit
  BY <1>1, <1>6 DEF EndExit, tableVars
<1>7. CASE UNCHANGED vars
  BY <1>1, <1>7 DEF vars
<1>8. QED
  BY <1>3, <1>4, <1>5, <1>6, <1>7 DEF Next

\* The inductive invariant of the engine.
LEMMA InvHolds == Spec => []Inv
<1>1. Init => ThreadInv /\ OrderInv
  BY DEF Init, ThreadInv, OrderInv, InversionsAreFresh, ScratchIsSorted
<1>2. Init => Inv
  BY <1>1, InitTableInv DEF Inv
<1>3. Inv /\ [Next]_vars => Inv'
  BY NextTableInv, NextThreadInv, NextOrderInv DEF Inv, TableInv
<1>4. QED
  BY <1>2, <1>3, PTL DEF Spec

\* Wherever two rules stand against their priorities, an add or an update of
\* one of the two is on its way to sort, for every number of threads that
\* add, update, delete and clear meanwhile.
THEOREM OrderHolds == Spec => []InversionsAreFresh
<1>1. Inv => InversionsAreFresh
  BY DEF Inv, OrderInv
<1>2. QED
  BY <1>1, InvHolds, PTL

\* Only a match of its own gives a thread at "match" a rule pointer.
LEMMA OnlyMatchGivesRule ==
  ASSUME Inv, [Next]_vars, NEW t \in Threads,
         pc[t] = "match", obj'[t] # NoObject
  PROVE  MatchPacket(t)
<1>1. TypeOK /\ obj[t] = NoObject
  BY DEF Inv, TableInv, ThreadInv
<1>2. obj' # obj
  BY <1>1
<1>3. ASSUME NEW u \in Threads, NEW o, obj' = [obj EXCEPT ![u] = o]
      PROVE  u = t
  BY <1>1, <1>3 DEF TypeOK
<1>4. ASSUME NEW u \in Threads, Call(u)
      PROVE  FALSE
  <2>1. pc[u] = "idle"
    BY <1>4 DEF Call, Calls, AddRule, CreateRule, DeleteRule, ClearRules,
       SetRuleState, UpdateRule, ResetStatistics, StartEvaluate, Classify,
       SetDefaultAction, SetEnabled
  <2>2. obj' = obj \/ \E o : obj' = [obj EXCEPT ![u] = o]
    BY <1>4 DEF Call, AddRule, CreateRule, DeleteRule, ClearRules,
       SetRuleState, UpdateRule, ResetStatistics, StartEvaluate, Classify,
       SetDefaultAction, SetEnabled
  <2>3. QED
    BY <1>2, <1>3, <2>1, <2>2
<1>5. ASSUME NEW u \in Threads, Continue(u), ~ MatchPacket(u)
      PROVE  FALSE
  <2>1. pc[u] # "match"
    BY <1>5 DEF Continue, InsertRule, BeginSort, MoveRule, EndSort,
       LogAndReturn, FreeRule, ReadDefault, ReturnVerdict
  <2>2. obj' = obj \/ \E o : obj' = [obj EXCEPT ![u] = o]
    BY <1>5 DEF Continue, InsertRule, BeginSort, MoveRule, EndSort,
       LogAndReturn, FreeRule, FreeAndReturn, ReadDefault, ReturnVerdict
  <2>3. QED
    BY <1>2, <1>3, <2>1, <2>2
<1>6. ASSUME NEW u \in Threads, MatchPacket(u)
      PROVE  u = t
  BY <1>2, <1>3, <1>6 DEF MatchPacket
<1>7. CASE BeginExit \/ EndExit \/ UNCHANGED vars
  BY <1>2, <1>7 DEF BeginExit, EndExit, vars
<1>8. QED
  BY <1>4, <1>5, <1>6, <1>7 DEF Next, Continue

\* pf_rule_engine_find_match passes over a matching rule of higher priority
\* only where one of the two rules still waits for its sort.
THEOREM MatchHolds == Spec => MatchSkipsOnlyFresh
<1> DEFINE Skip ==
      \A t \in Threads :
        pc[t] = "match" /\ obj'[t] # NoObject =>
          \A o \in Listed :
            Matches(o, pkt'[t]) /\ Priority(o) < Priority(obj'[t]) =>
              o \in Fresh \/ obj'[t] \in Fresh
<1>1. ASSUME Inv, [Next]_vars, NEW t \in Threads,
             pc[t] = "match", obj'[t] # NoObject,
             NEW o \in Listed,
             Matches(o, pkt'[t]), Priority(o) < Priority(obj'[t])
      PROVE  o \in Fresh \/ obj'[t] \in Fresh
  <2>1. MatchPacket(t)
    BY <1>1, OnlyMatchGivesRule
  <2>2. TypeOK /\ obj[t] = NoObject /\ sorted_rules = <<>>
    BY <1>1, <2>1 DEF MatchPacket, Inv, TableInv, ThreadInv, SortIsLocal
  <2>3. PICK p \in Packets :
          /\ pkt' = [pkt EXCEPT ![t] = p]
          /\ FindMatch(p) # 0
          /\ obj' = [obj EXCEPT ![t] = rules[FindMatch(p)]]
    BY <1>1, <2>1, <2>2 DEF MatchPacket
  <2> DEFINE i == FindMatch(p)
  <2>4. pkt'[t] = p /\ obj'[t] = rules[i]
    BY <2>2, <2>3 DEF TypeOK
  <2>5. /\ rules \in Seq(Objects) /\ Len(rules) \in Nat
        /\ DOMAIN rules = 1 .. Len(rules)
        /\ Listed = {rules[j] : j \in 1 .. Len(rules)}
    BY <2>2, LenProperties, RangeOfList, EmptyList DEF TypeOK, Listed
  <2>6. /\ i \in 1 .. Len(rules)
        /\ \A j \in 1 .. i - 1 : ~ Matches(rules[j], p)
        /\ initialized
    BY <2>3, <2>5, FindMatchProperties
  <2> HIDE DEF i
  <2>7. PICK j \in 1 .. Len(rules) : o = rules[j]
    BY <2>5
  <2>8. Priority(rules[i]) \in Nat /\ Priority(rules[j]) \in Nat
    BY <1>1, <2>5, <2>6, PriorityType DEF Inv, TableInv, HeapOwnership
  <2>9. j # i
    BY <1>1, <2>4, <2>7, <2>8
  <2>10. i < j
    BY <1>1, <2>4, <2>5, <2>6, <2>7, <2>9
  <2>11. QED
    BY <1>1, <2>3, <2>4, <2>5, <2>6, <2>7, <2>10
    DEF Inv, OrderInv, InversionsAreFresh
<1>2. Inv /\ [Next]_vars => [Skip]_vars
  BY <1>1
<1>3. QED
  BY <1>2, InvHolds, PTL DEF Spec, MatchSkipsOnlyFresh

-----------------------------------------------------------------------------
(* The order of rules of equal priority.                                   *)

Precedes(list, o, q) ==
  \E i, j \in DOMAIN list : i < j /\ list[i] = o /\ list[j] = q

\* In a list without repetitions only one of two elements is the earlier.
LEMMA OrderIsStrict ==
  ASSUME NEW S, NEW s \in Seq(S), IsInjective(s), NEW o, NEW q,
         Precedes(s, o, q)
  PROVE  ~ Precedes(s, q, o)
<1>1. DOMAIN s = 1 .. Len(s) /\ Len(s) \in Nat
  BY LenProperties
<1>2. \A i, j \in DOMAIN s : s[i] = s[j] => i = j
  BY DEF IsInjective
<1>3. QED
  BY <1>1, <1>2 DEF Precedes

\* Two lists in a row keep the order of each and put the first in front.
LEMMA OrderOfConcatenation ==
  ASSUME NEW S, NEW s \in Seq(S), NEW r \in Seq(S), NEW o, NEW q
  PROVE  Precedes(s \o r, o, q) <=>
           \/ Precedes(s, o, q)
           \/ o \in Range(s) /\ q \in Range(r)
           \/ Precedes(r, o, q)
<1> DEFINE c == s \o r
           m == Len(s)
           n == Len(r)
<1>1. /\ m \in Nat /\ n \in Nat
      /\ DOMAIN s = 1 .. m /\ DOMAIN r = 1 .. n /\ DOMAIN c = 1 .. m + n
      /\ \A k \in 1 .. m + n : c[k] = IF k <= m THEN s[k] ELSE r[k - m]
  BY LenProperties, ConcatProperties
<1>2. /\ Range(s) = {s[k] : k \in 1 .. m}
      /\ Range(r) = {r[k] : k \in 1 .. n}
  BY RangeOfList
<1> HIDE DEF c, m, n
<1>3. ASSUME Precedes(c, o, q)
      PROVE  \/ Precedes(s, o, q)
             \/ o \in Range(s) /\ q \in Range(r)
             \/ Precedes(r, o, q)
  <2>1. PICK i \in 1 .. m + n, j \in 1 .. m + n :
          i < j /\ c[i] = o /\ c[j] = q
    BY <1>1, <1>3 DEF Precedes
  <2>2. CASE j <= m
    <3>1. i \in 1 .. m /\ j \in 1 .. m /\ s[i] = o /\ s[j] = q
      BY <1>1, <2>1, <2>2
    <3>2. QED
      BY <1>1, <2>1, <3>1 DEF Precedes
  <2>3. CASE i <= m /\ j > m
    <3>1. i \in 1 .. m /\ j - m \in 1 .. n /\ s[i] = o /\ r[j - m] = q
      BY <1>1, <2>1, <2>3
    <3>2. QED
      BY <1>2, <3>1
  <2>4. CASE i > m
    <3>1. /\ i - m \in 1 .. n /\ j - m \in 1 .. n /\ i - m < j - m
          /\ r[i - m] = o /\ r[j - m] = q
      BY <1>1, <2>1, <2>4
    <3>2. QED
      BY <1>1, <3>1 DEF Precedes
  <2>5. QED
    BY <1>1, <2>1, <2>2, <2>3, <2>4
<1>4. ASSUME Precedes(s, o, q)
      PROVE  Precedes(c, o, q)
  <2>1. PICK i \in 1 .. m, j \in 1 .. m : i < j /\ s[i] = o /\ s[j] = q
    BY <1>1, <1>4 DEF Precedes
  <2>2. /\ i \in 1 .. m + n /\ j \in 1 .. m + n
        /\ c[i] = o /\ c[j] = q
    BY <1>1, <2>1
  <2>3. QED
    BY <1>1, <2>1, <2>2 DEF Precedes
<1>5. ASSUME o \in Range(s), q \in Range(r)
      PROVE  Precedes(c, o, q)
  <2>1. PICK i \in 1 .. m : s[i] = o
    BY <1>2, <1>5
  <2>2. PICK j \in 1 .. n : r[j] = q
    BY <1>2, <1>5
  <2>3. /\ i \in 1 .. m + n /\ m + j \in 1 .. m + n /\ i < m + j
        /\ ~ (m + j <= m) /\ (m + j) - m = j
    BY <1>1, <2>1, <2>2
  <2>4. c[i] = o /\ c[m + j] = q
    BY <1>1, <2>1, <2>2, <2>3
  <2>5. QED
    BY <1>1, <2>3, <2>4 DEF Precedes
<1>6. ASSUME Precedes(r, o, q)
      PROVE  Precedes(c, o, q)
  <2>1. PICK i \in 1 .. n, j \in 1 .. n : i < j /\ r[i] = o /\ r[j] = q
    BY <1>1, <1>6 DEF Precedes
  <2>2. /\ m + i \in 1 .. m + n /\ m + j \in 1 .. m + n /\ m + i < m + j
        /\ ~ (m + i <= m) /\ (m + i) - m = i
        /\ ~ (m + j <= m) /\ (m + j) - m = j
    BY <1>1, <2>1
  <2>3. c[m + i] = o /\ c[m + j] = q
    BY <1>1, <2>1, <2>2
  <2>4. QED
    BY <1>1, <2>2, <2>3 DEF Precedes
<1>7. QED
  BY <1>3, <1>4, <1>5, <1>6 DEF c

\* A list that grows at its tail, or loses its head or another element,
\* keeps the rest in its order.
LEMMA OrderInAppend ==
  ASSUME NEW S, NEW s \in Seq(S), NEW e \in S, NEW o, NEW q,
         Precedes(s, o, q)
  PROVE  Precedes(Append(s, e), o, q)
<1>1. /\ DOMAIN s = 1 .. Len(s) /\ Len(s) \in Nat
      /\ DOMAIN Append(s, e) = 1 .. Len(s) + 1
      /\ \A k \in 1 .. Len(s) : Append(s, e)[k] = s[k]
  BY LenProperties, AppendElements
<1>2. QED
  BY <1>1 DEF Precedes

\* What comes before something in a list still does without the head,
LEMMA OrderInTail ==
  ASSUME NEW S, NEW s \in Seq(S), s # <<>>, NEW o, NEW q,
         Precedes(s, o, q), o # Head(s)
  PROVE  Precedes(Tail(s), o, q)
<1>1. /\ DOMAIN s = 1 .. Len(s) /\ Len(s) \in Nat /\ Head(s) = s[1]
      /\ DOMAIN Tail(s) = 1 .. Len(s) - 1
      /\ \A k \in 1 .. Len(s) - 1 : Tail(s)[k] = s[k + 1]
  BY LenProperties, HeadTailProperties
<1>2. PICK i \in 1 .. Len(s), j \in 1 .. Len(s) :
        i < j /\ s[i] = o /\ s[j] = q
  BY <1>1 DEF Precedes
<1>3. i # 1
  BY <1>1, <1>2
<1>4. /\ i - 1 \in 1 .. Len(s) - 1 /\ j - 1 \in 1 .. Len(s) - 1
      /\ i - 1 < j - 1 /\ (i - 1) + 1 = i /\ (j - 1) + 1 = j
  BY <1>1, <1>2, <1>3
<1>5. Tail(s)[i - 1] = o /\ Tail(s)[j - 1] = q
  BY <1>1, <1>2, <1>4
<1>6. QED
  BY <1>1, <1>4, <1>5 DEF Precedes

\* ... and without any element but those two.
LEMMA OrderInRemoveAt ==
  ASSUME NEW S, NEW s \in Seq(S), NEW k \in 1 .. Len(s), NEW o, NEW q,
         Precedes(s, o, q), o # s[k], q # s[k]
  PROVE  Precedes(RemoveAt(s, k), o, q)
<1> DEFINE r == RemoveAt(s, k)
<1>1. /\ DOMAIN s = 1 .. Len(s) /\ Len(s) \in Nat
      /\ r \in Seq(S) /\ Len(r) = Len(s) - 1
      /\ \A a \in 1 .. Len(s) - 1 : r[a] = IF a < k THEN s[a] ELSE s[a + 1]
  BY LenProperties, RemoveAtProperties
<1>2. DOMAIN r = 1 .. Len(s) - 1
  BY <1>1, LenProperties
<1> HIDE DEF r
<1>3. PICK i \in 1 .. Len(s), j \in 1 .. Len(s) :
        i < j /\ s[i] = o /\ s[j] = q
  BY <1>1 DEF Precedes
<1>4. i # k /\ j # k
  BY <1>3
<1> DEFINE at(a) == IF a < k THEN a ELSE a - 1
<1>5. \A a \in 1 .. Len(s) : a # k =>
        at(a) \in 1 .. Len(s) - 1 /\ r[at(a)] = s[a]
  BY <1>1
<1>6. at(i) < at(j)
  BY <1>1, <1>3, <1>4
<1>7. QED
  BY <1>2, <1>3, <1>4, <1>5, <1>6 DEF Precedes, r

\* An insertion keeps the others in their order and puts the new element
\* behind all that stood in front of its place.
LEMMA OrderInInsertAt ==
  ASSUME NEW S, NEW s \in Seq(S), NEW k \in 1 .. Len(s) + 1, NEW e \in S
  PROVE  /\ \A o, q : Precedes(s, o, q) => Precedes(InsertAt(s, k, e), o, q)
         /\ \A i \in 1 .. k - 1 : Precedes(InsertAt(s, k, e), s[i], e)
<1> DEFINE r == InsertAt(s, k, e)
<1>1. /\ DOMAIN s = 1 .. Len(s) /\ Len(s) \in Nat
      /\ r \in Seq(S) /\ Len(r) = Len(s) + 1
      /\ \A a \in 1 .. Len(s) + 1 :
           r[a] = IF a < k THEN s[a] ELSE IF a = k THEN e ELSE s[a - 1]
  BY LenProperties, InsertAtProperties
<1>2. DOMAIN r = 1 .. Len(s) + 1
  BY <1>1, LenProperties
<1> HIDE DEF r
<1> DEFINE at(a) == IF a < k THEN a ELSE a + 1
<1>3. \A a \in 1 .. Len(s) :
        at(a) \in 1 .. Len(s) + 1 /\ r[at(a)] = s[a]
  BY <1>1
<1>4. \A i, j \in 1 .. Len(s) : i < j => at(i) < at(j)
  BY <1>1
<1>5. ASSUME NEW o, NEW q, Precedes(s, o, q)
      PROVE  Precedes(r, o, q)
  <2>1. PICK i \in 1 .. Len(s), j \in 1 .. Len(s) :
          i < j /\ s[i] = o /\ s[j] = q
    BY <1>1, <1>5 DEF Precedes
  <2>2. /\ at(i) \in DOMAIN r /\ at(j) \in DOMAIN r /\ at(i) < at(j)
        /\ r[at(i)] = o /\ r[at(j)] = q
    BY <1>2, <1>3, <1>4, <2>1
  <2> HIDE DEF at
  <2>3. QED
    BY <2>2 DEF Precedes
<1>6. ASSUME NEW i \in 1 .. k - 1
      PROVE  Precedes(r, s[i], e)
  <2>1. /\ i \in DOMAIN r /\ k \in DOMAIN r /\ i < k
        /\ r[i] = s[i] /\ r[k] = e
    BY <1>1, <1>2
  <2>2. QED
    BY <2>1 DEF Precedes
<1>7. QED
  BY <1>5, <1>6 DEF r

\* One turn of the sort takes no rule past another of its priority.
LEMMA MoveRuleTies ==
  ASSUME Inv, NEW t \in Threads, MoveRule(t),
         NEW o \in Listed, NEW q \in Listed,
         Before(o, q), Priority(o) = Priority(q)
  PROVE  Precedes(sorted_rules' \o rules', o, q)
<1> DEFINE h == Head(rules)
<1>1. /\ rules # <<>> /\ rules' = Tail(rules)
      /\ sorted_rules' = InsertByPriority(sorted_rules, h)
  BY DEF MoveRule
<1>2. /\ rules \in Seq(Objects) /\ sorted_rules \in Seq(Objects)
      /\ IsInjective(rules) /\ IsInjective(sorted_rules)
      /\ Range(rules) \cap Range(sorted_rules) = {}
  BY DEF Inv, TableInv, TypeOK, UniqueRules
<1>3. /\ h \in Objects /\ h \in Range(rules) /\ Tail(rules) \in Seq(Objects)
      /\ Range(Tail(rules)) = Range(rules) \ {h}
  BY <1>1, <1>2, HeadTailProperties, TailElements
<1>4. PICK at \in 1 .. Len(sorted_rules) + 1 :
        /\ sorted_rules' = InsertAt(sorted_rules, at, h)
        /\ \A i \in 1 .. at - 1 :
             ~ (Priority(h) < Priority(sorted_rules[i]))
        /\ at <= Len(sorted_rules) =>
             Priority(h) < Priority(sorted_rules[at])
  BY <1>1, <1>2, <1>3, InsertByPriorityProperties
<1>5. /\ sorted_rules' \in Seq(Objects)
      /\ Range(sorted_rules') = Range(sorted_rules) \cup {h}
  BY <1>2, <1>3, <1>4, InsertAtProperties, InsertAtElements
<1>6. \/ Precedes(sorted_rules, o, q)
      \/ o \in Range(sorted_rules) /\ q \in Range(rules)
      \/ Precedes(rules, o, q)
  <2>1. Precedes(sorted_rules \o rules, o, q)
    BY DEF Before, Precedes
  <2>2. QED
    BY <1>2, <2>1, OrderOfConcatenation
<1>7. SUFFICES \/ Precedes(sorted_rules', o, q)
               \/ o \in Range(sorted_rules') /\ q \in Range(rules')
               \/ Precedes(rules', o, q)
  <2>1. rules' \in Seq(Objects)
    BY <1>1, <1>3
  <2>2. QED
    BY <1>5, <1>7, <2>1, OrderOfConcatenation
<1>8. CASE Precedes(sorted_rules, o, q)
  BY <1>2, <1>3, <1>4, <1>8, OrderInInsertAt
<1>9. CASE o \in Range(sorted_rules) /\ q \in Range(rules)
  <2>1. CASE q # h
    BY <1>1, <1>3, <1>5, <1>9, <2>1
  <2>2. CASE q = h
    <3>1. PICK i \in 1 .. Len(sorted_rules) : o = sorted_rules[i]
      BY <1>2, <1>9, RangeOfList
    <3>2. i < at
      <4>1. Len(sorted_rules) \in Nat /\ DOMAIN sorted_rules = 1 .. Len(sorted_rules)
        BY <1>2, LenProperties
      <4>2. \A a \in 1 .. Len(sorted_rules) : Priority(sorted_rules[a]) \in Nat
        BY <1>2, PriorityType, RangeOfList
        DEF Inv, TableInv, HeapOwnership, Listed
      <4>3. CASE i = at
        BY <1>4, <2>2, <3>1, <4>1, <4>2, <4>3
      <4>4. CASE at < i
        <5>1. at \in 1 .. Len(sorted_rules)
          BY <4>1, <4>4
        <5>2. Priority(sorted_rules[at]) <= Priority(sorted_rules[i])
          BY <4>1, <4>4, <5>1 DEF Inv, OrderInv, ScratchIsSorted
        <5>3. Priority(sorted_rules[i]) < Priority(sorted_rules[at])
          BY <1>4, <2>2, <3>1, <4>1, <4>4
        <5>4. QED
          BY <4>2, <5>1, <5>2, <5>3
      <4>5. QED
        BY <4>1, <4>3, <4>4
    <3>3. i \in 1 .. at - 1
      BY <3>1, <3>2
    <3>4. QED
      BY <1>2, <1>3, <1>4, <2>2, <3>1, <3>3, OrderInInsertAt
  <2>3. QED
    BY <2>1, <2>2
<1>10. CASE Precedes(rules, o, q)
  <2>1. CASE o = h
    <3>1. q \in Range(rules) /\ q # h
      <4>1. PICK i \in 1 .. Len(rules), j \in 1 .. Len(rules) :
              i < j /\ rules[i] = o /\ rules[j] = q
        BY <1>2, <1>10, RangeOfList DEF Precedes
      <4>2. i # j /\ q \in Range(rules)
        BY <1>2, <4>1, RangeOfList
      <4>3. q # o
        BY <1>2, <4>1, <4>2, RangeOfList DEF IsInjective
      <4>4. QED
        BY <2>1, <4>2, <4>3
    <3>2. QED
      BY <1>1, <1>3, <1>5, <2>1, <3>1
  <2>2. CASE o # h
    BY <1>1, <1>2, <1>10, <2>2, OrderInTail
  <2>3. QED
    BY <2>1, <2>2
<1>11. QED
  BY <1>6, <1>8, <1>9, <1>10

\* The other steps append a rule, take one out, or leave both lists as one
\* in their order.
LEMMA OtherTies ==
  ASSUME Inv, [Next]_vars, ~ \E t \in Threads : MoveRule(t),
         NEW o \in Listed \cap Listed', NEW q \in Listed \cap Listed',
         Before(o, q)
  PROVE  Precedes(sorted_rules' \o rules', o, q)
<1>0. /\ rules \in Seq(Objects) /\ sorted_rules \in Seq(Objects)
      /\ IsInjective(rules)
      /\ Precedes(sorted_rules \o rules, o, q)
  BY DEF Inv, TableInv, TypeOK, UniqueRules, Before, Precedes
<1>1. CASE UNCHANGED <<rules, sorted_rules>>
  BY <1>0, <1>1
<1>2. ASSUME DropAllRules, LockFree
      PROVE  FALSE
  <2>1. rules' = <<>> /\ sorted_rules' = <<>>
    BY <1>2 DEF DropAllRules, Inv, TableInv, SortIsLocal
  <2>2. QED
    BY <2>1, EmptyList DEF Listed
<1>3. ASSUME LockFree
      PROVE  sorted_rules = <<>> /\ sorted_rules \o rules = rules
  <2>1. sorted_rules = <<>>
    BY <1>3 DEF Inv, TableInv, SortIsLocal
  <2>2. QED
    BY <1>0, <2>1, ConcatEmptySeq
<1>4. ASSUME NEW t \in Threads, DeleteRule(t)
      PROVE  Precedes(sorted_rules' \o rules', o, q)
  <2>1. LockFree /\ sorted_rules' = sorted_rules
    BY <1>4 DEF DeleteRule
  <2>2. PICK id \in Id :
          FindRule(id) # 0 /\ rules' = RemoveAt(rules, FindRule(id))
    BY <1>4 DEF DeleteRule
  <2> DEFINE k == FindRule(id)
  <2>3. k \in 1 .. Len(rules)
    <3>1. Len(rules) \in Nat
      BY <1>0, LenProperties
    <3>2. QED
      BY <1>0, <2>2, <3>1, FindRuleProperties
  <2> HIDE DEF k
  <2>4. rules' \in Seq(Objects) /\ Range(rules') = Range(rules) \ {rules[k]}
    BY <1>0, <2>2, <2>3, RemoveAtProperties, RemoveAtElements DEF k
  <2>5. sorted_rules = <<>> /\ Precedes(rules, o, q)
    BY <1>0, <1>3, <2>1
  <2>6. o # rules[k] /\ q # rules[k]
    BY <2>1, <2>4, <2>5, EmptyList DEF Listed
  <2>7. Precedes(rules', o, q)
    BY <1>0, <2>2, <2>3, <2>5, <2>6, OrderInRemoveAt DEF k
  <2>8. QED
    BY <2>1, <2>4, <2>5, <2>7, ConcatEmptySeq
<1>5. ASSUME NEW t \in Threads, InsertRule(t)
      PROVE  Precedes(sorted_rules' \o rules', o, q)
  <2>1. /\ LockFree /\ sorted_rules' = sorted_rules /\ obj[t] \in Objects
        /\ rules' = rules \/ rules' = Append(rules, obj[t])
    BY <1>5 DEF InsertRule, Full, Inv, TableInv, HeapOwnership, Held, TypeOK
  <2>2. sorted_rules = <<>> /\ Precedes(rules, o, q)
    BY <1>0, <1>3, <2>1
  <2>3. rules' \in Seq(Objects) /\ Precedes(rules', o, q)
    <3>1. Append(rules, obj[t]) \in Seq(Objects)
      BY <1>0, <2>1, AppendElements
    <3>2. Precedes(Append(rules, obj[t]), o, q)
      BY <1>0, <2>1, <2>2, OrderInAppend
    <3>3. QED
      BY <1>0, <2>1, <2>2, <3>1, <3>2
  <2>4. QED
    BY <2>1, <2>2, <2>3, ConcatEmptySeq
<1>6. ASSUME NEW t \in Threads, EndSort(t)
      PROVE  Precedes(sorted_rules' \o rules', o, q)
  <2>1. rules = <<>> /\ rules' = sorted_rules /\ sorted_rules' = <<>>
    BY <1>6 DEF EndSort
  <2>2. sorted_rules' \o rules' = sorted_rules \o rules
    BY <1>0, <2>1, ConcatEmptySeq
  <2>3. QED
    BY <1>0, <2>2
<1>7. ASSUME NEW t \in Threads, Call(t), ~ DeleteRule(t)
      PROVE  UNCHANGED <<rules, sorted_rules>>
  BY <1>2, <1>7 DEF Call, AddRule, CreateRule, ClearRules, SetRuleState,
     UpdateRule, ResetStatistics, StartEvaluate, Classify, SetDefaultAction,
     SetEnabled, tableVars
<1>8. ASSUME NEW t \in Threads, Continue(t), ~ InsertRule(t), ~ EndSort(t)
      PROVE  UNCHANGED <<rules, sorted_rules>>
  BY <1>8 DEF Continue, BeginSort, LogAndReturn, FreeRule, MatchPacket,
     ReadDefault, ReturnVerdict, tableVars
<1>9. CASE BeginExit
  BY <1>2, <1>9 DEF BeginExit
<1>10. CASE EndExit \/ UNCHANGED vars
  BY <1>1, <1>10 DEF EndExit, vars, tableVars
<1>11. QED
  BY <1>1, <1>4, <1>5, <1>6, <1>7, <1>8, <1>9, <1>10 DEF Next

\* Rules of equal priority keep the order they were added in, for every
\* interleaving of sorts, updates and removals.
THEOREM TiesHold == Spec => TiesKeepOrder
<1> DEFINE Kept ==
      \A o, q \in Listed \cap Listed' :
        Before(o, q) /\ Priority(o)' = Priority(q)' => ~ Before(q, o)'
<1>1. ASSUME Inv, Inv', [Next]_vars,
             NEW o \in Listed \cap Listed', NEW q \in Listed \cap Listed',
             Before(o, q), Priority(o)' = Priority(q)'
      PROVE  ~ Before(q, o)'
  <2>1. Precedes(sorted_rules' \o rules', o, q)
    <3>1. CASE \E t \in Threads : MoveRule(t)
      <4>1. Priority(o) = Priority(q)
        BY <1>1, <3>1 DEF MoveRule, Priority
      <4>2. QED
        BY <1>1, <3>1, <4>1, MoveRuleTies
    <3>2. CASE ~ \E t \in Threads : MoveRule(t)
      BY <1>1, <3>2, OtherTies
    <3>3. QED
      BY <3>1, <3>2
  <2>2. /\ rules' \in Seq(Objects) /\ sorted_rules' \in Seq(Objects)
        /\ IsInjective(rules') /\ IsInjective(sorted_rules')
        /\ Range(rules') \cap Range(sorted_rules') = {}
    BY <1>1 DEF Inv, TableInv, TypeOK, UniqueRules
  <2>3. ~ Precedes(sorted_rules' \o rules', q, o)
    <3>1. \A l \in Seq(Objects) : \A x, y :
            Precedes(l, x, y) => x \in Range(l) /\ y \in Range(l)
      BY RangeOfList DEF Precedes
    <3>2. \/ Precedes(sorted_rules', o, q)
          \/ o \in Range(sorted_rules') /\ q \in Range(rules')
          \/ Precedes(rules', o, q)
      BY <2>1, <2>2, OrderOfConcatenation
    <3>3. /\ Precedes(sorted_rules', o, q) => ~ Precedes(sorted_rules', q, o)
          /\ Precedes(rules', o, q) => ~ Precedes(rules', q, o)
      BY <2>2, OrderIsStrict
    <3>4. ~ \/ Precedes(sorted_rules', q, o)
            \/ q \in Range(sorted_rules') /\ o \in Range(rules')
            \/ Precedes(rules', q, o)
      BY <2>2, <3>1, <3>2, <3>3
    <3>5. QED
      BY <2>2, <3>4, OrderOfConcatenation
  <2>4. QED
    BY <2>3 DEF Before, Precedes
<1>2. Inv /\ Inv' /\ [Next]_vars => [Kept]_vars
  BY <1>1
<1>3. QED
  BY <1>2, InvHolds, PTL DEF Spec, TiesKeepOrder

-----------------------------------------------------------------------------
(* The counters.                                                           *)

\* A step that gives a rule no other counters keeps them conserved.
LEMMA CountersKept ==
  ASSUME HitsConserved, \A o \in Allocated' : o \in Allocated /\ heap'[o].hits = heap[o].hits
  PROVE  HitsConserved'
BY DEF HitsConserved

\* A new rule has counted nothing.
LEMMA AllocateKeepsCount ==
  ASSUME HitsConserved, NEW o, NEW body, NEW id, Allocate(o, NewRule(id, body))
  PROVE  HitsConserved'
<1>1. Allocated' = Allocated \cup {o}
  BY DEF Allocate, Allocated
<1>2. \A q \in Allocated' :
        \/ heap'[q].hits = NoHits
        \/ q \in Allocated /\ heap'[q].hits = heap[q].hits
  BY <1>1 DEF Allocate, NewRule
<1>3. \A c \in Counter : NoHits[c] = 0
  BY DEF NoHits
<1>4. QED
  BY <1>2, <1>3 DEF HitsConserved, Counter, Action

\* Freeing touches no other rule's counters.
LEMMA FreeKeepsCount ==
  ASSUME HitsConserved, NEW objects, Free(objects)
  PROVE  HitsConserved'
<1>1. Allocated' = Allocated \ objects
  BY DEF Free, Allocated
<1>2. QED
  BY <1>1, CountersKept DEF Free

\* No step loses a hit.
LEMMA NextHits == TypeOK /\ HitsConserved /\ [Next]_vars => HitsConserved'
<1> SUFFICES ASSUME TypeOK, HitsConserved, [Next]_vars PROVE HitsConserved'
  OBVIOUS
<1>1. ASSUME heap' = heap
      PROVE  HitsConserved'
  BY <1>1, CountersKept DEF Allocated
<1>3. ASSUME NEW t \in Threads, Call(t)
      PROVE  HitsConserved'
  <2>1. CASE AddRule(t) \/ CreateRule(t)
    BY <1>1, <2>1, AllocateKeepsCount DEF AddRule, CreateRule
  <2>2. CASE ClearRules(t)
    BY <2>2, FreeKeepsCount DEF ClearRules, DropAllRules
  <2>3. CASE SetRuleState(t)
    <3>1. PICK id \in Id, on \in BOOLEAN :
            heap' = [heap EXCEPT ![rules[FindRule(id)]].body.enabled = on]
      BY <2>3 DEF SetRuleState
    <3>2. \A o \in Allocated : heap'[o].hits = heap[o].hits
      BY <3>1 DEF TypeOK, Rule
    <3>3. Allocated' = Allocated
      BY <3>1 DEF Allocated
    <3>4. QED
      BY <3>2, <3>3, CountersKept
  <2>4. CASE UpdateRule(t)
    <3>1. PICK o, body : heap' = [heap EXCEPT ![o].body = body]
      BY <2>4 DEF UpdateRule
    <3>2. \A q \in Allocated : heap'[q].hits = heap[q].hits
      BY <3>1 DEF TypeOK, Rule
    <3>3. Allocated' = Allocated
      BY <3>1 DEF Allocated
    <3>4. QED
      BY <3>2, <3>3, CountersKept
  <2>5. CASE ResetStatistics(t)
    <3>1. Allocated' = Allocated
      BY <2>5 DEF ResetStatistics, Allocated
    <3>2. \A q \in Allocated :
            heap'[q].hits = NoHits \/ heap'[q].hits = heap[q].hits
      BY <2>5 DEF ResetStatistics, TypeOK, Rule
    <3>3. \A c \in Counter : NoHits[c] = 0
      BY DEF NoHits
    <3>4. QED
      BY <3>1, <3>2, <3>3 DEF HitsConserved, Counter, Action
  <2>6. QED
    BY <1>1, <1>3, <2>1, <2>2, <2>3, <2>4, <2>5
    DEF Call, DeleteRule, StartEvaluate, Classify, SetDefaultAction, SetEnabled,
        tableVars
<1>4. ASSUME NEW t \in Threads, Continue(t)
      PROVE  HitsConserved'
  <2>1. CASE InsertRule(t)
    <3>1. CASE FreeAndReturn(t)
      BY <3>1, FreeKeepsCount DEF FreeAndReturn
    <3>2. CASE \E id : heap' = [heap EXCEPT ![obj[t]].id = id]
      <4>1. Allocated' = Allocated
        BY <3>2 DEF Allocated
      <4>2. \A q \in Allocated : heap'[q].hits = heap[q].hits
        BY <3>2 DEF TypeOK, Rule
      <4>3. QED
        BY <4>1, <4>2, CountersKept
    <3>3. QED
      BY <2>1, <3>1, <3>2 DEF InsertRule, Full
  <2>2. CASE FreeRule(t)
    BY <2>2, FreeKeepsCount DEF FreeRule, FreeAndReturn
  <2>3. CASE MatchPacket(t)
    <3>1. CASE heap' = heap
      BY <1>1, <3>1
    <3>2. CASE \E q : heap' = [heap EXCEPT ![q].hits["matched"] = @ + 1,
                                           ![q].hits[heap[q].body.action] = @ + 1]
      <4>1. PICK q : heap' = [heap EXCEPT ![q].hits["matched"] = @ + 1,
                                          ![q].hits[heap[q].body.action] = @ + 1]
        BY <3>2
      <4>2. Allocated' = Allocated
        BY <4>1 DEF Allocated
      <4>3. \A o \in Allocated : o # q => heap'[o] = heap[o]
        BY <4>1 DEF TypeOK
      <4>4. ASSUME q \in Allocated
            PROVE  LET hits == heap'[q].hits
                   IN  hits["matched"] = hits["ALLOW"] + hits["DROP"] + hits["MONITOR"]
        <5> DEFINE action == heap[q].body.action
                   old    == heap[q].hits
        <5>1. old \in [Counter -> Nat] /\ action \in Action
          BY <4>4 DEF TypeOK, Rule, Body
        <5>2. heap'[q].hits = [[old EXCEPT !["matched"] = @ + 1]
                                  EXCEPT ![action] = @ + 1]
          BY <4>1, <4>4, <5>1 DEF TypeOK, Rule, Counter
        <5>3. old["matched"] = old["ALLOW"] + old["DROP"] + old["MONITOR"]
          BY <4>4 DEF HitsConserved
        <5> HIDE DEF action, old
        <5>4. QED
          BY <5>1, <5>2, <5>3 DEF Counter, Action
      <4>5. QED
        BY <4>2, <4>3, <4>4 DEF HitsConserved
    <3>3. QED
      BY <2>3, <3>1, <3>2 DEF MatchPacket
  <2>4. QED
    BY <1>1, <1>4, <2>1, <2>2, <2>3
    DEF Continue, BeginSort, MoveRule, EndSort, LogAndReturn, ReadDefault,
        ReturnVerdict, tableVars
<1>5. CASE BeginExit
  BY <1>5, FreeKeepsCount DEF BeginExit, DropAllRules
<1>6. CASE EndExit \/ UNCHANGED vars
  BY <1>1, <1>6 DEF EndExit, vars, tableVars
<1>7. QED
  BY <1>3, <1>4, <1>5, <1>6 DEF Next

\* Every match of a rule is counted under the action it led to, for every
\* interleaving of evaluations, updates and resets.
THEOREM CountersHold == Spec => []HitsConserved
<1>1. Init => HitsConserved
  BY DEF Init, HitsConserved, Allocated
<1>2. TypeOK /\ HitsConserved /\ [Next]_vars => HitsConserved'
  BY NextHits
<1>3. QED
  BY <1>1, <1>2, TypesHold, PTL DEF Spec

=============================================================================
