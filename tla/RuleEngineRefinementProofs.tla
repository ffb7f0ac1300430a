--------------------- MODULE RuleEngineRefinementProofs ---------------------
(***************************************************************************)
(* The proof that the rule engine implements RulePolicy, for every value   *)
(* of the constants: each step the engine takes with its list, its lock,   *)
(* its heap and its sort is one step of the policy or none at all.         *)
(***************************************************************************)
EXTENDS RuleEngineRefinement, RuleEngineProofs

-----------------------------------------------------------------------------
(* The policy's variables, as the engine has them, and its actions told in *)
(* their terms.                                                            *)

Entry(o)  == [id |-> heap[o].id, body |-> heap[o].body]
Entries   == {Entry(o) : o \in Listed}
Unsettled == {heap[o].id : o \in Listed \cap Fresh}
Missed    == {t \in Threads : pc[t] = "default"}

Switches == <<initialized, enabled, default_action>>
Lookups  == <<pkt, Missed, verdict>>

\* The instance of RulePolicy has a Cardinality of its own, by the same
\* definition.
LEMMA PolicyCardinality ==
  ASSUME NEW S
  PROVE  Policy!Cardinality(S) = Cardinality(S)
BY DEF Policy!Cardinality, Cardinality

\* A rule with a new id joins a table that has room for it.
LEMMA InstallPolicy ==
  ASSUME NEW id \in Id, NEW body \in Contents,
         Cardinality(Entries) < MaxRules,
         initialized => \A o \in Listed : heap[o].id # id,
         Entries' = Entries \cup {[id |-> id, body |-> body]},
         Unsettled' = Unsettled \cup {id},
         UNCHANGED <<Switches, Lookups>>
  PROVE  Policy!Install
<1> DEFINE r == [id |-> id, body |-> body]
<1>1. r \in Policy!Entry /\ r.id = id
  BY DEF Policy!Entry
<1>2. initialized => \A q \in Entries : q.id # r.id
  BY DEF Entries, Entry
<1> HIDE DEF r
<1>3. Entries' = Entries \cup {r} /\ Unsettled' = Unsettled \cup {r.id}
  BY <1>1 DEF r
<1>4. Policy!Cardinality(Entries) < MaxRules
  BY PolicyCardinality
<1>5. QED
  BY <1>1, <1>2, <1>3, <1>4
  DEF Policy!Install, Policy!switches, Policy!lookups,
      Entries, Entry, Unsettled, Switches, Lookups, Missed

\* One rule leaves the table, or all of them do.
LEMMA RemoveOnePolicy ==
  ASSUME NEW o \in Listed,
         Entries' = Entries \ {Entry(o)},
         Unsettled' = Unsettled \ {heap[o].id},
         UNCHANGED <<Switches, Lookups>>
  PROVE  Policy!Remove
<1> DEFINE r == Entry(o)
<1>1. r \in Entries /\ r.id = heap[o].id
  BY DEF Entries, Entry
<1> HIDE DEF r
<1>2. Entries' = Entries \ {r} /\ Unsettled' = Unsettled \ {r.id}
  BY <1>1 DEF r
<1>3. QED
  BY <1>1, <1>2
  DEF Policy!Remove, Policy!switches, Policy!lookups,
      Entries, Entry, Unsettled, Switches, Lookups, Missed

\* All rules are removed.
LEMMA RemoveAllPolicy ==
  ASSUME Entries' = {}, Unsettled' = {}, UNCHANGED <<Switches, Lookups>>
  PROVE  Policy!Remove
BY DEF Policy!Remove, Policy!switches, Policy!lookups,
       Entries, Entry, Unsettled, Switches, Lookups, Missed

\* One rule gets another body.
LEMMA RewritePolicy ==
  ASSUME NEW o \in Listed, NEW body \in Contents,
         Entries' = (Entries \ {Entry(o)})
                      \cup {[id |-> heap[o].id, body |-> body]},
         Unsettled' = Unsettled \cup {heap[o].id},
         UNCHANGED <<Switches, Lookups>>
  PROVE  Policy!Rewrite
<1> DEFINE r == Entry(o)
<1>1. /\ r \in Entries /\ r.id = heap[o].id
      /\ [r EXCEPT !.body = body] = [id |-> heap[o].id, body |-> body]
  BY DEF Entries, Entry
<1> HIDE DEF r
<1>2. /\ Entries' = (Entries \ {r}) \cup {[r EXCEPT !.body = body]}
      /\ Unsettled' = Unsettled \cup {r.id}
  BY <1>1 DEF r
<1>3. QED
  BY <1>1, <1>2
  DEF Policy!Rewrite, Policy!switches, Policy!lookups,
      Entries, Entry, Unsettled, Switches, Lookups, Missed

\* One rule is switched on or off.
LEMMA TogglePolicy ==
  ASSUME NEW o \in Listed, NEW state \in BOOLEAN,
         Entries' = (Entries \ {Entry(o)})
                      \cup {[id   |-> heap[o].id,
                             body |-> [heap[o].body EXCEPT !.enabled = state]]},
         Unsettled' = Unsettled,
         UNCHANGED <<Switches, Lookups>>
  PROVE  Policy!Toggle
<1> DEFINE r == Entry(o)
<1>1. /\ r \in Entries
      /\ [r EXCEPT !.body.enabled = state]
           = [id |-> heap[o].id,
              body |-> [heap[o].body EXCEPT !.enabled = state]]
  BY DEF Entries, Entry
<1> HIDE DEF r
<1>2. Entries' = (Entries \ {r}) \cup {[r EXCEPT !.body.enabled = state]}
  BY <1>1 DEF r
<1>3. QED
  BY <1>1, <1>2
  DEF Policy!Toggle, Policy!switches, Policy!lookups,
      Entries, Entry, Unsettled, Switches, Lookups, Missed

\* Rules find their places.
LEMMA SettlePolicy ==
  ASSUME Unsettled' \subseteq Unsettled,
         UNCHANGED <<Entries, Switches, Lookups>>
  PROVE  Policy!Settle
BY DEF Policy!Settle, Policy!switches, Policy!lookups,
       Entries, Entry, Unsettled, Switches, Lookups, Missed

\* A step the policy does not see.
LEMMA UnseenPolicy ==
  ASSUME UNCHANGED <<Entries, Unsettled, Switches, Lookups>>
  PROVE  UNCHANGED Policy!vars
BY DEF Policy!vars, Entries, Entry, Unsettled, Switches, Lookups, Missed

-----------------------------------------------------------------------------
(* The bodies rules can have.                                              *)

\* A valid body is one that a rule may have, and stays one when it is
\* enabled or disabled.
LEMMA ContentsClosed ==
  /\ \A body \in Bodies : ValidBody(body) => body \in Contents
  /\ \A body \in Contents, state \in BOOLEAN :
       [body EXCEPT !.enabled = state] \in Contents
<1>1. ASSUME NEW body \in Bodies, ValidBody(body)
      PROVE  body \in Contents
  <2>1. body \in Body /\ body.enabled \in BOOLEAN
    BY BodiesAssumption DEF Body
  <2>2. body = [body EXCEPT !.enabled = body.enabled]
    BY <2>1 DEF Body
  <2>3. QED
    BY <1>1, <2>1, <2>2 DEF Contents
<1>2. ASSUME NEW body \in Contents, NEW state \in BOOLEAN
      PROVE  [body EXCEPT !.enabled = state] \in Contents
  <2>1. PICK b \in Bodies, on \in BOOLEAN :
          ValidBody(b) /\ body = [b EXCEPT !.enabled = on]
    BY DEF Contents
  <2>2. b \in Body
    BY BodiesAssumption
  <2>3. [body EXCEPT !.enabled = state] = [b EXCEPT !.enabled = state]
    BY <2>1, <2>2 DEF Body
  <2>4. QED
    BY <2>1, <2>3 DEF Contents
<1>3. QED
  BY <1>1, <1>2

\* Every allocated rule has a body that some caller submitted and that
\* check_rule let pass, switched on or off.
ContentsInv == \A o \in Allocated : heap[o].body \in Contents

\* A step that allocates nothing and rewrites no body.
LEMMA BodiesKept ==
  ASSUME ContentsInv, Allocated' \subseteq Allocated,
         \A o \in Allocated' : heap'[o].body = heap[o].body
  PROVE  ContentsInv'
BY DEF ContentsInv

\* A step that gives one object a body.
LEMMA BodyGiven ==
  ASSUME ContentsInv, NEW o, Allocated' \subseteq Allocated \cup {o},
         \A x \in Allocated' \ {o} : heap'[x].body = heap[x].body,
         heap'[o].body \in Contents
  PROVE  ContentsInv'
BY DEF ContentsInv

\* Rules only ever have such bodies.
LEMMA NextContentsInv == TypeOK /\ ContentsInv /\ [Next]_vars => ContentsInv'
<1> SUFFICES ASSUME TypeOK, ContentsInv, [Next]_vars PROVE ContentsInv'
  OBVIOUS
<1>0. ASSUME heap' = heap
      PROVE  ContentsInv'
  BY <1>0 DEF ContentsInv, Allocated
<1>1. ASSUME NEW o, NEW id, NEW body \in Bodies, ValidBody(body),
             Allocate(o, NewRule(id, body))
      PROVE  ContentsInv'
  <2>1. heap' = [x \in Allocated \cup {o} |->
                   IF x = o THEN NewRule(id, body) ELSE heap[x]]
    BY <1>1 DEF Allocate
  <2>2. Allocated' = Allocated \cup {o}
    BY <2>1 DEF Allocated
  <2>3. NewRule(id, body).body \in Contents
    BY <1>1, ContentsClosed DEF NewRule
  <2>4. heap'[o] = NewRule(id, body)
        /\ \A x \in Allocated' \ {o} : heap'[x] = heap[x]
    BY <2>1, <2>2
  <2>5. QED
    BY <2>2, <2>3, <2>4, BodyGiven
<1>2. ASSUME NEW objects, Free(objects)
      PROVE  ContentsInv'
  <2>1. heap' = [x \in Allocated \ objects |-> heap[x]]
    BY <1>2 DEF Free
  <2>2. /\ Allocated' = Allocated \ objects
        /\ \A x \in Allocated' : heap'[x] = heap[x]
    BY <2>1 DEF Allocated
  <2>3. QED
    BY <2>2, BodiesKept
<1>3. ASSUME NEW o, NEW rule,
             heap' = [heap EXCEPT ![o] = rule], rule.body \in Contents
      PROVE  ContentsInv'
  <2>1. /\ Allocated' = Allocated
        /\ \A x \in Allocated :
             heap'[x] = IF x = o THEN rule ELSE heap[x]
    BY <1>3 DEF Allocated, TypeOK
  <2>2. QED
    BY <1>3, <2>1 DEF ContentsInv
<1>4. ASSUME NEW id, FindRule(id) # 0
      PROVE  /\ rules[FindRule(id)] \in Objects
             /\ FindRule(id) \in 1 .. Len(rules)
  <2>1. rules \in Seq(Objects) /\ Len(rules) \in Nat
    BY LenProperties DEF TypeOK
  <2>2. FindRule(id) \in 1 .. Len(rules)
    BY <1>4, <2>1, FindRuleProperties
  <2>3. QED
    BY <2>1, <2>2
<1>5. ASSUME NEW t \in Threads, Call(t)
      PROVE  ContentsInv'
  <2>1. CASE AddRule(t)
    BY <1>1, <2>1 DEF AddRule
  <2>2. CASE CreateRule(t)
    BY <1>0, <1>1, <2>2 DEF CreateRule
  <2>3. CASE ClearRules(t)
    BY <1>2, <2>3 DEF ClearRules, DropAllRules
  <2>4. CASE SetRuleState(t)
    <3>1. PICK id \in Id, on \in BOOLEAN :
            heap' = [heap EXCEPT ![rules[FindRule(id)]].body.enabled = on]
      BY <2>4 DEF SetRuleState
    <3> DEFINE o == rules[FindRule(id)]
    <3> HIDE DEF o
    <3>2. Allocated' = Allocated
      BY <3>1 DEF Allocated, o
    <3>3. ASSUME NEW x \in Allocated
          PROVE  heap'[x].body \in Contents
      <4>1. heap[x] \in Rule /\ heap[x].body \in Contents
        BY DEF TypeOK, ContentsInv
      <4>2. CASE x # o
        BY <3>1, <4>1, <4>2 DEF TypeOK, o
      <4>3. CASE x = o
        <5>1. heap'[x].body = [heap[x].body EXCEPT !.enabled = on]
          BY <3>1, <4>1, <4>3 DEF TypeOK, Rule, o
        <5>2. QED
          BY <4>1, <5>1, ContentsClosed
      <4>4. QED
        BY <4>2, <4>3
    <3>4. QED
      BY <3>2, <3>3 DEF ContentsInv
  <2>5. CASE UpdateRule(t)
    <3>1. PICK id \in Id, body \in Bodies :
            /\ ValidBody(body)
            /\ heap' = [heap EXCEPT ![rules[FindRule(id)]].body = body]
      BY <2>5 DEF UpdateRule
    <3> DEFINE o == rules[FindRule(id)]
    <3> HIDE DEF o
    <3>2. Allocated' = Allocated
      BY <3>1 DEF Allocated, o
    <3>3. ASSUME NEW x \in Allocated
          PROVE  heap'[x].body \in Contents
      <4>1. heap[x] \in Rule /\ heap[x].body \in Contents
        BY DEF TypeOK, ContentsInv
      <4>2. body \in Contents
        BY <3>1, ContentsClosed
      <4>3. heap'[x].body = IF x = o THEN body ELSE heap[x].body
        BY <3>1, <4>1 DEF TypeOK, Rule, o
      <4>4. QED
        BY <4>1, <4>2, <4>3
    <3>4. QED
      BY <3>2, <3>3 DEF ContentsInv
  <2>6. CASE ResetStatistics(t)
    <3>1. heap' = [o \in Allocated |->
                     IF o \in Range(rules)
                     THEN [heap[o] EXCEPT !.hits = NoHits] ELSE heap[o]]
      BY <2>6 DEF ResetStatistics
    <3>2. Allocated' = Allocated
      BY <3>1 DEF Allocated
    <3>3. \A x \in Allocated : heap'[x].body = heap[x].body
      BY <3>1 DEF TypeOK, Rule
    <3>4. QED
      BY <3>2, <3>3, BodiesKept
  <2>7. CASE DeleteRule(t) \/ StartEvaluate(t) \/ Classify(t)
             \/ SetDefaultAction(t) \/ SetEnabled(t)
    BY <1>0, <2>7 DEF DeleteRule, StartEvaluate, Classify, SetDefaultAction,
       SetEnabled, tableVars
  <2>8. QED
    BY <1>5, <2>1, <2>2, <2>3, <2>4, <2>5, <2>6, <2>7 DEF Call
<1>6. ASSUME NEW t \in Threads, Continue(t)
      PROVE  ContentsInv'
  <2>1. CASE InsertRule(t)
    <3>1. CASE FreeAndReturn(t)
      BY <1>2, <3>1 DEF FreeAndReturn
    <3>2. CASE \E id : heap' = [heap EXCEPT ![obj[t]].id = id]
      <4>1. PICK id : heap' = [heap EXCEPT ![obj[t]].id = id]
        BY <3>2
      <4>2. Allocated' = Allocated
        BY <4>1 DEF Allocated
      <4>3. \A x \in Allocated : heap'[x].body = heap[x].body
        BY <4>1 DEF TypeOK, Rule
      <4>4. QED
        BY <4>2, <4>3, BodiesKept
    <3>3. QED
      BY <2>1, <3>1, <3>2 DEF InsertRule, Full
  <2>2. CASE FreeRule(t)
    BY <1>2, <2>2 DEF FreeRule, FreeAndReturn
  <2>3. CASE MatchPacket(t)
    <3>1. CASE heap' = heap
      BY <1>0, <3>1
    <3>2. CASE \E o, action :
                 heap' = [heap EXCEPT ![o].hits["matched"] = @ + 1,
                                      ![o].hits[action] = @ + 1]
      <4>1. PICK o, action :
              heap' = [heap EXCEPT ![o].hits["matched"] = @ + 1,
                                   ![o].hits[action] = @ + 1]
        BY <3>2
      <4>2. Allocated' = Allocated
        BY <4>1 DEF Allocated
      <4>3. \A x \in Allocated : heap'[x].body = heap[x].body
        BY <4>1 DEF TypeOK, Rule
      <4>4. QED
        BY <4>2, <4>3, BodiesKept
    <3>3. QED
      BY <2>3, <3>1, <3>2 DEF MatchPacket
  <2>4. CASE BeginSort(t) \/ MoveRule(t) \/ EndSort(t) \/ LogAndReturn(t)
             \/ ReadDefault(t) \/ ReturnVerdict(t)
    BY <1>0, <2>4 DEF BeginSort, MoveRule, EndSort, LogAndReturn, ReadDefault,
       ReturnVerdict, tableVars
  <2>5. QED
    BY <1>6, <2>1, <2>2, <2>3, <2>4 DEF Continue
<1>7. CASE BeginExit
  BY <1>2, <1>7 DEF BeginExit, DropAllRules
<1>8. CASE EndExit \/ UNCHANGED vars
  BY <1>0, <1>8 DEF EndExit, vars, tableVars
<1>9. QED
  BY <1>5, <1>6, <1>7, <1>8 DEF Next

-----------------------------------------------------------------------------
(* What a lookup of the policy finds.                                      *)

\* The policy's matching entries are the entries of the matching rules.
LEMMA PolicyMatching ==
  ASSUME NEW p
  PROVE  Policy!Matching(p) = {Entry(o) : o \in {q \in Listed : Matches(q, p)}}
BY DEF Policy!Matching, Entry, Matches

\* The rule a thread matched decides, and whoever should have come first
\* waits for a sort.
LEMMA DecidePolicy ==
  ASSUME NEW t \in Threads, NEW p \in Packets, NEW o \in Listed,
         Matches(o, p),
         \A q \in Listed : Matches(q, p) /\ Priority(q) < Priority(o) =>
           q \in Fresh \/ o \in Fresh,
         pkt' = [pkt EXCEPT ![t] = p],
         verdict' = [verdict EXCEPT ![t] = heap[o].body.action],
         UNCHANGED <<Entries, Unsettled, Switches, Missed>>
  PROVE  Policy!Decide(t)
<1> DEFINE r == Entry(o)
<1>1. /\ r \in Policy!Matching(p)
      /\ r.id = heap[o].id /\ r.body = heap[o].body
  BY PolicyMatching DEF Entry
<1>2. ASSUME NEW q \in Policy!Matching(p),
             q.body.priority < r.body.priority
      PROVE  q.id \in Unsettled \/ r.id \in Unsettled
  <2>1. PICK x \in Listed : Matches(x, p) /\ q = Entry(x)
    BY PolicyMatching
  <2>2. q.id = heap[x].id /\ Priority(x) < Priority(o)
    BY <1>1, <1>2, <2>1 DEF Entry, Priority
  <2>3. QED
    BY <1>1, <2>1, <2>2 DEF Unsettled
<1> HIDE DEF r
<1>3. verdict' = [verdict EXCEPT ![t] = r.body.action]
  BY <1>1
<1>4. QED
  BY <1>1, <1>2, <1>3
  DEF Policy!Decide, Policy!switches, Entries, Entry, Unsettled, Switches, Missed

\* No rule decides.
LEMMA DefaultPolicy ==
  ASSUME NEW t \in Threads, NEW p \in Packets,
         \A o \in Listed : initialized => ~ Matches(o, p),
         pkt' = [pkt EXCEPT ![t] = p],
         \/ verdict' = [verdict EXCEPT ![t] = default_action] /\ Missed' = Missed
         \/ Missed' = Missed \cup {t} /\ verdict' = verdict,
         UNCHANGED <<Entries, Unsettled, Switches>>
  PROVE  Policy!Default(t)
<1>1. Policy!Matching(p) = {} \/ ~ initialized
  BY PolicyMatching
<1>2. QED
  BY <1>1
  DEF Policy!Default, Policy!switches, Entries, Entry, Unsettled, Switches, Missed

\* The table is not asked.
LEMMA BypassPolicy ==
  ASSUME NEW t \in Threads,
         \/ /\ ~ initialized \/ ~ enabled
            /\ Missed' = Missed \cup {t} /\ verdict' = verdict
         \/ /\ ~ initialized
            /\ verdict' = [verdict EXCEPT ![t] = "ALLOW"] /\ Missed' = Missed,
         UNCHANGED <<Entries, Unsettled, Switches, pkt>>
  PROVE  Policy!Bypass(t)
BY DEF Policy!Bypass, Policy!switches, Entries, Entry, Unsettled, Switches, Missed

\* A thread that was told of no rule reads the default.
LEMMA LateDefaultPolicy ==
  ASSUME NEW t \in Missed, Missed' = Missed \ {t},
         verdict' = [verdict EXCEPT ![t] = default_action],
         UNCHANGED <<Entries, Unsettled, Switches, pkt>>
  PROVE  Policy!LateDefault(t)
BY DEF Policy!LateDefault, Policy!switches, Entries, Entry, Unsettled, Switches,
       Missed

\* A rule of the type decides, or none does.
LEMMA ClassifyPolicy ==
  ASSUME NEW t \in Threads, NEW p \in Packets, NEW type \in RuleType,
         \/ /\ \E o \in Listed : heap[o].body.type = type /\ Matches(o, p)
            /\ verdict' = [verdict EXCEPT ![t] =
                             CASE type = "WHITELIST" -> "ALLOW"
                               [] type = "BLACKLIST" -> "DROP"
                               [] type = "MONITOR"   -> "MONITOR"]
            /\ Missed' = Missed
         \/ /\ \/ ~ initialized
               \/ ~ \E o \in Listed : heap[o].body.type = type /\ Matches(o, p)
            /\ Missed' = Missed \cup {t} /\ verdict' = verdict,
         UNCHANGED <<Entries, Unsettled, Switches, pkt>>
  PROVE  Policy!Classify(t)
<1> DEFINE hit == \E r \in Policy!Matching(p) : r.body.type = type
<1>1. hit <=> \E o \in Listed : heap[o].body.type = type /\ Matches(o, p)
  <2>1. \A o : Entry(o).body = heap[o].body
    BY DEF Entry
  <2>2. QED
    BY <2>1, PolicyMatching
<1> HIDE DEF hit
<1>2. \/ hit /\ verdict' = [verdict EXCEPT ![t] = Policy!Stance(type)]
             /\ Missed' = Missed
      \/ (~ hit \/ ~ initialized) /\ Missed' = Missed \cup {t}
                                  /\ verdict' = verdict
  BY <1>1 DEF Policy!Stance
<1>3. QED
  BY <1>2 DEF hit, Policy!Classify, Policy!switches, Entries, Entry, Unsettled,
              Switches, Missed

\* The caller is done with its answer.
LEMMA DonePolicy ==
  ASSUME NEW t \in Threads,
         pkt' = [pkt EXCEPT ![t] = NoPacket],
         verdict' = [verdict EXCEPT ![t] = "none"],
         UNCHANGED <<Entries, Unsettled, Switches, Missed>>
  PROVE  Policy!Done(t)
BY DEF Policy!Done, Policy!switches, Entries, Entry, Unsettled, Switches, Missed

\* One switch of the engine changes.
LEMMA SwitchPolicy ==
  ASSUME \/ enabled' \in BOOLEAN /\ UNCHANGED <<initialized, default_action>>
         \/ default_action' \in Action /\ UNCHANGED <<initialized, enabled>>
         \/ initialized' = FALSE /\ UNCHANGED <<enabled, default_action>>,
         UNCHANGED <<Entries, Unsettled, Lookups>>
  PROVE  Policy!SetSwitches
BY DEF Policy!SetSwitches, Policy!lookups, Entries, Entry, Unsettled, Lookups,
       Missed

-----------------------------------------------------------------------------
(* What steps of the engine leave of the policy's variables.               *)

\* No rule joins or leaves, none changes its id or its body.
LEMMA EntriesKept ==
  ASSUME TableInv, Listed' = Listed,
         \A o \in Listed : /\ heap'[o].id = heap[o].id
                           /\ heap'[o].body = heap[o].body
  PROVE  /\ Entries' = Entries
         /\ fresh' = fresh => Unsettled' = Unsettled
         /\ Fresh' \subseteq Fresh \cup {NoObject} => Unsettled' \subseteq Unsettled
<1>1. Entries' = Entries
  BY DEF Entries, Entry
<1>2. ASSUME fresh' = fresh
      PROVE  Unsettled' = Unsettled
  BY <1>2 DEF Unsettled, Fresh
<1>3. ASSUME Fresh' \subseteq Fresh \cup {NoObject}
      PROVE  Unsettled' \subseteq Unsettled
  <2>1. NoObject \notin Listed
    BY NoObjectAssumption DEF TableInv, HeapOwnership, TypeOK
  <2>2. QED
    BY <1>3, <2>1 DEF Unsettled
<1>4. QED
  BY <1>1, <1>2, <1>3

\* The heap is left alone as well.
LEMMA TableKept ==
  ASSUME UNCHANGED <<rules, sorted_rules, heap>>
  PROVE  /\ Entries' = Entries
         /\ fresh' = fresh => Unsettled' = Unsettled
BY DEF Entries, Entry, Unsettled, Listed, Fresh

\* A thread goes from one place in the code to another.
LEMMA MissedMoves ==
  ASSUME TypeOK, NEW t \in Threads, NEW label, pc' = [pc EXCEPT ![t] = label]
  PROVE  /\ pc[t] # "default" /\ label # "default" => Missed' = Missed
         /\ label = "default" => Missed' = Missed \cup {t}
<1>1. \A u \in Threads : pc'[u] = IF u = t THEN label ELSE pc[u]
  BY DEF TypeOK
<1>2. QED
  BY <1>1 DEF Missed

\* Only the threads' own variables change.
LEMMA MissedKept ==
  ASSUME pc' = pc
  PROVE  Missed' = Missed
BY DEF Missed

\* With no sort going on, the table is the list.
LEMMA TableIsList ==
  ASSUME TableInv, LockFree
  PROVE  /\ rules \in Seq(Objects) /\ Len(rules) \in Nat
         /\ sorted_rules = <<>>
         /\ Listed = {rules[i] : i \in 1 .. Len(rules)}
         /\ Listed = Range(rules)
BY LenProperties, RangeOfList, EmptyList DEF TableInv, TypeOK, SortIsLocal, Listed

\* The rule an API call finds by its id is in the table and is the only
\* one with the id, for nothing is found when the engine is gone.
LEMMA FoundRule ==
  ASSUME TableInv, LockFree, NEW id, FindRule(id) # 0
  PROVE  LET o == rules[FindRule(id)]
         IN  /\ FindRule(id) \in 1 .. Len(rules)
             /\ o \in Listed /\ o \in Allocated /\ o \in Objects
             /\ heap[o].id = id
             /\ \A q \in Listed \ {o} : heap[q].id # id
<1> DEFINE o == rules[FindRule(id)]
<1>1. FindRule(id) \in 1 .. Len(rules) /\ heap[o].id = id
  BY TableIsList, FindRuleProperties
<1>2. o \in Listed
  BY <1>1, TableIsList
<1>3. o \in Allocated /\ o \in Objects
  BY <1>2 DEF TableInv, HeapOwnership, TypeOK
<1>4. initialized
  BY DEF FindRule
<1>5. \A q \in Listed \ {o} : heap[q].id # heap[o].id
  BY <1>2, <1>4 DEF TableInv, UniqueRules
<1>6. QED
  BY <1>1, <1>2, <1>3, <1>5

\* When find_match finds nothing in an engine that exists, nothing matches.
LEMMA MissedMatch ==
  ASSUME TableInv, LockFree, NEW p, FindMatch(p) = 0, initialized
  PROVE  \A o \in Listed : ~ Matches(o, p)
<1> DEFINE I == {i \in 1 .. Len(rules) : Matches(rules[i], p)}
<1>1. FindMatch(p) = IF I # {} THEN Min(I) ELSE 0
  BY DEF FindMatch, SelectInSeq
<1>2. CASE I # {}
  <2>1. I \in SUBSET Nat
    BY TableIsList
  <2>2. Min(I) \in I
    BY <1>2, <2>1, LeastElement DEF Min
  <2>3. QED
    BY <1>1, <1>2, <2>2
<1>3. CASE I = {}
  BY <1>3, TableIsList
<1>4. QED
  BY <1>2, <1>3

\* There are no more entries than rule_count says.
LEMMA EntriesAreCounted ==
  ASSUME TableInv, LockFree
  PROVE  Cardinality(Entries) \in Nat /\ Cardinality(Entries) <= rule_count
<1> DEFINE f == [i \in 1 .. Len(rules) |-> Entry(rules[i])]
<1>1. f \in Surjection(1 .. Len(rules), Entries)
  <2>1. \A i \in 1 .. Len(rules) : Entry(rules[i]) \in Entries
    BY TableIsList DEF Entries
  <2>2. \A e \in Entries : \E i \in 1 .. Len(rules) : Entry(rules[i]) = e
    BY TableIsList DEF Entries
  <2>3. QED
    BY <2>1, <2>2 DEF Surjection
<1>2. /\ IsFiniteSet(1 .. Len(rules))
      /\ Cardinality(1 .. Len(rules)) = Len(rules)
  <2>1. Len(rules) \in Nat
    BY TableIsList
  <2>2. QED
    BY <2>1, PositionsAreCounted
<1>3. Cardinality(Entries) \in Nat /\ Cardinality(Entries) <= Len(rules)
  <2>1. IsFiniteSet(Entries) /\ Cardinality(Entries) <= Len(rules)
    BY <1>1, <1>2, FS_Surjection
  <2>2. QED
    BY <2>1, FS_CardinalityType
<1>4. rule_count = Len(rules)
  BY TableIsList, EmptyList DEF TableInv, CountMatchesTable
<1>5. QED
  BY <1>3, <1>4

-----------------------------------------------------------------------------
(* Every step of the engine is one of the policy's or none.                *)

PolicyStep == Policy!Next \/ UNCHANGED Policy!vars

\* A rule that its thread alone knows comes and goes unseen.
LEMMA AllocateUnseen ==
  ASSUME TableInv, NEW t \in Threads, NEW o \in Objects \ Allocated, NEW rule,
         Allocate(o, rule), pc[t] = "idle", pc' = [pc EXCEPT ![t] = "insert"],
         UNCHANGED <<rules, sorted_rules, fresh, Switches, pkt, verdict>>
  PROVE  PolicyStep
<1>1. Listed' = Listed /\ Listed \subseteq Allocated
  BY DEF Listed, TableInv, HeapOwnership
<1>2. \A x \in Listed : heap'[x] = heap[x]
  BY <1>1 DEF Allocate
<1>3. Entries' = Entries /\ Unsettled' = Unsettled
  BY <1>1, <1>2, EntriesKept
<1>4. Missed' = Missed
  BY MissedMoves DEF TableInv
<1>5. QED
  BY <1>3, <1>4, UnseenPolicy DEF PolicyStep, Lookups

\* An object that was never in the table is freed unseen.
LEMMA FreeUnseen ==
  ASSUME TableInv, NEW t \in Threads, pc[t] \in {"insert", "free"},
         FreeAndReturn(t),
         UNCHANGED <<rules, sorted_rules, fresh, Switches, pkt, verdict>>
  PROVE  PolicyStep
<1>1. /\ heap' = [x \in Allocated \ {obj[t]} |-> heap[x]]
      /\ pc' = [pc EXCEPT ![t] = "idle"]
  BY DEF FreeAndReturn, Free, Goto
<1>2. Listed' = Listed /\ obj[t] \notin Listed /\ Listed \subseteq Allocated
  BY DEF Listed, TableInv, HeapOwnership, Held
<1>3. \A x \in Listed : heap'[x] = heap[x]
  BY <1>1, <1>2
<1>4. Entries' = Entries /\ Unsettled' = Unsettled
  BY <1>2, <1>3, EntriesKept
<1>5. Missed' = Missed
  BY <1>1, MissedMoves DEF TableInv
<1>6. QED
  BY <1>4, <1>5, UnseenPolicy DEF PolicyStep, Lookups

\* An insertion that succeeds installs the rule.
LEMMA InsertRulePolicy ==
  ASSUME Inv, ContentsInv, NEW t \in Threads, InsertRule(t)
  PROVE  PolicyStep
<1> DEFINE o    == obj[t]
           auto == heap[o].id = 0
           id   == IF auto THEN next_rule_id ELSE heap[o].id
<1>1. /\ pc[t] = "insert" /\ LockFree /\ sorted_rules' = sorted_rules
      /\ UNCHANGED <<Switches, pkt, verdict>>
  BY DEF InsertRule, Full, engineVars, evalVars, Switches
<1>2. /\ TableInv /\ TypeOK /\ fresh[t] = NoObject
      /\ o \in Allocated /\ o \notin Listed /\ o \in Objects
  BY <1>1 DEF Inv, TableInv, ThreadInv, HeapOwnership, Held, TypeOK
<1>3. CASE FreeAndReturn(t) /\ rules' = rules /\ fresh' = fresh
  BY <1>1, <1>2, <1>3, FreeUnseen
<1>4. CASE /\ ~ Full
           /\ FindRule(id) = 0
           /\ heap' = [heap EXCEPT ![o].id = id]
           /\ rules' = Append(rules, o)
           /\ fresh' = [fresh EXCEPT ![t] = o]
           /\ pc' = [pc EXCEPT ![t] = "sort"]
  <2>1. id \in Id /\ heap[o] \in Rule
    BY <1>2 DEF TypeOK, Rule
  <2> HIDE DEF o, id
  <2>2. /\ Listed = {rules[i] : i \in 1 .. Len(rules)}
        /\ Listed = Range(rules) /\ sorted_rules = <<>>
        /\ rules \in Seq(Objects)
    BY <1>1, <1>2, TableIsList
  <2>3. Listed' = Listed \cup {o}
    <3>1. Range(rules') = Range(rules) \cup {o}
      BY <1>2, <1>4, <2>2, AppendElements
    <3>2. QED
      BY <1>1, <2>2, <3>1, EmptyList DEF Listed
  <2>4. /\ \A q \in Listed : heap'[q] = heap[q]
        /\ heap'[o].id = id /\ heap'[o].body = heap[o].body
    <3>1. Listed \subseteq Allocated
      BY <1>2 DEF TableInv, HeapOwnership
    <3>2. QED
      BY <1>2, <1>4, <2>1, <3>1 DEF TypeOK, Rule
  <2>5. heap[o].body \in Contents
    BY <1>2 DEF ContentsInv
  <2>6. initialized => \A q \in Listed : heap[q].id # id
    BY <1>4, <2>2, FindRuleProperties
  <2>7. Entries' = Entries \cup {[id |-> id, body |-> heap[o].body]}
    BY <2>3, <2>4 DEF Entries, Entry
  <2>8. Unsettled' = Unsettled \cup {id}
    <3>1. \A u \in Threads : fresh'[u] = IF u = t THEN o ELSE fresh[u]
      BY <1>2, <1>4 DEF TypeOK
    <3>2. NoObject \notin Listed'
      BY <1>2, <2>3, NoObjectAssumption DEF TableInv, HeapOwnership, TypeOK
    <3>3. Listed' \cap Fresh' = (Listed \cap Fresh) \cup {o}
      <4>1. \A x \in Listed \cap Fresh : x \in Fresh'
        BY <1>2, <2>3, <3>1, <3>2 DEF Fresh
      <4>2. o \in Fresh'
        BY <3>1 DEF Fresh
      <4>3. \A x \in Listed' \cap Fresh' : x = o \/ x \in Listed \cap Fresh
        BY <2>3, <3>1 DEF Fresh
      <4>4. QED
        BY <2>3, <4>1, <4>2, <4>3
    <3>4. QED
      BY <2>4, <3>3 DEF Unsettled
  <2>9. Cardinality(Entries) < MaxRules
    <3>1. Cardinality(Entries) <= rule_count
      BY <1>1, <1>2, EntriesAreCounted
    <3>2. Cardinality(Entries) \in Nat
      BY <1>1, <1>2, EntriesAreCounted
    <3>3. QED
      BY <1>2, <1>4, <3>1, <3>2, LimitAssumption DEF TypeOK, Full
  <2>10. Missed' = Missed
    BY <1>1, <1>2, <1>4, MissedMoves
  <2>11. Policy!Install
    BY <1>1, <2>1, <2>5, <2>6, <2>7, <2>8, <2>9, <2>10, InstallPolicy
    DEF Switches, Lookups
  <2>12. QED
    BY <2>11 DEF PolicyStep, Policy!Next
<1>5. QED
  BY <1>3, <1>4 DEF InsertRule, Goto

\* A sort the engine is gone for, and the end of one, settle the rule that
\* asked for it; all turns between the two are unseen.
LEMMA BeginSortPolicy ==
  ASSUME Inv, NEW t \in Threads, BeginSort(t)
  PROVE  PolicyStep
<1>1. /\ pc[t] = "sort"
      /\ \E label \in {"sorting", "log"} : pc' = [pc EXCEPT ![t] = label]
      /\ fresh' = fresh \/ fresh' = [fresh EXCEPT ![t] = NoObject]
      /\ UNCHANGED <<rules, sorted_rules, heap, Switches, pkt, verdict>>
  BY DEF BeginSort, Goto, engineVars, evalVars, Switches
<1>2. TableInv /\ TypeOK
  BY DEF Inv, TableInv
<1>3. Fresh' \subseteq Fresh \cup {NoObject}
  BY <1>1, <1>2 DEF Fresh, TypeOK
<1>4. Listed' = Listed
  BY <1>1 DEF Listed
<1>5. Entries' = Entries /\ Unsettled' \subseteq Unsettled
  BY <1>1, <1>2, <1>3, <1>4, EntriesKept
<1>6. Missed' = Missed
  BY <1>1, <1>2, MissedMoves
<1>7. QED
  BY <1>1, <1>5, <1>6, SettlePolicy DEF PolicyStep, Policy!Next, Lookups

\* A sort that ends changes no rule,
LEMMA EndSortPolicy ==
  ASSUME Inv, NEW t \in Threads, EndSort(t)
  PROVE  PolicyStep
<1>1. /\ pc[t] = "sorting" /\ pc' = [pc EXCEPT ![t] = "log"]
      /\ rules = <<>> /\ rules' = sorted_rules /\ sorted_rules' = <<>>
      /\ fresh' = [fresh EXCEPT ![t] = NoObject]
      /\ UNCHANGED <<heap, Switches, pkt, verdict>>
  BY DEF EndSort, Goto, engineVars, evalVars, Switches
<1>2. TableInv /\ TypeOK
  BY DEF Inv, TableInv
<1>3. Fresh' \subseteq Fresh \cup {NoObject}
  BY <1>1, <1>2 DEF Fresh, TypeOK
<1>4. Listed' = Listed
  BY <1>1 DEF Listed
<1>5. Entries' = Entries /\ Unsettled' \subseteq Unsettled
  BY <1>1, <1>2, <1>3, <1>4, EntriesKept
<1>6. Missed' = Missed
  BY <1>1, <1>2, MissedMoves
<1>7. QED
  BY <1>1, <1>5, <1>6, SettlePolicy DEF PolicyStep, Policy!Next, Lookups

\* ... nor does a rule moved to where it belongs.
LEMMA MoveRulePolicy ==
  ASSUME Inv, NEW t \in Threads, MoveRule(t)
  PROVE  PolicyStep
<1>1. /\ rules # <<>> /\ rules' = Tail(rules)
      /\ sorted_rules' = InsertByPriority(sorted_rules, Head(rules))
      /\ UNCHANGED <<heap, pc, fresh, Switches, pkt, verdict>>
  BY DEF MoveRule, engineVars, evalVars, Switches
<1>2. /\ TableInv /\ rules \in Seq(Objects) /\ sorted_rules \in Seq(Objects)
      /\ IsInjective(rules)
  BY DEF Inv, TableInv, TypeOK, UniqueRules
<1>3. /\ Range(rules') = Range(rules) \ {Head(rules)}
      /\ Head(rules) \in Range(rules) /\ Head(rules) \in Objects
  BY <1>1, <1>2, TailElements, HeadTailProperties
<1>4. Range(sorted_rules') = Range(sorted_rules) \cup {Head(rules)}
  <2>1. PICK at \in 1 .. Len(sorted_rules) + 1 :
          sorted_rules' = InsertAt(sorted_rules, at, Head(rules))
    BY <1>1, <1>2, <1>3, InsertByPriorityProperties
  <2>2. QED
    BY <1>2, <1>3, <2>1, InsertAtElements
<1>5. Listed' = Listed
  BY <1>3, <1>4 DEF Listed
<1>6. Entries' = Entries /\ Unsettled' = Unsettled
  BY <1>1, <1>2, <1>5, EntriesKept
<1>7. Missed' = Missed
  BY <1>1, MissedKept
<1>8. QED
  BY <1>1, <1>6, <1>7, UnseenPolicy DEF PolicyStep, Lookups

\* A deletion removes the one rule with the id.
LEMMA DeleteRulePolicy ==
  ASSUME Inv, NEW t \in Threads, DeleteRule(t)
  PROVE  PolicyStep
<1>1. /\ pc[t] = "idle" /\ pc' = [pc EXCEPT ![t] = "free"] /\ LockFree
      /\ UNCHANGED <<sorted_rules, heap, fresh, Switches, pkt, verdict>>
  BY DEF DeleteRule, Calls, Goto, engineVars, evalVars, Switches
<1>2. TableInv /\ TypeOK /\ IsInjective(rules)
  BY DEF Inv, TableInv, UniqueRules
<1>3. PICK id \in Id : FindRule(id) # 0 /\ rules' = RemoveAt(rules, FindRule(id))
  BY DEF DeleteRule
<1> DEFINE k == FindRule(id)
           o == rules[k]
<1>4. /\ k \in 1 .. Len(rules) /\ o \in Listed
      /\ \A q \in Listed \ {o} : heap[q].id # heap[o].id
  BY <1>1, <1>2, <1>3, FoundRule
<1>5. Listed' = Listed \ {o}
  <2>1. Range(rules') = Range(rules) \ {o}
    BY <1>1, <1>2, <1>3, <1>4, TableIsList, RemoveAtElements
  <2>2. sorted_rules = <<>>
    BY <1>1, <1>2, TableIsList
  <2>3. QED
    BY <1>1, <2>1, <2>2, EmptyList DEF Listed
<1> HIDE DEF o
<1>6. Entries' = Entries \ {Entry(o)}
  <2>1. Entries' = {Entry(q) : q \in Listed \ {o}}
    BY <1>1, <1>5 DEF Entries, Entry
  <2>2. \A q \in Listed \ {o} : Entry(q) # Entry(o)
    BY <1>4 DEF Entry
  <2>3. QED
    BY <1>4, <2>1, <2>2 DEF Entries
<1>7. Unsettled' = Unsettled \ {heap[o].id}
  <2>1. Fresh' = Fresh
    BY <1>1 DEF Fresh
  <2>2. Unsettled' = {heap[q].id : q \in (Listed \cap Fresh) \ {o}}
    BY <1>1, <1>5, <2>1 DEF Unsettled
  <2>3. QED
    BY <1>4, <2>2 DEF Unsettled
<1>8. Missed' = Missed
  BY <1>1, <1>2, MissedMoves
<1>9. Policy!Remove
  BY <1>1, <1>4, <1>6, <1>7, <1>8, RemoveOnePolicy DEF Lookups
<1>10. QED
  BY <1>9 DEF PolicyStep, Policy!Next

\* Clearing the table and the first half of an exit remove all rules.
LEMMA DropAllRulesPolicy ==
  ASSUME Inv, LockFree, DropAllRules,
         UNCHANGED <<pc, fresh, Switches, pkt, verdict>>
  PROVE  PolicyStep
<1>1. rules' = <<>> /\ sorted_rules' = <<>>
  BY DEF DropAllRules, Inv, TableInv, SortIsLocal
<1>2. Listed' = {}
  BY <1>1, EmptyList DEF Listed
<1>3. Entries' = {} /\ Unsettled' = {}
  BY <1>2 DEF Entries, Unsettled
<1>4. Missed' = Missed
  BY MissedKept
<1>5. Policy!Remove
  BY <1>3, <1>4, RemoveAllPolicy DEF Lookups
<1>6. QED
  BY <1>5 DEF PolicyStep, Policy!Next

\* Switching a rule on or off and rewriting it change the one rule with the
\* id, where it stands.
LEMMA OneBodyChanges ==
  ASSUME TableInv, NEW o \in Listed, NEW body,
         Listed' = Listed,
         \A q \in Listed \ {o} : heap[q].id # heap[o].id,
         \A q \in Listed : /\ heap'[q].id = heap[q].id
                           /\ q # o => heap'[q].body = heap[q].body,
         heap'[o].body = body
  PROVE  Entries' = (Entries \ {Entry(o)}) \cup {[id |-> heap[o].id, body |-> body]}
<1>1. \A q \in Listed \ {o} : Entry(q)' = Entry(q) /\ Entry(q) # Entry(o)
  BY DEF Entry
<1>2. Entry(o)' = [id |-> heap[o].id, body |-> body]
  BY DEF Entry
<1>3. Entries' = {Entry(q) : q \in Listed \ {o}}
                   \cup {[id |-> heap[o].id, body |-> body]}
  <2>1. Entries' = {[id |-> heap'[q].id, body |-> heap'[q].body] : q \in Listed}
    BY DEF Entries, Entry
  <2>2. \A q \in Listed \ {o} :
          [id |-> heap'[q].id, body |-> heap'[q].body] = Entry(q)
    BY DEF Entry
  <2>3. [id |-> heap'[o].id, body |-> heap'[o].body]
          = [id |-> heap[o].id, body |-> body]
    OBVIOUS
  <2>4. QED
    BY <2>1, <2>2, <2>3
<1>4. {Entry(q) : q \in Listed \ {o}} = Entries \ {Entry(o)}
  BY <1>1 DEF Entries
<1>5. QED
  BY <1>3, <1>4

\* A rule enabled or disabled is one changed.
LEMMA SetRuleStatePolicy ==
  ASSUME Inv, ContentsInv, NEW t \in Threads, SetRuleState(t)
  PROVE  PolicyStep
<1>1. LockFree /\ UNCHANGED <<rules, sorted_rules, pc, fresh, Switches, pkt, verdict>>
  BY DEF SetRuleState, engineVars, evalVars, Switches
<1>2. TableInv /\ TypeOK /\ Listed' = Listed
  BY <1>1 DEF Inv, TableInv, Listed
<1>3. PICK id \in Id, on \in BOOLEAN :
        /\ FindRule(id) # 0
        /\ heap' = [heap EXCEPT ![rules[FindRule(id)]].body.enabled = on]
  BY DEF SetRuleState
<1> DEFINE o == rules[FindRule(id)]
<1>4. /\ o \in Listed /\ o \in Allocated
      /\ \A q \in Listed \ {o} : heap[q].id # heap[o].id
  BY <1>1, <1>2, <1>3, FoundRule
<1>5. heap' = [heap EXCEPT ![o].body.enabled = on]
  BY <1>3
<1> HIDE DEF o
<1> DEFINE body == [heap[o].body EXCEPT !.enabled = on]
<1>6. /\ \A q \in Listed : /\ heap'[q].id = heap[q].id
                           /\ q # o => heap'[q].body = heap[q].body
      /\ heap'[o].body = body
  <2>1. \A q \in Listed : q \in Allocated /\ heap[q] \in Rule
    BY <1>2 DEF TableInv, HeapOwnership, TypeOK
  <2>2. QED
    BY <1>2, <1>4, <1>5, <2>1 DEF TypeOK, Rule
<1>7. Entries' = (Entries \ {Entry(o)}) \cup {[id |-> heap[o].id, body |-> body]}
  <2> HIDE DEF body
  <2>1. QED
    BY <1>2, <1>4, <1>6, OneBodyChanges
<1>8. Unsettled' = Unsettled
  <2>1. Fresh' = Fresh
    BY <1>1 DEF Fresh
  <2>2. QED
    BY <1>2, <1>6, <2>1 DEF Unsettled
<1>9. Missed' = Missed
  BY <1>1, MissedKept
<1>10. Policy!Toggle
  BY <1>1, <1>4, <1>7, <1>8, <1>9, TogglePolicy DEF Lookups
<1>11. QED
  BY <1>10 DEF PolicyStep, Policy!Next

\* ... and so is a rule with another body.
LEMMA UpdateRulePolicy ==
  ASSUME Inv, ContentsInv, NEW t \in Threads, UpdateRule(t)
  PROVE  PolicyStep
<1>1. /\ LockFree /\ pc[t] = "idle" /\ pc' = [pc EXCEPT ![t] = "sort"]
      /\ UNCHANGED <<rules, sorted_rules, Switches, pkt, verdict>>
  BY DEF UpdateRule, Calls, Goto, engineVars, evalVars, Switches
<1>2. TableInv /\ TypeOK /\ Listed' = Listed /\ fresh[t] = NoObject
  BY <1>1 DEF Inv, TableInv, ThreadInv, Listed
<1>3. PICK id \in Id, body \in Bodies :
        /\ ValidBody(body)
        /\ FindRule(id) # 0
        /\ heap' = [heap EXCEPT ![rules[FindRule(id)]].body = body]
        /\ fresh' = [fresh EXCEPT ![t] = rules[FindRule(id)]]
  BY DEF UpdateRule
<1> DEFINE o == rules[FindRule(id)]
<1>4. /\ o \in Listed /\ o \in Allocated
      /\ \A q \in Listed \ {o} : heap[q].id # heap[o].id
  BY <1>1, <1>2, <1>3, FoundRule
<1>5. /\ heap' = [heap EXCEPT ![o].body = body]
      /\ fresh' = [fresh EXCEPT ![t] = o]
      /\ body \in Contents
  BY <1>3, ContentsClosed
<1> HIDE DEF o
<1>6. /\ \A q \in Listed : /\ heap'[q].id = heap[q].id
                           /\ q # o => heap'[q].body = heap[q].body
      /\ heap'[o].body = body
  <2>1. \A q \in Listed : q \in Allocated /\ heap[q] \in Rule
    BY <1>2 DEF TableInv, HeapOwnership, TypeOK
  <2>2. QED
    BY <1>2, <1>4, <1>5, <2>1 DEF TypeOK, Rule
<1>7. Entries' = (Entries \ {Entry(o)}) \cup {[id |-> heap[o].id, body |-> body]}
  BY <1>2, <1>4, <1>6, OneBodyChanges
<1>8. Unsettled' = Unsettled \cup {heap[o].id}
  <2>1. \A u \in Threads : fresh'[u] = IF u = t THEN o ELSE fresh[u]
    BY <1>2, <1>5 DEF TypeOK
  <2>2. NoObject \notin Listed
    BY <1>2, NoObjectAssumption DEF TableInv, HeapOwnership, TypeOK
  <2>3. Listed \cap Fresh' = (Listed \cap Fresh) \cup {o}
    <3>1. \A x \in Listed \cap Fresh : x \in Fresh'
      BY <1>2, <2>1, <2>2 DEF Fresh
    <3>2. o \in Fresh'
      BY <2>1 DEF Fresh
    <3>3. \A x \in Listed \cap Fresh' : x = o \/ x \in Listed \cap Fresh
      BY <2>1 DEF Fresh
    <3>4. QED
      BY <1>4, <3>1, <3>2, <3>3
  <2>4. QED
    BY <1>2, <1>4, <1>6, <2>3 DEF Unsettled
<1>9. Missed' = Missed
  BY <1>1, <1>2, MissedMoves
<1>10. Policy!Rewrite
  BY <1>1, <1>4, <1>5, <1>7, <1>8, <1>9, RewritePolicy DEF Lookups
<1>11. QED
  BY <1>10 DEF PolicyStep, Policy!Next

\* A reset of the counters is unseen.
LEMMA ResetStatisticsPolicy ==
  ASSUME Inv, NEW t \in Threads, ResetStatistics(t)
  PROVE  PolicyStep
<1>1. /\ heap' = [o \in Allocated |->
                    IF o \in Range(rules) THEN [heap[o] EXCEPT !.hits = NoHits]
                    ELSE heap[o]]
      /\ UNCHANGED <<rules, sorted_rules, pc, fresh, Switches, pkt, verdict>>
  BY DEF ResetStatistics, engineVars, evalVars, Switches
<1>2. TableInv /\ TypeOK /\ Listed' = Listed
  BY <1>1 DEF Inv, TableInv, Listed
<1>3. \A q \in Listed : /\ heap'[q].id = heap[q].id
                        /\ heap'[q].body = heap[q].body
  <2>1. \A q \in Listed : q \in Allocated /\ heap[q] \in Rule
    BY <1>2 DEF TableInv, HeapOwnership, TypeOK
  <2>2. QED
    BY <1>1, <2>1 DEF Rule
<1>4. Entries' = Entries /\ Unsettled' = Unsettled
  BY <1>1, <1>2, <1>3, EntriesKept
<1>5. QED
  BY <1>1, <1>4, MissedKept, UnseenPolicy DEF PolicyStep, Lookups

\* A match decides as the policy lets it; a miss gets the default.
LEMMA MatchPacketPolicy ==
  ASSUME Inv, NEW t \in Threads, MatchPacket(t)
  PROVE  PolicyStep
<1>1. /\ pc[t] = "match" /\ LockFree
      /\ UNCHANGED <<rules, sorted_rules, fresh, Switches, default_action>>
  BY DEF MatchPacket, engineVars, Switches
<1>2. TableInv /\ TypeOK /\ Listed' = Listed
  BY <1>1 DEF Inv, TableInv, Listed
<1>3. /\ rules \in Seq(Objects) /\ Len(rules) \in Nat
      /\ DOMAIN rules = 1 .. Len(rules)
      /\ Listed = {rules[i] : i \in 1 .. Len(rules)}
  BY <1>1, <1>2, TableIsList, LenProperties
<1>4. PICK p \in Packets :
        LET i      == FindMatch(p)
            o      == rules[i]
            action == heap[o].body.action
        IN  /\ pkt' = [pkt EXCEPT ![t] = p]
            /\ \/ /\ i # 0
                  /\ heap' = [heap EXCEPT ![o].hits["matched"] = @ + 1,
                                          ![o].hits[action] = @ + 1]
                  /\ obj' = [obj EXCEPT ![t] = o]
                  /\ verdict' = [verdict EXCEPT ![t] = action]
                  /\ Goto(t, "result")
               \/ /\ i = 0
                  /\ verdict' = [verdict EXCEPT ![t] = default_action]
                  /\ Goto(t, "result")
                  /\ UNCHANGED <<heap, obj>>
               \/ /\ i = 0
                  /\ Goto(t, "default")
                  /\ UNCHANGED <<heap, obj, verdict>>
  BY DEF MatchPacket
<1> DEFINE i == FindMatch(p)
           o == rules[i]
<1>5. CASE i # 0
  <2>1. /\ \E action :
             heap' = [heap EXCEPT ![o].hits["matched"] = @ + 1,
                                  ![o].hits[action] = @ + 1]
        /\ pkt' = [pkt EXCEPT ![t] = p]
        /\ verdict' = [verdict EXCEPT ![t] = heap[o].body.action]
        /\ pc' = [pc EXCEPT ![t] = "result"]
    BY <1>4, <1>5 DEF Goto
  <2>2. /\ i \in 1 .. Len(rules) /\ initialized /\ Matches(o, p)
        /\ \A j \in 1 .. i - 1 : ~ Matches(rules[j], p)
    BY <1>3, <1>5, FindMatchProperties
  <2> HIDE DEF i
  <2>3. o \in Listed
    BY <1>3, <2>2
  <2>4. ASSUME NEW q \in Listed, Matches(q, p), Priority(q) < Priority(o)
        PROVE  q \in Fresh \/ o \in Fresh
    <3>1. PICK j \in 1 .. Len(rules) : q = rules[j]
      BY <1>3
    <3>2. Priority(rules[i]) \in Nat /\ Priority(rules[j]) \in Nat
      BY <1>2, <1>3, <2>2, PriorityType DEF TableInv, HeapOwnership
    <3>3. j # i
      BY <2>4, <3>1, <3>2
    <3>4. i < j
      BY <1>3, <2>2, <2>4, <3>1, <3>3
    <3>5. QED
      BY <1>3, <2>2, <2>4, <3>1, <3>4 DEF Inv, OrderInv, InversionsAreFresh
  <2> HIDE DEF o
  <2>5. \A q \in Listed : /\ heap'[q].id = heap[q].id
                          /\ heap'[q].body = heap[q].body
    <3>1. \A q \in Listed : q \in Allocated /\ heap[q] \in Rule
      BY <1>2 DEF TableInv, HeapOwnership, TypeOK
    <3>2. QED
      BY <1>2, <2>1, <3>1 DEF TypeOK, Rule
  <2>6. Entries' = Entries /\ Unsettled' = Unsettled
    BY <1>1, <1>2, <2>5, EntriesKept
  <2>7. Missed' = Missed
    BY <1>1, <1>2, <2>1, MissedMoves
  <2>8. Policy!Decide(t)
    BY <1>1, <2>1, <2>2, <2>3, <2>4, <2>6, <2>7, DecidePolicy
  <2>9. QED
    BY <2>8 DEF PolicyStep, Policy!Next
<1>6. CASE i = 0
  <2>1. /\ pkt' = [pkt EXCEPT ![t] = p] /\ heap' = heap
        /\ \/ /\ verdict' = [verdict EXCEPT ![t] = default_action]
              /\ pc' = [pc EXCEPT ![t] = "result"]
           \/ /\ verdict' = verdict
              /\ pc' = [pc EXCEPT ![t] = "default"]
    BY <1>4, <1>6 DEF Goto
  <2>2. \A q \in Listed : initialized => ~ Matches(q, p)
    BY <1>1, <1>2, <1>6, MissedMatch
  <2>3. Entries' = Entries /\ Unsettled' = Unsettled
    BY <1>1, <2>1, TableKept
  <2>4. \/ verdict' = [verdict EXCEPT ![t] = default_action] /\ Missed' = Missed
        \/ Missed' = Missed \cup {t} /\ verdict' = verdict
    BY <1>1, <1>2, <2>1, MissedMoves
  <2>5. Policy!Default(t)
    BY <1>1, <2>1, <2>2, <2>3, <2>4, DefaultPolicy
  <2>6. QED
    BY <2>5 DEF PolicyStep, Policy!Next
<1>7. QED
  BY <1>5, <1>6

\* An evaluation that finds the engine off or gone does not ask the table.
LEMMA StartEvaluatePolicy ==
  ASSUME Inv, NEW t \in Threads, StartEvaluate(t)
  PROVE  PolicyStep
<1>1. /\ pc[t] = "idle"
      /\ UNCHANGED <<rules, sorted_rules, heap, fresh, Switches, pkt>>
  BY DEF StartEvaluate, Calls, tableVars, engineVars, Switches
<1>2. TypeOK
  BY DEF Inv, TableInv
<1>3. Entries' = Entries /\ Unsettled' = Unsettled
  BY <1>1, TableKept
<1>4. CASE pc' = [pc EXCEPT ![t] = "match"] /\ verdict' = verdict
  BY <1>1, <1>2, <1>3, <1>4, MissedMoves, UnseenPolicy DEF PolicyStep, Lookups
<1>5. CASE /\ ~ initialized \/ ~ enabled
           /\ pc' = [pc EXCEPT ![t] = "default"] /\ verdict' = verdict
  <2>1. Missed' = Missed \cup {t}
    BY <1>2, <1>5, MissedMoves
  <2>2. Policy!Bypass(t)
    BY <1>1, <1>3, <1>5, <2>1, BypassPolicy
  <2>3. QED
    BY <2>2 DEF PolicyStep, Policy!Next
<1>6. CASE /\ ~ initialized /\ pc' = [pc EXCEPT ![t] = "result"]
           /\ verdict' = [verdict EXCEPT ![t] = "ALLOW"]
  <2>1. Missed' = Missed
    BY <1>1, <1>2, <1>6, MissedMoves
  <2>2. Policy!Bypass(t)
    BY <1>1, <1>3, <1>6, <2>1, BypassPolicy
  <2>3. QED
    BY <2>2 DEF PolicyStep, Policy!Next
<1>7. QED
  BY <1>4, <1>5, <1>6 DEF StartEvaluate, Goto

\* A lookup without a match decides by the default action.
LEMMA ReadDefaultPolicy ==
  ASSUME Inv, NEW t \in Threads, ReadDefault(t)
  PROVE  PolicyStep
<1>1. /\ pc[t] = "default" /\ pc' = [pc EXCEPT ![t] = "result"]
      /\ verdict' = [verdict EXCEPT ![t] = default_action]
      /\ UNCHANGED <<rules, sorted_rules, heap, fresh, Switches, pkt>>
  BY DEF ReadDefault, Goto, tableVars, engineVars, Switches
<1>2. TypeOK /\ t \in Missed
  BY <1>1 DEF Inv, TableInv, Missed
<1>3. Entries' = Entries /\ Unsettled' = Unsettled
  BY <1>1, TableKept
<1>4. Missed' = Missed \ {t}
  <2>1. \A u \in Threads : pc'[u] = IF u = t THEN "result" ELSE pc[u]
    BY <1>1, <1>2 DEF TypeOK
  <2>2. QED
    BY <2>1 DEF Missed
<1>5. Policy!LateDefault(t)
  BY <1>1, <1>2, <1>3, <1>4, LateDefaultPolicy
<1>6. QED
  BY <1>5 DEF PolicyStep, Policy!Next

\* The rules of one type decide a packet as the policy's do.
LEMMA EnginePolicyClassify ==
  ASSUME Inv, NEW t \in Threads, Classify(t)
  PROVE  PolicyStep
<1>1. /\ pc[t] = "idle" /\ LockFree
      /\ UNCHANGED <<rules, sorted_rules, heap, fresh, Switches, pkt>>
  BY DEF Classify, Calls, tableVars, engineVars, Switches
<1>2. TableInv /\ TypeOK /\ Listed = Range(rules)
  BY <1>1, TableIsList DEF Inv, TableInv
<1>3. Entries' = Entries /\ Unsettled' = Unsettled
  BY <1>1, TableKept
<1>4. PICK p \in Packets, type \in RuleType :
        IF Entered(t) /\ \E o \in Range(rules) :
                            heap[o].body.type = type /\ Matches(o, p)
        THEN /\ verdict' = [verdict EXCEPT ![t] =
                              CASE type = "WHITELIST" -> "ALLOW"
                                [] type = "BLACKLIST" -> "DROP"
                                [] type = "MONITOR"   -> "MONITOR"]
             /\ Goto(t, "result")
        ELSE Goto(t, "default") /\ UNCHANGED verdict
  BY DEF Classify
<1> DEFINE hit == \E o \in Listed : heap[o].body.type = type /\ Matches(o, p)
<1>5. \/ /\ hit
         /\ verdict' = [verdict EXCEPT ![t] =
                          CASE type = "WHITELIST" -> "ALLOW"
                            [] type = "BLACKLIST" -> "DROP"
                            [] type = "MONITOR"   -> "MONITOR"]
         /\ pc' = [pc EXCEPT ![t] = "result"]
      \/ /\ ~ initialized \/ ~ hit
         /\ pc' = [pc EXCEPT ![t] = "default"] /\ verdict' = verdict
  BY <1>2, <1>4 DEF Goto, Entered
<1>6. \/ pc' = [pc EXCEPT ![t] = "result"] /\ Missed' = Missed
      \/ pc' = [pc EXCEPT ![t] = "default"] /\ Missed' = Missed \cup {t}
  BY <1>1, <1>2, <1>5, MissedMoves
<1>7. "result" # "default" /\ t \in DOMAIN pc
  BY <1>2 DEF TypeOK
<1>8. Policy!Classify(t)
  <2>1. CASE pc' = [pc EXCEPT ![t] = "result"]
    <3>1. pc' # [pc EXCEPT ![t] = "default"]
      BY <1>7, <2>1
    <3>2. QED
      BY <1>1, <1>3, <1>5, <1>6, <3>1, ClassifyPolicy
  <2>2. CASE pc' = [pc EXCEPT ![t] = "default"]
    <3>1. pc' # [pc EXCEPT ![t] = "result"]
      BY <1>7, <2>2
    <3>2. QED
      BY <1>1, <1>3, <1>5, <1>6, <3>1, ClassifyPolicy
  <2>3. QED
    BY <1>6, <2>1, <2>2
<1>9. QED
  BY <1>8 DEF PolicyStep, Policy!Next

\* A verdict returned ends its lookup.
LEMMA ReturnVerdictPolicy ==
  ASSUME Inv, NEW t \in Threads, ReturnVerdict(t)
  PROVE  PolicyStep
<1>1. /\ pc[t] = "result" /\ pc' = [pc EXCEPT ![t] = "idle"]
      /\ pkt' = [pkt EXCEPT ![t] = NoPacket]
      /\ verdict' = [verdict EXCEPT ![t] = "none"]
      /\ UNCHANGED <<rules, sorted_rules, heap, fresh, Switches>>
  BY DEF ReturnVerdict, Goto, tableVars, engineVars, Switches
<1>2. TypeOK
  BY DEF Inv, TableInv
<1>3. Entries' = Entries /\ Unsettled' = Unsettled
  BY <1>1, TableKept
<1>4. Missed' = Missed
  BY <1>1, <1>2, MissedMoves
<1>5. Policy!Done(t)
  BY <1>1, <1>3, <1>4, DonePolicy
<1>6. QED
  BY <1>5 DEF PolicyStep, Policy!Next

\* The log of an add that is done is unseen.
LEMMA LogAndReturnPolicy ==
  ASSUME Inv, NEW t \in Threads, LogAndReturn(t)
  PROVE  PolicyStep
<1>1. /\ pc[t] = "log" /\ pc' = [pc EXCEPT ![t] = "idle"]
      /\ UNCHANGED <<rules, sorted_rules, heap, fresh, Switches, pkt, verdict>>
  BY DEF LogAndReturn, Goto, tableVars, engineVars, evalVars, Switches
<1>2. TypeOK
  BY DEF Inv, TableInv
<1>3. Entries' = Entries /\ Unsettled' = Unsettled
  BY <1>1, TableKept
<1>4. Missed' = Missed
  BY <1>1, <1>2, MissedMoves
<1>5. QED
  BY <1>1, <1>3, <1>4, UnseenPolicy DEF PolicyStep, Lookups

\* Every step of the engine is one of the policy, or none.
LEMMA NextPolicy == Inv /\ ContentsInv /\ [Next]_vars => PolicyStep
<1> SUFFICES ASSUME Inv, ContentsInv, [Next]_vars PROVE PolicyStep
  OBVIOUS
<1>0. TableInv /\ TypeOK
  BY DEF Inv, TableInv
<1>1. ASSUME UNCHANGED <<rules, sorted_rules, heap, pc, fresh, pkt, verdict>>
      PROVE  UNCHANGED <<Entries, Unsettled, Lookups>>
  BY <1>1, TableKept, MissedKept DEF Lookups
<1>2. ASSUME NEW t \in Threads, Call(t)
      PROVE  PolicyStep
  <2>1. CASE AddRule(t)
    BY <1>0, <2>1, AllocateUnseen
    DEF AddRule, Calls, Goto, engineVars, evalVars, Switches
  <2>2. CASE CreateRule(t)
    <3>1. CASE UNCHANGED <<heap, obj, pc>>
      BY <1>1, <2>2, <3>1, UnseenPolicy
      DEF CreateRule, engineVars, evalVars, Switches, PolicyStep
    <3>2. CASE \E body \in Bodies, o \in Objects \ Allocated :
                 /\ Allocate(o, NewRule(next_rule_id, body))
                 /\ pc' = [pc EXCEPT ![t] = "insert"]
      BY <1>0, <2>2, <3>2, AllocateUnseen
      DEF CreateRule, Calls, engineVars, evalVars, Switches
    <3>3. QED
      BY <2>2, <3>1, <3>2 DEF CreateRule, Goto
  <2>3. CASE DeleteRule(t)      BY <2>3, DeleteRulePolicy
  <2>4. CASE ClearRules(t)
    BY <2>4, DropAllRulesPolicy DEF ClearRules, engineVars, evalVars, Switches
  <2>5. CASE SetRuleState(t)    BY <2>5, SetRuleStatePolicy
  <2>6. CASE UpdateRule(t)      BY <2>6, UpdateRulePolicy
  <2>7. CASE ResetStatistics(t) BY <2>7, ResetStatisticsPolicy
  <2>8. CASE StartEvaluate(t)   BY <2>8, StartEvaluatePolicy
  <2>9. CASE Classify(t)        BY <2>9, EnginePolicyClassify
  <2>10. CASE SetDefaultAction(t)
    BY <1>1, <2>10, SwitchPolicy
    DEF SetDefaultAction, tableVars, evalVars, PolicyStep, Policy!Next
  <2>11. CASE SetEnabled(t)
    BY <1>1, <2>11, SwitchPolicy
    DEF SetEnabled, tableVars, evalVars, PolicyStep, Policy!Next
  <2>12. QED
    BY <1>2, <2>1, <2>2, <2>3, <2>4, <2>5, <2>6, <2>7, <2>8, <2>9, <2>10, <2>11
    DEF Call
<1>3. ASSUME NEW t \in Threads, Continue(t)
      PROVE  PolicyStep
  <2>1. CASE InsertRule(t)      BY <2>1, InsertRulePolicy
  <2>2. CASE BeginSort(t)       BY <2>2, BeginSortPolicy
  <2>3. CASE MoveRule(t)        BY <2>3, MoveRulePolicy
  <2>4. CASE EndSort(t)         BY <2>4, EndSortPolicy
  <2>5. CASE LogAndReturn(t)    BY <2>5, LogAndReturnPolicy
  <2>6. CASE FreeRule(t)
    BY <1>0, <2>6, FreeUnseen DEF FreeRule, engineVars, evalVars, Switches
  <2>7. CASE MatchPacket(t)     BY <2>7, MatchPacketPolicy
  <2>8. CASE ReadDefault(t)     BY <2>8, ReadDefaultPolicy
  <2>9. CASE ReturnVerdict(t)   BY <2>9, ReturnVerdictPolicy
  <2>10. QED
    BY <1>3, <2>1, <2>2, <2>3, <2>4, <2>5, <2>6, <2>7, <2>8, <2>9 DEF Continue
<1>4. CASE BeginExit
  BY <1>4, DropAllRulesPolicy DEF BeginExit, evalVars, Switches
<1>5. CASE EndExit
  BY <1>1, <1>5, SwitchPolicy
  DEF EndExit, tableVars, evalVars, PolicyStep, Policy!Next
<1>6. CASE UNCHANGED vars
  BY <1>1, <1>6, UnseenPolicy DEF vars, Switches, PolicyStep
<1>7. QED
  BY <1>2, <1>3, <1>4, <1>5, <1>6 DEF Next

-----------------------------------------------------------------------------
(* The refinement.                                                         *)

\* The engine starts as the policy does.
LEMMA StartsAsPolicy == Init => Policy!Init
<1> SUFFICES ASSUME Init PROVE Policy!Init
  OBVIOUS
<1>1. Listed = {} /\ Missed = {}
  BY EmptyList DEF Init, Listed, Missed
<1>2. QED
  BY <1>1 DEF Policy!Init, Init, Missed

\* Every behaviour of the engine is one of RulePolicy: whatever threads do
\* at once, the table callers see is a set of rules with distinct ids that
\* never outgrows its limit, changes by one whole operation at a time, and
\* answers packets by its highest priority, save for rules yet to be sorted.
THEOREM PolicyHolds == Spec => ImplementsPolicy
<1>1. Init => ContentsInv
  BY DEF Init, ContentsInv, Allocated
<1>2. Inv => TypeOK
  BY DEF Inv, TableInv
<1>3. Spec => []ContentsInv
  BY <1>1, <1>2, InvHolds, NextContentsInv, PTL DEF Spec
<1>4. Inv /\ ContentsInv /\ [Next]_vars => [Policy!Next]_(Policy!vars)
  BY NextPolicy DEF PolicyStep
<1>5. QED
  BY <1>3, <1>4, InvHolds, StartsAsPolicy, PTL
  DEF Spec, ImplementsPolicy, Policy!Spec

=============================================================================
