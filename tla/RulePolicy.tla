----------------------------- MODULE RulePolicy -----------------------------
(***************************************************************************)
(* What the rule engine promises its callers, with no list, lock, heap or  *)
(* sort in sight: a set of rules with distinct ids, and answers to packets *)
(* in which the rule of highest priority wins, save that a rule that was   *)
(* just added or rewritten may be out of its place for a while.            *)
(***************************************************************************)
EXTENDS Integers, FiniteSets

CONSTANTS Threads, Packets, NoPacket, Id, Body, Action, RuleType, MaxRules

VARIABLES
  table,      \* the rules: a set of [id, body] records
  unsettled,  \* ids of rules that may be out of their place
  on,         \* the engine exists
  enabled,    \* the engine filters
  default,    \* the answer to packets no rule decides
  asked,      \* the packet each thread has had looked up, NoPacket when none
  missed,     \* threads that were told that no rule decides their packet
  answer      \* what each thread was answered, "none" when nothing

vars == <<table, unsettled, on, enabled, default, asked, missed, answer>>

switches == <<on, enabled, default>>
lookups  == <<asked, missed, answer>>

Entry == [id : Id, body : Body]

Init ==
  /\ table = {}
  /\ unsettled = {}
  /\ on = TRUE
  /\ enabled = TRUE
  /\ default = "ALLOW"
  /\ asked = [t \in Threads |-> NoPacket]
  /\ missed = {}
  /\ answer = [t \in Threads |-> "none"]

Matching(p) == {r \in table : r.body.enabled /\ p \in r.body.pattern}

-----------------------------------------------------------------------------

\* A rule joins the table while there is room, with a new id as long as
\* the engine exists.
Install ==
  /\ Cardinality(table) < MaxRules
  /\ \E r \in Entry :
       /\ on => \A q \in table : q.id # r.id
       /\ table' = table \cup {r}
       /\ unsettled' = unsettled \cup {r.id}
  /\ UNCHANGED <<switches, lookups>>

\* Rules leave: one by its id, or all of them.
Remove ==
  /\ \/ \E r \in table : table' = table \ {r} /\ unsettled' = unsettled \ {r.id}
     \/ table' = {} /\ unsettled' = {}
  /\ UNCHANGED <<switches, lookups>>

\* One rule gets another body and may be out of its place from then on.
Rewrite ==
  /\ \E r \in table, body \in Body :
       /\ table' = (table \ {r}) \cup {[r EXCEPT !.body = body]}
       /\ unsettled' = unsettled \cup {r.id}
  /\ UNCHANGED <<switches, lookups>>

\* One rule is switched on or off, in its place.
Toggle ==
  /\ \E r \in table, state \in BOOLEAN :
       table' = (table \ {r}) \cup {[r EXCEPT !.body.enabled = state]}
  /\ UNCHANGED <<unsettled, switches, lookups>>

\* Rules find their places.
Settle ==
  /\ unsettled' \in SUBSET unsettled
  /\ UNCHANGED <<table, switches, lookups>>

\* A matching rule decides a packet.  Any rival of higher priority is
\* excused only by one of the two being unsettled.
Decide(t) ==
  /\ \E p \in Packets : \E r \in Matching(p) :
       /\ \A q \in Matching(p) :
            q.body.priority < r.body.priority =>
              q.id \in unsettled \/ r.id \in unsettled
       /\ asked' = [asked EXCEPT ![t] = p]
       /\ answer' = [answer EXCEPT ![t] = r.body.action]
  /\ UNCHANGED <<table, unsettled, switches, missed>>

\* No rule decides a packet.  The thread gets the default, or is told so
\* and reads the default later.
Default(t) ==
  /\ \E p \in Packets :
       /\ Matching(p) = {} \/ ~on
       /\ asked' = [asked EXCEPT ![t] = p]
  /\ \/ answer' = [answer EXCEPT ![t] = default] /\ UNCHANGED missed
     \/ missed' = missed \cup {t} /\ UNCHANGED answer
  /\ UNCHANGED <<table, unsettled, switches>>

\* With the engine off or gone the table is not asked.
Bypass(t) ==
  /\ \/ (~on \/ ~enabled) /\ missed' = missed \cup {t} /\ UNCHANGED answer
     \/ ~on /\ answer' = [answer EXCEPT ![t] = "ALLOW"] /\ UNCHANGED missed
  /\ UNCHANGED <<table, unsettled, switches, asked>>

LateDefault(t) ==
  /\ t \in missed
  /\ missed' = missed \ {t}
  /\ answer' = [answer EXCEPT ![t] = default]
  /\ UNCHANGED <<table, unsettled, switches, asked>>

Stance(type) == CASE type = "WHITELIST" -> "ALLOW"
                  [] type = "BLACKLIST" -> "DROP"
                  [] type = "MONITOR"   -> "MONITOR"

\* Lookups of one type of rule ignore priorities, actions and the switch.
Classify(t) ==
  /\ \E p \in Packets, type \in RuleType :
       LET hit == \E r \in Matching(p) : r.body.type = type
       IN  \/ /\ hit
              /\ answer' = [answer EXCEPT ![t] = Stance(type)]
              /\ UNCHANGED missed
           \/ /\ ~hit \/ ~on
              /\ missed' = missed \cup {t}
              /\ UNCHANGED answer
  /\ UNCHANGED <<table, unsettled, switches, asked>>

Done(t) ==
  /\ asked' = [asked EXCEPT ![t] = NoPacket]
  /\ answer' = [answer EXCEPT ![t] = "none"]
  /\ UNCHANGED <<table, unsettled, switches, missed>>

SetSwitches ==
  /\ \/ enabled' \in BOOLEAN /\ UNCHANGED <<on, default>>
     \/ default' \in Action /\ UNCHANGED <<on, enabled>>
     \/ on' = FALSE /\ UNCHANGED <<enabled, default>>
  /\ UNCHANGED <<table, unsettled, lookups>>

Next ==
  \/ Install \/ Remove \/ Rewrite \/ Toggle \/ Settle \/ SetSwitches
  \/ \E t \in Threads : \/ Decide(t) \/ Default(t) \/ Bypass(t)
                        \/ LateDefault(t) \/ Classify(t) \/ Done(t)

Spec == Init /\ [][Next]_vars

=============================================================================
