---------------------------- MODULE MCRuleEngine ----------------------------
(* Small instances of RuleEngine for TLC.                                  *)
EXTENDS RuleEngineRefinement

CONSTANTS t1, t2, o1, o2, o3, o4, p1, p2

MCThreads  == {t1, t2}
MC2Objects == {o1, o2}
MC4Objects == {o1, o2, o3, o4}
MCPackets  == {p1, p2}

Symmetry == Permutations(MCThreads) \cup Permutations(MC4Objects)

\* A broad allow rule, a narrow drop rule of higher priority, a drop rule of
\* lower priority than both, and a rule outside the priority range, which is
\* refused.
Broad   == [priority |-> 2, type |-> "WHITELIST", action |-> "ALLOW",
            enabled |-> TRUE, pattern |-> {p1, p2}]
Narrow  == [priority |-> 1, type |-> "BLACKLIST", action |-> "DROP",
            enabled |-> TRUE, pattern |-> {p1}]
Late    == [priority |-> 3, type |-> "BLACKLIST", action |-> "DROP",
            enabled |-> TRUE, pattern |-> {p1}]
Refused == [Broad EXCEPT !.priority = 4]

OrderBodies  == {Broad, Narrow, Refused}
PolicyBodies == {Broad, Narrow, Late}
TwoBodies    == {Broad, Narrow}

=============================================================================
