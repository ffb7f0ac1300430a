------------------------ MODULE RuleEngineRefinement ------------------------
(* The rule engine implements RulePolicy: the policy's table is the set of *)
(* rules linked in the list or in the list a sort is building, and a rule  *)
(* is unsettled while a thread that added or updated it has yet to sort.   *)
EXTENDS RuleEngine

\* Contents a rule of the table can have: what callers submit and the
\* engine accepts, switched on or off.
Contents == {[body EXCEPT !.enabled = on] :
               body \in {b \in Bodies : ValidBody(b)}, on \in BOOLEAN}

Policy == INSTANCE RulePolicy WITH
  Body      <- Contents,
  table     <- {[id |-> heap[o].id, body |-> heap[o].body] : o \in Listed},
  unsettled <- {heap[o].id : o \in Listed \cap Fresh},
  on        <- initialized,
  default   <- default_action,
  asked     <- pkt,
  missed    <- {t \in Threads : pc[t] = "default"},
  answer    <- verdict

\* Callers of the engine see only what the policy allows.
ImplementsPolicy == Policy!Spec

=============================================================================
