-------------------------------- MODULE Lists --------------------------------
(* What several models need of sequences beside the community modules.  A  *)
(* fold, and not SelectSeq, of which the proof system knows nothing.       *)
EXTENDS Integers, SequencesExt

\* The elements of a sequence that are in a set, in their order.
Selection(s, T) ==
  FoldLeft(LAMBDA kept, x : IF x \in T THEN Append(kept, x) ELSE kept, <<>>, s)

=============================================================================
