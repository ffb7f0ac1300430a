--------------------------- MODULE MCPacketFilter ---------------------------
(* Small instances of PacketFilter for TLC.                                *)
EXTENDS PacketFilter, TLC

CONSTANTS c1, c2, u1, u2

MC1Context  == {c1}
MC2Contexts == {c1, c2}
MC1User     == {u1}
MC2Users    == {u1, u2}

Symmetry == Permutations(MC2Contexts) \cup Permutations(MC2Users)

\* Everything but kzalloc, whose failure leaves nothing to undo.
AllFaults == Resource \ {"memory"}

=============================================================================
