---------------------------- MODULE MCTransTable ----------------------------
(* Small instances of TransTable: two keys that share the only slot, or three *)
(* keys of which two share one.                                               *)
EXTENDS TransTable, TLC

MCOneSlot == [k \in Keys |-> 1]
CONSTANTS k1, k2, k3
MCTwoSlots == [k \in Keys |-> IF k = k3 THEN 2 ELSE 1]
MCThreeKeys == {k1, k2, k3}
MCTwoKeys == {k1, k2}
MCSymmetry == Permutations(Workers) \union Permutations(Keys)

MCShallow == {1, 2}
MCWholeRange == {0, 1, 3}
MCSigned == {-1, 1}
=============================================================================
