--------------------------- MODULE MCBlockIngest ---------------------------
(* Instances of BlockIngest for TLC. *)
EXTENDS BlockIngest

CONSTANTS w1, w2

OneSlot == {w1}
TwoSlots == {w1, w2}

\* Both heights hold transactions, or only the first one does.
BothHeights == Heights
FirstHeight == {StartHeight}
=============================================================================
