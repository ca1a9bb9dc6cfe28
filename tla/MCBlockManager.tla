-------------------------- MODULE MCBlockManager --------------------------
(* An instance of BlockManager for TLC. *)
EXTENDS BlockManager

CONSTANT A

TwoSequencesOfA == [r \in Requests |-> IF r = A THEN 2 ELSE 1]
=============================================================================
