--------------------------- MODULE MCEventBusMemory ---------------------------
(***************************************************************************)
(* Blocks of four different sizes, so that one freed in the place of       *)
(* another shows, and one block more than a bus needs.                      *)
(***************************************************************************)
EXTENDS EventBusMemory, TLC

CONSTANTS b1, b2, b3, b4, b5

MCBlocks == {b1, b2, b3, b4, b5}

MCSizes == [impl |-> 3, registry |-> 4, queue |-> 2, arena |-> 1]

\* The blocks are only compared with one another.
BlockSymmetry == Permutations(Blocks)

=============================================================================
