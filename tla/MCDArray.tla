------------------------------- MODULE MCDArray -------------------------------
(***************************************************************************)
(* Two- and three-byte elements and words of four bits, so that the        *)
(* largest capacities, 7 and 5, are reached by a growth that cannot double *)
(* and are then refused; sizes that are no multiple of the alignment and   *)
(* an alignment that is no power of two.                                   *)
(***************************************************************************)
EXTENDS DArray

CONSTANTS b1, b2, v1

MCBlocks == {b1, b2}

=============================================================================
