---------------------------- MODULE MCRandyRange ----------------------------
(***************************************************************************)
(* Draws of four bits for types of three bits (narrower than a draw, as u8 *)
(* and i8 are) and of four bits (as wide as a draw), signed and unsigned:  *)
(* every range of each type, the widest included.                          *)
(***************************************************************************)
EXTENDS RandyRange

MCTypes == [values : {8, 16}, signed : BOOLEAN]

=============================================================================
