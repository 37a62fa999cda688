---------------------------- MODULE MCRandyEngine ----------------------------
(***************************************************************************)
(* Two builds with words of a few bits, one that seeds each word with a    *)
(* number of its own and one that cuts a number in halves.  Their shift    *)
(* and rotation make the states run through long cycles (of 585 and of 255 *)
(* states); their jump tables are the remainders of x^(2^(2 bits)) and of  *)
(* x^(2^(3 bits)) by the minimal polynomial of NextState, as those of the  *)
(* real builds are (JumpTables).                                           *)
(***************************************************************************)
EXTENDS RandyEngine

Wide == [bits |-> 3, shift |-> 1, rotate |-> 1, seed_bits |-> 3,
         golden |-> 5, factors |-> <<3, 5>>, mix |-> <<2, 1, 1>>,
         jump |-> {3, 4, 7, 9}, long_jump |-> {0, 1, 2, 3, 5, 6, 8, 10, 11}]

Narrow == [bits |-> 2, shift |-> 1, rotate |-> 1, seed_bits |-> 4,
           golden |-> 9, factors |-> <<11, 7>>, mix |-> <<2, 1, 3>>,
           jump |-> {2, 3, 6}, long_jump |-> {0, 1, 2, 3, 4, 6}]

BothBuilds == {Wide, Narrow}

=============================================================================
