-------------------------------- MODULE RandyOps --------------------------------
(***************************************************************************)
(* The random generator (core/randy.c, core/detail/randy.inl.h): its state *)
(* of four words, how a seed fills it, how a draw changes it, and how a    *)
(* jump does what a great many draws would do.                             *)
(*                                                                         *)
(* A word is the set of the positions of its bits that are 1, so that the  *)
(* exclusive or is the symmetric difference.  The widths and the constants *)
(* of the algorithms are those of a build of the library, a record:        *)
(*                                                                         *)
(*   bits            of a state word (RANDY_WORD_BITS)                     *)
(*   shift, rotate   in the change of the state                            *)
(*   seed_bits       of a u64, which a seed is                             *)
(*   golden, factors, mix                                                  *)
(*                   increment, factors and shifts of the seeding          *)
(*   jump, long_jump the tables, as sets of the positions of their bits,   *)
(*                   counted through the four words                        *)
(*                                                                         *)
(* The module declares no variables: RandyEngine has a generator.          *)
(***************************************************************************)
EXTENDS Integers, FiniteSetsExt

CONSTANT Builds     \* the builds considered

ASSUME BuildsAssumption ==
    \A b \in Builds :
        /\ b.bits \in Nat \ {0}
        /\ b.shift \in Nat \ {0}
        /\ b.rotate \in Nat

-----------------------------------------------------------------------------
(* Words                                                                   *)

Positions(bits) == 0 .. bits - 1

Number(word) == MapThenSumSet(LAMBDA position : 2 ^ position, word)

WordOf(number, bits) == {position \in Positions(bits) : (number \div 2 ^ position) % 2 = 1}

\* A product in a type of that width.
Times(word, factor, bits) == WordOf(Number(word) * factor, bits)

ShiftLeft(word, distance, bits) ==
    {position + distance : position \in {p \in word : p + distance < bits}}

ShiftRight(word, distance) ==
    {position - distance : position \in {p \in word : p >= distance}}

RotateLeft(word, distance, bits) == {(position + distance) % bits : position \in word}

\* States are tuples: state[0] of the code is s[1].
States(b) == [1 .. 4 -> SUBSET Positions(b.bits)]

ZeroState == [i \in 1 .. 4 |-> {}]

Xor(s, t) == [i \in 1 .. 4 |-> SymDiff(s[i], t[i])]

-----------------------------------------------------------------------------
(* randy_init                                                              *)

\* randy_splitmix64_next, from the state it has just advanced to.
Mixed(b, seed) ==
    LET value == WordOf(seed, b.seed_bits)
        once  == Times(SymDiff(value, ShiftRight(value, b.mix[1])), b.factors[1], b.seed_bits)
        twice == Times(SymDiff(once, ShiftRight(once, b.mix[2])), b.factors[2], b.seed_bits)
    IN  SymDiff(twice, ShiftRight(twice, b.mix[3]))

Advanced(b, seed, times) == (seed + times * b.golden) % 2 ^ b.seed_bits

\* Mutation of Seeded: the seed is not advanced between the words.
SeededAlike(b, seed) == [i \in 1 .. 4 |-> Mixed(b, Advanced(b, seed, 1)) \cap Positions(b.bits)]

\* Four numbers where a word is as wide as a seed, else two, cut in halves.
Seeded(b, seed) ==
    IF b.bits = b.seed_bits
    THEN [i \in 1 .. 4 |-> Mixed(b, Advanced(b, seed, i))]
    ELSE LET first  == Mixed(b, Advanced(b, seed, 1))
             second == Mixed(b, Advanced(b, seed, 2))
         IN  <<first \cap Positions(b.bits), ShiftRight(first, b.bits),
               second \cap Positions(b.bits), ShiftRight(second, b.bits)>>

-----------------------------------------------------------------------------
(* randy_detail_next_native                                                *)

\* Mutation of NextState: the second word is shifted after it has changed.
NextStateShiftedLate(b, s) ==
    LET state2 == SymDiff(s[3], s[1])
        state3 == SymDiff(s[4], s[2])
        state1 == SymDiff(s[2], state2)
        state0 == SymDiff(s[1], state3)
    IN  <<state0, state1,
          SymDiff(state2, ShiftLeft(state1, b.shift, b.bits)),
          RotateLeft(state3, b.rotate, b.bits)>>

NextState(b, s) ==
    LET state2 == SymDiff(s[3], s[1])
        state3 == SymDiff(s[4], s[2])
        state1 == SymDiff(s[2], state2)
        state0 == SymDiff(s[1], state3)
    IN  <<state0, state1,
          SymDiff(state2, ShiftLeft(s[2], b.shift, b.bits)),
          RotateLeft(state3, b.rotate, b.bits)>>

-----------------------------------------------------------------------------
(* randy_apply_jump                                                        *)

\* Mutation of ApplyJump: the state advances only for the bits that are set.
ApplyJumpSkipping(b, s, table) ==
    LET loop[n \in 0 .. 4 * b.bits] ==
            IF n = 0 THEN [sum |-> ZeroState, state |-> s]
            ELSE LET before == loop[n - 1]
                 IN  IF n - 1 \in table
                     THEN [sum |-> Xor(before.sum, before.state),
                           state |-> NextState(b, before.state)]
                     ELSE before
    IN  loop[4 * b.bits].sum

\* The sum of the states after as many draws as the positions in the table say.
ApplyJump(b, s, table) ==
    LET loop[n \in 0 .. 4 * b.bits] ==
            IF n = 0 THEN [sum |-> ZeroState, state |-> s]
            ELSE LET before == loop[n - 1]
                 IN  [sum   |-> IF n - 1 \in table
                                THEN Xor(before.sum, before.state) ELSE before.sum,
                      state |-> NextState(b, before.state)]
    IN  loop[4 * b.bits].sum

=============================================================================
