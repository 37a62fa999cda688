------------------------------ MODULE RandyEngine ------------------------------
(***************************************************************************)
(* One random generator (core/randy.h): seeded once, then drawn from and   *)
(* jumped with.                                                            *)
(*                                                                         *)
(* RANDY(type, .) draws once, and twice for a u64 in a build with 32-bit   *)
(* words.  What it makes of the results, which the state determines, is    *)
(* the subject of RandyRange.                                              *)
(***************************************************************************)
EXTENDS RandyOps

VARIABLES
    build,      \* the build that runs
    state       \* Randy.state

vars == <<build, state>>

-----------------------------------------------------------------------------

Init ==
    /\ build \in Builds
    /\ state \in {Seeded(build, seed) : seed \in 0 .. 2 ^ build.seed_bits - 1}

Draw ==
    /\ state' = NextState(build, state)
    /\ UNCHANGED build

JumpOver(table) ==
    /\ state' = ApplyJump(build, state, table)
    /\ UNCHANGED build

Jump == JumpOver(build.jump)

LongJump == JumpOver(build.long_jump)

Next ==
    \/ Draw
    \/ Jump
    \/ LongJump

Spec == Init /\ [][Next]_vars

-----------------------------------------------------------------------------
(* Properties                                                              *)

\* The state is never the one that a draw does not change: not after any seed,
\* any number of draws or any jump (the assertion of randy_detail_next_native).
NeverZero == state # ZeroState

\* The state after 2^exponent draws.
AfterTwoTo(b, s, exponent) ==
    LET reached[k \in 0 .. exponent, from \in States(b)] ==
            IF k = 0 THEN NextState(b, from)
            ELSE reached[k - 1, reached[k - 1, from]]
    IN  reached[exponent, s]

\* randy_jump is as many draws as two words have values, randy_long_jump as
\* many as three have: streams that are a jump apart meet only after so many.
JumpsAreDraws ==
    [][/\ Jump => state' = AfterTwoTo(build, state, 2 * build.bits)
       /\ LongJump => state' = AfterTwoTo(build, state, 3 * build.bits)]_vars

=============================================================================
