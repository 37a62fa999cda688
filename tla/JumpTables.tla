------------------------------ MODULE JumpTables ------------------------------
(***************************************************************************)
(* The tables of randy_jump and randy_long_jump (core/randy.c) for the     *)
(* widths, shifts and rotations of the real builds.                        *)
(*                                                                         *)
(* RandyEngine shows that a jump is so many draws in builds small enough   *)
(* to count the draws; 2^128 of them cannot be counted, but they can be    *)
(* computed.  A draw is linear in the bits of the state.  A polynomial     *)
(* over the integers modulo 2, the set of its exponents, stands for the    *)
(* sum of the states after as many draws as its exponents say, which is    *)
(* what randy_apply_jump adds up for a table.  Drawing from one state, as  *)
(* long as the states are independent and as long again, shows which       *)
(* polynomial of few draws does what n draws do (Express); from these,     *)
(* that of 2^n draws is found by squaring n times (Square).                *)
(*                                                                         *)
(* This module is for TLC only.                                            *)
(***************************************************************************)
EXTENDS RandyEngine, Sequences

VARIABLES
    basis,      \* the states drawn so far, in reduced echelon form: from the
                \*   position of a pivot to a vector and its polynomial
    residues,   \* for n draws, n = 0, 1, ..: the polynomial of fewer draws
                \*   than the state has bits that does the same
    exponent,   \* power is the polynomial of 2^exponent draws
    power

tableVars == <<vars, basis, residues, exponent, power>>

-----------------------------------------------------------------------------
(* The tables of the source: four words of digits of 16 bits               *)

Table(words) ==
    LET digits     == Len(words[1])
        Bit(i, p)  == (words[i][digits - p \div 16] \div 2 ^ (p % 16)) % 2
    IN  UNION {{16 * digits * (i - 1) + p : p \in {q \in 0 .. 16 * digits - 1 : Bit(i, q) = 1}} :
                    i \in 1 .. 4}

Build64 ==
    [bits |-> 64, shift |-> 17, rotate |-> 45,
     jump |-> Table(<<<<\h180E, \hC6D3, \h3CFD, \h0ABA>>,
                      <<\hD5A6, \h1266, \hF0C9, \h392C>>,
                      <<\hA958, \h2618, \hE03F, \hC9AA>>,
                      <<\h39AB, \hDC45, \h29B1, \h661C>>>>),
     long_jump |-> Table(<<<<\h76E1, \h5D3E, \hFEFD, \hCBBF>>,
                           <<\hC500, \h4E44, \h1C52, \h2FB3>>,
                           <<\h7771, \h0069, \h854E, \hE241>>,
                           <<\h3910, \h9BB0, \h2ACB, \hE635>>>>)]

Build32 ==
    [bits |-> 32, shift |-> 9, rotate |-> 11,
     jump |-> Table(<<<<\h8764, \h000B>>, <<\hF542, \hD2D3>>,
                      <<\h6FA0, \h35C3>>, <<\h77F2, \hDB5B>>>>),
     long_jump |-> Table(<<<<\hB523, \h952E>>, <<\h0B6F, \h099F>>,
                           <<\hCCF5, \hA0EF>>, <<\h1C58, \h0662>>>>)]

RealBuilds == {Build64, Build32}

-----------------------------------------------------------------------------
(* Vectors and polynomials, both sets of positions                         *)

\* The bits of the four words in one.
Flat(b, s) == UNION {{b.bits * (i - 1) + position : position \in s[i]} : i \in 1 .. 4}

\* The sum modulo 2 of the sets that a function has on some arguments.
Sum2(sets, arguments) ==
    {p \in UNION {sets[a] : a \in arguments} :
        Cardinality({a \in arguments : p \in sets[a]}) % 2 = 1}

\* A vector less its components at the pivots, and likewise its polynomial.
Reduced(row) ==
    LET pivots == row.vector \cap DOMAIN basis
        Rest(of, part) == SymDiff(part, Sum2(of, pivots))
    IN  [vector     |-> Rest([p \in pivots |-> basis[p].vector], row.vector),
         polynomial |-> Rest([p \in pivots |-> basis[p].polynomial], row.polynomial)]

Plus(row, other) == [vector     |-> SymDiff(row.vector, other.vector),
                     polynomial |-> SymDiff(row.polynomial, other.polynomial)]

\* The basis with a reduced row for a pivot of its own.
Extended(row) ==
    LET pivot == Max(row.vector)
    IN  [p \in DOMAIN basis \cup {pivot} |->
            IF p = pivot THEN row
            ELSE IF pivot \in basis[p].vector THEN Plus(basis[p], row) ELSE basis[p]]

Degree == 4 * build.bits

-----------------------------------------------------------------------------

TableInit ==
    /\ build \in Builds
    /\ state = <<{0}, {}, {}, {}>>
    /\ basis = <<>>
    /\ residues = <<>>
    /\ exponent = 0
    /\ power = {1}

\* The state after n draws, in terms of those after fewer, and one more draw.
Express ==
    LET n   == Len(residues)
        row == Reduced([vector |-> Flat(build, state), polynomial |-> {n}])
    IN  /\ n < 2 * Degree
        /\ IF row.vector # {}
           THEN /\ basis' = Extended(row)
                /\ residues' = Append(residues, {n})
           ELSE /\ residues' = Append(residues, SymDiff(row.polynomial, {n}))
                /\ UNCHANGED basis
        /\ Draw
        /\ UNCHANGED <<exponent, power>>

\* The square has no mixed terms modulo 2.
Square ==
    /\ Len(residues) = 2 * Degree
    /\ exponent < 3 * build.bits
    /\ power' = Sum2([e \in power |-> residues[2 * e + 1]], power)
    /\ exponent' = exponent + 1
    /\ UNCHANGED <<vars, basis, residues>>

TableNext ==
    \/ Express
    \/ Square

TableSpec == TableInit /\ [][TableNext]_tableVars

-----------------------------------------------------------------------------
(* Properties                                                              *)

\* The states drawn span all states, so that what holds of the one they were
\* drawn from holds of every state; and the tables in the source are the
\* polynomials of 2^(2 bits) and of 2^(3 bits) draws, 2^128 and 2^192 for 64
\* bits, 2^64 and 2^96 for 32 bits.
TablesAreRight ==
    /\ exponent > 0 => DOMAIN basis = 0 .. Degree - 1
    /\ exponent = 2 * build.bits => power = build.jump
    /\ exponent = 3 * build.bits => power = build.long_jump

=============================================================================
