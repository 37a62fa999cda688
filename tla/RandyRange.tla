------------------------------ MODULE RandyRange ------------------------------
(***************************************************************************)
(* Random integers from a range (core/detail/randy.inl.h): RANDY_RANGE for *)
(* every integer type, over draws of the generator.  A draw may have more  *)
(* bits than the type (the small types draw 32 bits), and the sizes of     *)
(* both are powers of two.                                                 *)
(*                                                                         *)
(* The reduction of a draw to the range is Lemire's: the high half of the  *)
(* product of draw and width, with the draws rejected whose low half falls *)
(* under a threshold.  The loop has no bound; an unlucky generator keeps   *)
(* it going.                                                               *)
(***************************************************************************)
EXTENDS Integers, FiniteSets

CONSTANTS
    DrawMod,    \* 2 to the number of bits of a draw
    LimbMod,    \* 2 to half that number: multiply-high works on halves
    Types       \* the integer types: how many values, and whether signed

ASSUME DrawAssumption ==
    /\ DrawMod \in Nat
    /\ LimbMod \in Nat \ {0}
    /\ DrawMod = LimbMod * LimbMod
    /\ DrawMod > 1

ASSUME TypesAssumption ==
    /\ Types # {}
    /\ \A type \in Types :
          /\ type \in [values : 4 .. DrawMod, signed : BOOLEAN]
          /\ type.values % 2 = 0

VARIABLES
    pc,         \* "idle" or "draw"
    call,       \* the arguments of the last call
    result      \* what it returned; before that, a value of any type

vars == <<pc, call, result>>

Draws == 0 .. DrawMod - 1

-----------------------------------------------------------------------------
(* Keys: the values of a signed type in order, as unsigned numbers         *)

\* INT8_MAX and so on, of a type with that many values.
SignedMax(type) == (type.values \div 2) - 1

SignedMin(type) == -(type.values \div 2)

\* The values of a type.
ValuesOf(type) ==
    IF type.signed THEN SignedMin(type) .. SignedMax(type) ELSE 0 .. type.values - 1

\* randy_detail_encode_*; unsigned ranges need none.
Encode(type, value) ==
    IF ~type.signed THEN value
    ELSE IF value < 0 THEN value - SignedMin(type)
    ELSE SignedMax(type) + 1 + value

\* randy_detail_decode_*
Decode(type, key) ==
    IF ~type.signed THEN key
    ELSE IF key <= SignedMax(type) THEN SignedMin(type) + key
    ELSE key - (SignedMax(type) + 1)

-----------------------------------------------------------------------------
(* The reduction                                                           *)

\* Mutation of MultiplyHigh: the carry of the lowest product is forgotten.
MultiplyHighNoCarry(left, right) ==
    LET left_low      == left % LimbMod
        left_high     == left \div LimbMod
        right_low     == right % LimbMod
        right_high    == right \div LimbMod
        product_low   == (left_low * right_low) % DrawMod
        carry_product == (left_high * right_low) % DrawMod
        middle        == ((carry_product % LimbMod) + left_low * right_high) % DrawMod
    IN  [high |-> (left_high * right_high + (carry_product \div LimbMod)
                        + (middle \div LimbMod)) % DrawMod,
         low  |-> ((middle * LimbMod) % DrawMod) + (product_low % LimbMod)]

\* randy_detail_multiply_high_u64 without a 128-bit type: both factors are
\* split in halves, and every sum and product is a u64.
MultiplyHigh(left, right) ==
    LET left_low      == left % LimbMod
        left_high     == left \div LimbMod
        right_low     == right % LimbMod
        right_high    == right \div LimbMod
        product_low   == (left_low * right_low) % DrawMod
        carry_product == (left_high * right_low + (product_low \div LimbMod)) % DrawMod
        middle        == ((carry_product % LimbMod) + left_low * right_high) % DrawMod
    IN  [high |-> (left_high * right_high + (carry_product \div LimbMod)
                        + (middle \div LimbMod)) % DrawMod,
         low  |-> ((middle * LimbMod) % DrawMod) + (product_low % LimbMod)]

\* The product in a type of twice the width, which the 32-bit draws use.
Product(left, right) ==
    [high |-> (left * right) \div DrawMod, low |-> (left * right) % DrawMod]

\* (0 - bound) % bound, where 0 - bound wraps around.
Threshold(bound) == ((0 - bound) % DrawMod) % bound

\* Mutation of Accepts: no draw is rejected.
AcceptsAll(value, bound) ==
    value \in Draws /\ bound \in Draws

\* The loop of randy_detail_bounded_* ends with this draw.  The threshold is
\* computed only if the low half is under the bound, which it cannot exceed.
Accepts(value, bound) ==
    LET low == Product(value, bound).low
    IN  low < bound => low >= Threshold(bound)

-----------------------------------------------------------------------------
(* randy_range_*                                                           *)

MinKey(range) == Encode(range.type, range.min)

\* Mutation of Width: the upper end belongs to the range.
WidthInclusive(range) == (Encode(range.type, range.max) - MinKey(range) + 1) % DrawMod

Width(range) == (Encode(range.type, range.max) - MinKey(range)) % DrawMod

Outcome(range, value) ==
    Decode(range.type, (MinKey(range) + Product(value, Width(range)).high) % range.type.values)

Init ==
    /\ pc = "idle"
    /\ call = [type |-> CHOOSE type \in Types : TRUE, min |-> 0, max |-> 1]
    /\ result = 0

\* An empty range, which a debug build stops at, and a range of one value.
RangeWithoutDraw(range) ==
    /\ pc = "idle"
    /\ range.min >= range.max \/ Width(range) = 1
    /\ call' = range
    /\ result' = range.min
    /\ UNCHANGED pc

RangeBegins(range) ==
    /\ pc = "idle"
    /\ range.min < range.max
    /\ Width(range) # 1
    /\ call' = range
    /\ pc' = "draw"
    /\ UNCHANGED result

DrawRejected(value) ==
    /\ pc = "draw"
    /\ ~Accepts(value, Width(call))
    /\ UNCHANGED vars

DrawAccepted(value) ==
    /\ pc = "draw"
    /\ Accepts(value, Width(call))
    /\ result' = Outcome(call, value)
    /\ pc' = "idle"
    /\ UNCHANGED call

RangesOf(type) == [type : {type}, min : ValuesOf(type), max : ValuesOf(type)]

Ranges == UNION {RangesOf(type) : type \in Types}

Next ==
    \/ \E range \in Ranges : RangeWithoutDraw(range)
    \/ \E range \in Ranges : RangeBegins(range)
    \/ \E value \in Draws : DrawRejected(value)
    \/ \E value \in Draws : DrawAccepted(value)

Spec == Init /\ [][Next]_vars

-----------------------------------------------------------------------------
(* Properties                                                              *)

\* "min is inclusive, max exclusive" (randy.h), for signed ranges of any width
\* up to that of the type; an empty range gives its lower end.
ReturnsInRange ==
    pc = "idle" =>
        IF call.min < call.max
        THEN result \in call.min .. call.max - 1
        ELSE result = call.min

\* The draws that a call accepts and answers with x.
DrawsFor(x) ==
    {value \in Draws : Accepts(value, Width(call)) /\ Outcome(call, value) = x}

\* "Unbiased range reduction": of all draws, equally many lead to each value of
\* the range; and more than half of the draws are accepted, so that the loop
\* ends with any generator that does not avoid them.
IsUnbiased ==
    pc = "draw" =>
        /\ \A x \in call.min .. call.max - 1 :
              Cardinality(DrawsFor(x)) = DrawMod \div Width(call)
        /\ 2 * Cardinality({value \in Draws : Accepts(value, Width(call))}) > DrawMod

\* The product computed from halves is the product: no intermediate sum is too
\* large for a u64.
LimbsAreExact ==
    pc = "draw" =>
        \A value \in Draws : MultiplyHigh(value, Width(call)) = Product(value, Width(call))

=============================================================================
