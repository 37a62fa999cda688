------------------------------ MODULE RandyProofs ------------------------------
(***************************************************************************)
(* The random generator, for draws, types and state words of every width.  *)
(*                                                                         *)
(* Ranges (RandyRange): a random integer lies in its range, equally many   *)
(* draws lead to each value of it, and the product computed from halves is *)
(* the product.                                                            *)
(*                                                                         *)
(* The change of the state (RandyOps), for every shift and rotation: it is *)
(* linear, which is what randy_apply_jump and its tables rest on, and one  *)
(* to one, which is why two generators do not run into each other and none *)
(* runs into the zero state.                                               *)
(*                                                                         *)
(* Jumps (RandyOps), with every table: they are linear too, and a jump and *)
(* a draw can change places.                                               *)
(***************************************************************************)
EXTENDS RandyRange, RandyOps, TLAPS, FiniteSetTheorems, WellFoundedInduction

-----------------------------------------------------------------------------
(* Division                                                                *)

\* Quotient and remainder.
LEMMA Division ==
    ASSUME NEW n \in Nat, NEW d \in Nat, d > 0
    PROVE  /\ n \div d \in Nat
           /\ n % d \in 0 .. d - 1
           /\ n = d * (n \div d) + (n % d)
BY Z3

\* A multiple of d that is less than d away from 0 is 0.
LEMMA SmallMultiple ==
    ASSUME NEW k \in Int, NEW d \in Nat, d > 0, d * k < d, d * k > -d
    PROVE  k = 0
<1>1. CASE k >= 1
    <2>1. d * k >= d
        BY <1>1, Z3
    <2>. QED  BY <2>1
<1>2. CASE k <= -1
    <2>1. d * k <= -d
        BY <1>2, Z3
    <2>. QED  BY <2>1
<1>. QED  BY <1>1, <1>2

\* Quotient and remainder are unique.
LEMMA DivisionIsUnique ==
    ASSUME NEW n \in Nat, NEW d \in Nat, d > 0,
           NEW q \in Int, NEW r \in 0 .. d - 1, n = d * q + r
    PROVE  /\ n \div d = q
           /\ n % d = r
<1>. DEFINE quotient == n \div d
            remainder == n % d
<1>1. /\ quotient \in Nat
      /\ remainder \in 0 .. d - 1
      /\ n = d * quotient + remainder
    BY Division
<1>. HIDE DEF quotient, remainder
<1>2. d * (quotient - q) = r - remainder
    BY <1>1, Z3
<1>3. quotient - q = 0
    BY <1>1, <1>2, SmallMultiple
<1>. QED
    <2>1. quotient = q
        BY <1>1, <1>3
    <2>2. remainder = r
        BY <1>1, <2>1
    <2>. QED  BY <2>1, <2>2 DEF quotient, remainder

\* What is smaller than the divisor is left as it is.
LEMMA SmallRemainder ==
    ASSUME NEW d \in Nat, NEW n \in 0 .. d - 1
    PROVE  n % d = n
BY Z3

\* The high half of a product is less than either factor.
LEMMA HighHalf ==
    ASSUME NEW value \in 0 .. DrawMod - 1, NEW bound \in Nat, bound > 0
    PROVE  (value * bound) \div DrawMod \in 0 .. bound - 1
<1>. DEFINE high == (value * bound) \div DrawMod
<1>1. /\ DrawMod \in Nat
      /\ DrawMod > 0
    BY DrawAssumption
<1>2. value * bound \in Nat
    BY <1>1, Z3
<1>3. /\ high \in Nat
      /\ DrawMod * high <= value * bound
    BY <1>1, <1>2, Division
<1>4. value * bound < DrawMod * bound
    BY <1>1, Z3
<1>. HIDE DEF high
<1>5. ~(high >= bound)
    <2>1. SUFFICES ASSUME high >= bound
                   PROVE  FALSE
        OBVIOUS
    <2>2. DrawMod * high >= DrawMod * bound
        BY <2>1, <1>1, <1>3, Z3
    <2>. QED  BY <1>1, <1>2, <1>3, <1>4, <2>2
<1>. QED  BY <1>3, <1>5 DEF high

-----------------------------------------------------------------------------
(* The reduction is not biased                                             *)

\* What the threshold is, and which draws are accepted: those of which the low
\* half of the product is not under it.  The threshold is what is left of the
\* draws when they are dealt out evenly.
LEMMA AcceptsFromThreshold ==
    ASSUME NEW value \in Draws, NEW bound \in 1 .. DrawMod - 1
    PROVE  /\ Threshold(bound) = DrawMod % bound
           /\ Accepts(value, bound) <=> (value * bound) % DrawMod >= DrawMod % bound
<1>. DEFINE rest  == DrawMod % bound
            times == DrawMod \div bound
            low   == (value * bound) % DrawMod
<1>1. /\ DrawMod \in Nat
      /\ DrawMod > 1
      /\ bound \in Nat
      /\ bound > 0
      /\ bound < DrawMod
      /\ value \in Nat
    BY DrawAssumption DEF Draws
<1>2. /\ times \in Nat
      /\ rest \in 0 .. bound - 1
      /\ DrawMod = bound * times + rest
    BY <1>1, Division
<1>. HIDE DEF times, rest
<1>3. (0 - bound) % DrawMod = DrawMod - bound
    BY <1>1, Z3
<1>4. (DrawMod - bound) % bound = rest
    <2>1. DrawMod - bound = bound * (times - 1) + rest
        BY <1>1, <1>2, Z3
    <2>2. times - 1 \in Int /\ DrawMod - bound \in Nat
        BY <1>1, <1>2
    <2>. QED  BY <2>1, <2>2, <1>1, <1>2, DivisionIsUnique
<1>5. Threshold(bound) = rest
    BY <1>3, <1>4 DEF Threshold
<1>6. low \in Nat
    <2>1. value * bound \in Nat
        BY <1>1, Z3
    <2>. QED  BY <2>1, <1>1, Division
<1>. HIDE DEF low
<1>7. Product(value, bound).low = low
    BY DEF Product, low
<1>8. Accepts(value, bound) <=> (low < bound => low >= rest)
    BY <1>5, <1>7 DEF Accepts
<1>. QED  BY <1>1, <1>2, <1>5, <1>6, <1>8 DEF rest, low

\* The first draw of which the product with the bound has this high half and a
\* low half that is not under the threshold.
FirstDraw(bound, high) ==
    (high * DrawMod + (DrawMod % bound) + bound - 1) \div bound

\* The draws that are accepted with one high half are an interval: as many, for
\* every high half, as the bound goes into the number of draws.
LEMMA DrawsWithHighHalf ==
    ASSUME NEW bound \in 1 .. DrawMod - 1, NEW high \in 0 .. bound - 1
    PROVE  /\ FirstDraw(bound, high) \in Nat
           /\ DrawMod \div bound \in Nat
           /\ {value \in Draws : /\ Accepts(value, bound)
                                 /\ Product(value, bound).high = high}
                = FirstDraw(bound, high) .. FirstDraw(bound, high) + (DrawMod \div bound) - 1
<1>. DEFINE rest  == DrawMod % bound
            times == DrawMod \div bound
            first == FirstDraw(bound, high)
            start == high * DrawMod + rest
            taken == {value \in Draws : /\ Accepts(value, bound)
                                        /\ Product(value, bound).high = high}
<1>1. /\ DrawMod \in Nat
      /\ DrawMod > 1
      /\ bound \in Nat
      /\ bound > 0
      /\ high \in Nat
      /\ high <= bound - 1
    BY DrawAssumption
<1>2. /\ times \in Nat
      /\ rest \in 0 .. bound - 1
      /\ DrawMod = bound * times + rest
    BY <1>1, Division
<1>3. /\ start \in Nat
      /\ start + bound * times = (high + 1) * DrawMod
    <2>. HIDE DEF rest, times
    <2>1. start \in Nat
        BY <1>1, <1>2, Z3
    <2>2. start + bound * times = (high + 1) * DrawMod
        BY <1>1, <1>2, Z3
    <2>. QED  BY <2>1, <2>2
<1>4. /\ first \in Nat
      /\ bound * first >= start
      /\ bound * (first - 1) < start
    <2>. DEFINE top == start + bound - 1
    <2>1. first = top \div bound
        BY DEF FirstDraw
    <2>. HIDE DEF start, first
    <2>2. top \in Nat
        BY <1>1, <1>3
    <2>. HIDE DEF top
    <2>3. /\ top \div bound \in Nat
          /\ top % bound \in 0 .. bound - 1
          /\ top = bound * (top \div bound) + (top % bound)
        BY <2>2, <1>1, Division
    <2>. DEFINE left == top % bound
                part == bound * first
    <2>4. /\ first \in Nat
          /\ left \in 0 .. bound - 1
          /\ top = part + left
        BY <2>1, <2>3
    <2>5. part \in Int
        BY <2>4, <1>1
    <2>6. bound * (first - 1) = part - bound
        BY <2>4, <1>1, Z3
    <2>. HIDE DEF left, part
    <2>7. top = start + bound - 1
        BY DEF top
    <2>8. part >= start /\ part - bound < start
        BY <2>4, <2>5, <2>7, <1>1, <1>3
    <2>. QED  BY <2>4, <2>6, <2>8 DEF part
<1>. HIDE DEF first, start, times, rest
<1>5. ASSUME NEW value \in taken
      PROVE  value \in first .. first + times - 1
    <2>1. /\ value \in Draws
          /\ (value * bound) % DrawMod >= rest
          /\ (value * bound) \div DrawMod = high
        BY <1>5, AcceptsFromThreshold DEF Product, rest
    <2>2. value \in Nat /\ value * bound \in Nat
        <3>1. value \in Nat
            BY <2>1, <1>1 DEF Draws
        <3>. QED  BY <3>1, <1>1, Z3
    <2>3. /\ value * bound >= start
          /\ value * bound < (high + 1) * DrawMod
        <3>. DEFINE product == value * bound
                    low     == product % DrawMod
                    base    == DrawMod * high
        <3>0. /\ product \div DrawMod = high
              /\ low >= rest
            BY <2>1
        <3>1. product \in Nat
            BY <2>2
        <3>. HIDE DEF product
        <3>2. /\ low \in 0 .. DrawMod - 1
              /\ product = base + low
            BY <3>0, <3>1, <1>1, Division
        <3>3. base \in Int
            BY <1>1
        <3>4. /\ start = base + rest
              /\ (high + 1) * DrawMod = base + DrawMod
            <4>1. start = base + rest
                BY <1>1, <1>2, Z3 DEF start
            <4>2. (high + 1) * DrawMod = base + DrawMod
                BY <1>1, Z3
            <4>. QED  BY <4>1, <4>2
        <3>. HIDE DEF low, base
        <3>5. product >= start /\ product < (high + 1) * DrawMod
            BY <3>0, <3>1, <3>2, <3>3, <3>4, <1>1, <1>2
        <3>. QED  BY <3>5 DEF product
    <2>4. value >= first
        <3>1. SUFFICES ASSUME value <= first - 1
                       PROVE  FALSE
            BY <2>2, <1>4
        <3>2. value * bound <= bound * (first - 1)
            BY <3>1, <2>2, <1>1, <1>4, Z3
        <3>. QED
            <4>1. bound * (first - 1) \in Int
                BY <1>1, <1>4
            <4>. QED  BY <4>1, <3>2, <2>2, <2>3, <1>3, <1>4
    <2>5. value <= first + times - 1
        <3>1. SUFFICES ASSUME value >= first + times
                       PROVE  FALSE
            BY <2>2, <1>2, <1>4
        <3>2. value * bound >= bound * first + bound * times
            BY <3>1, <2>2, <1>1, <1>2, <1>4, Z3
        <3>. QED
            <4>1. bound * first \in Int /\ bound * times \in Int
                BY <1>1, <1>2, <1>4
            <4>. QED  BY <4>1, <3>2, <2>2, <2>3, <1>3, <1>4
    <2>. QED  BY <2>2, <2>4, <2>5, <1>2, <1>4
<1>6. ASSUME NEW value \in first .. first + times - 1
      PROVE  value \in taken
    <2>1. /\ value \in Nat
          /\ value >= first
          /\ value <= first + times - 1
        BY <1>2, <1>4
    <2>2. value * bound \in Nat
        BY <2>1, <1>1, Z3
    <2>3. value * bound >= start
        <3>1. value * bound >= bound * first
            BY <2>1, <1>1, <1>4, Z3
        <3>2. bound * first \in Int
            BY <1>1, <1>4
        <3>. QED  BY <3>1, <3>2, <2>2, <1>3, <1>4
    <2>4. value * bound < (high + 1) * DrawMod
        <3>1. value * bound <= bound * (first - 1) + bound * times
            BY <2>1, <1>1, <1>2, <1>4, Z3
        <3>2. bound * (first - 1) \in Int /\ bound * times \in Int
            BY <1>1, <1>2, <1>4
        <3>. QED  BY <3>1, <3>2, <2>2, <1>3, <1>4
    <2>. DEFINE low == value * bound - high * DrawMod
    <2>5. /\ low \in rest .. DrawMod - 1
          /\ value * bound = DrawMod * high + low
        <3>1. /\ (high + 1) * DrawMod = high * DrawMod + DrawMod
              /\ DrawMod * high = high * DrawMod
            BY <1>1, Z3
        <3>2. high * DrawMod \in Int
            BY <1>1
        <3>3. start = high * DrawMod + rest
            BY DEF start
        <3>. QED  BY <3>1, <3>2, <3>3, <2>2, <2>3, <2>4, <1>1, <1>2
    <2>. HIDE DEF low
    <2>6. low \in 0 .. DrawMod - 1
        BY <2>5, <1>1, <1>2
    <2>7. /\ (value * bound) \div DrawMod = high
          /\ (value * bound) % DrawMod = low
        BY <2>2, <2>5, <2>6, <1>1, DivisionIsUnique
    <2>8. value \in Draws
        <3>1. SUFFICES ASSUME value >= DrawMod
                       PROVE  FALSE
            BY <2>1, <1>1 DEF Draws
        <3>2. value * bound >= (high + 1) * DrawMod
            <4>1. value * bound >= DrawMod * bound
                BY <3>1, <2>1, <1>1, Z3
            <4>2. DrawMod * bound >= (high + 1) * DrawMod
                BY <1>1, Z3
            <4>3. DrawMod * bound \in Int /\ (high + 1) * DrawMod \in Int
                BY <1>1
            <4>. QED  BY <4>1, <4>2, <4>3, <2>2
        <3>. QED
            <4>1. (high + 1) * DrawMod \in Int
                BY <1>1
            <4>. QED  BY <4>1, <3>2, <2>2, <2>4
    <2>9. Accepts(value, bound)
        <3>1. (value * bound) % DrawMod >= DrawMod % bound
            BY <2>5, <2>7, <1>2 DEF rest
        <3>. QED  BY <3>1, <2>8, AcceptsFromThreshold
    <2>. QED  BY <2>7, <2>8, <2>9 DEF Product
<1>. QED  BY <1>2, <1>4, <1>5, <1>6 DEF first, times

\* More than half of the draws are accepted: as many for each high half as the
\* bound goes into the number of draws, and less than a bound's worth is left.
LEMMA MostDrawsAccepted ==
    ASSUME NEW bound \in 1 .. DrawMod - 1
    PROVE  2 * Cardinality({value \in Draws : Accepts(value, bound)}) > DrawMod
<1>. DEFINE rest     == DrawMod % bound
            times    == DrawMod \div bound
            highs    == 0 .. bound - 1
            offsets  == 0 .. times - 1
            accepted == {value \in Draws : Accepts(value, bound)}
            draw     == [pair \in highs \X offsets |-> FirstDraw(bound, pair[1]) + pair[2]]
<1>1. /\ DrawMod \in Nat
      /\ DrawMod > 1
      /\ bound \in Nat
      /\ bound > 0
      /\ bound < DrawMod
    BY DrawAssumption
<1>2. /\ times \in Nat
      /\ rest \in 0 .. bound - 1
      /\ DrawMod = bound * times + rest
    BY <1>1, Division
<1>. HIDE DEF times, rest
<1>3. ASSUME NEW high \in highs, NEW offset \in offsets
      PROVE  /\ FirstDraw(bound, high) \in Nat
             /\ FirstDraw(bound, high) + offset \in Draws
             /\ Accepts(FirstDraw(bound, high) + offset, bound)
             /\ Product(FirstDraw(bound, high) + offset, bound).high = high
    <2>. DEFINE first == FirstDraw(bound, high)
    <2>1. /\ first \in Nat
          /\ {value \in Draws : /\ Accepts(value, bound)
                                /\ Product(value, bound).high = high}
               = first .. first + times - 1
        BY DrawsWithHighHalf DEF times
    <2>. HIDE DEF first
    <2>2. first + offset \in first .. first + times - 1
        BY <2>1, <1>2
    <2>. QED  BY <2>1, <2>2 DEF first
<1>4. draw \in Injection(highs \X offsets, accepted)
    <2>1. draw \in [highs \X offsets -> accepted]
        BY <1>3
    <2>2. ASSUME NEW one \in highs \X offsets, NEW other \in highs \X offsets,
                 draw[one] = draw[other]
          PROVE  one = other
        <3>1. /\ one[1] \in highs
              /\ one[2] \in offsets
              /\ other[1] \in highs
              /\ other[2] \in offsets
              /\ one = <<one[1], one[2]>>
              /\ other = <<other[1], other[2]>>
            OBVIOUS
        <3>2. /\ draw[one] = FirstDraw(bound, one[1]) + one[2]
              /\ draw[other] = FirstDraw(bound, other[1]) + other[2]
            OBVIOUS
        <3>3. one[1] = other[1]
            <4>1. /\ Product(draw[one], bound).high = one[1]
                  /\ Product(draw[other], bound).high = other[1]
                BY <3>1, <3>2, <1>3
            <4>. QED  BY <4>1, <2>2
        <3>4. one[2] = other[2]
            <4>1. FirstDraw(bound, one[1]) \in Nat
                BY <3>1, <1>3
            <4>2. one[2] \in Int /\ other[2] \in Int
                BY <3>1
            <4>3. FirstDraw(bound, one[1]) + one[2] = FirstDraw(bound, one[1]) + other[2]
                BY <3>2, <3>3, <2>2
            <4>. QED  BY <4>1, <4>2, <4>3
        <3>. QED  BY <3>1, <3>3, <3>4
    <2>. QED  BY <2>1, <2>2 DEF Injection, IsInjective
<1>. HIDE DEF draw
<1>5. /\ IsFiniteSet(accepted)
      /\ Cardinality(accepted) \in Nat
    <2>1. IsFiniteSet(Draws)
        BY <1>1, FS_Interval DEF Draws
    <2>2. accepted \in SUBSET Draws
        OBVIOUS
    <2>. QED  BY <2>1, <2>2, FS_Subset, FS_CardinalityType
<1>. HIDE DEF accepted
<1>6. Cardinality(highs \X offsets) <= Cardinality(accepted)
    BY <1>4, <1>5, FS_Injection
<1>7. Cardinality(highs \X offsets) = bound * times
    <2>1. /\ IsFiniteSet(highs)
          /\ Cardinality(highs) = bound
        BY <1>1, FS_Interval
    <2>2. /\ IsFiniteSet(offsets)
          /\ Cardinality(offsets) = times
        BY <1>2, FS_Interval
    <2>. HIDE DEF highs, offsets
    <2>. QED  BY <2>1, <2>2, FS_Product
<1>8. bound * times > rest
    <2>1. times >= 1
        <3>1. times = 0 => bound * times = 0
            BY <1>1
        <3>. QED  BY <3>1, <1>1, <1>2
    <2>2. bound * times >= bound
        BY <2>1, <1>1, <1>2, Z3
    <2>3. bound * times \in Int
        BY <1>1, <1>2
    <2>. QED  BY <2>2, <2>3, <1>1, <1>2
<1>9. bound * times \in Int
    BY <1>1, <1>2
<1>. QED  BY <1>1, <1>2, <1>5, <1>6, <1>7, <1>8, <1>9 DEF accepted

-----------------------------------------------------------------------------
(* Keys                                                                    *)

\* The smallest value of a type.
Lowest(type) == IF type.signed THEN SignedMin(type) ELSE 0

\* A type has as many values as it says, from the lowest on, and no more than
\* a draw has.
LEMMA ValuesOfType ==
    ASSUME NEW type \in Types
    PROVE  /\ type.values \in Nat
           /\ type.values >= 4
           /\ type.values <= DrawMod
           /\ Lowest(type) \in Int
           /\ ValuesOf(type) = Lowest(type) .. Lowest(type) + type.values - 1
           /\ type.signed \in BOOLEAN
           /\ type.signed => SignedMax(type) + 1 = -SignedMin(type)
           /\ type.signed => SignedMin(type) < 0
           /\ SignedMin(type) \in Int
           /\ SignedMax(type) \in Int
<1>1. /\ type \in [values : 4 .. DrawMod, signed : BOOLEAN]
      /\ type.values % 2 = 0
    BY TypesAssumption
<1>2. /\ type.values \in 4 .. DrawMod
      /\ type.signed \in BOOLEAN
    BY <1>1
<1>3. DrawMod \in Nat
    BY DrawAssumption
<1>4. /\ type.values \in Nat
      /\ type.values >= 4
      /\ type.values <= DrawMod
    BY <1>2, <1>3
<1>5. /\ type.values \div 2 \in Nat
      /\ type.values = 2 * (type.values \div 2)
    BY <1>1, <1>4, Division
<1>. DEFINE half == type.values \div 2
<1>. HIDE DEF half
<1>6. /\ SignedMin(type) = -half
      /\ SignedMax(type) = half - 1
      /\ half \in Nat
      /\ type.values = 2 * half
    BY <1>5 DEF SignedMin, SignedMax, half
<1>7. ValuesOf(type) = Lowest(type) .. Lowest(type) + type.values - 1
    <2>1. CASE type.signed
        <3>1. ValuesOf(type) = -half .. half - 1
            BY <2>1, <1>6 DEF ValuesOf
        <3>2. Lowest(type) = -half
            BY <2>1, <1>6 DEF Lowest
        <3>. QED  BY <3>1, <3>2, <1>6
    <2>2. CASE ~type.signed
        BY <2>2, <1>4 DEF ValuesOf, Lowest
    <2>. QED  BY <2>1, <2>2
<1>. QED  BY <1>2, <1>4, <1>6, <1>7 DEF Lowest

\* Encoding counts the values of a type from its lowest: it keeps their order
\* and distances, so that a range of values is a range of keys.
LEMMA EncodeCounts ==
    ASSUME NEW type \in Types, NEW value \in ValuesOf(type)
    PROVE  /\ Encode(type, value) = value - Lowest(type)
           /\ Encode(type, value) \in 0 .. type.values - 1
<1>1. Encode(type, value) = value - Lowest(type)
    BY SMTT(30), ValuesOfType DEF Encode, Lowest
<1>. QED  BY <1>1, ValuesOfType

\* Decoding is the inverse of encoding.
LEMMA DecodeCounts ==
    ASSUME NEW type \in Types, NEW key \in 0 .. type.values - 1
    PROVE  Decode(type, key) = Lowest(type) + key
BY ValuesOfType DEF Decode, Lowest

-----------------------------------------------------------------------------
(* The result is in the range                                              *)

\* A call of which the range is not empty, for values of its type.
IsRange(range) ==
    /\ range.type \in Types
    /\ range.min \in ValuesOf(range.type)
    /\ range.max \in ValuesOf(range.type)
    /\ range.min < range.max

\* The width of a range is what it should be, and positive, also for the range
\* from the lowest to the highest value.
LEMMA WidthIsDistance ==
    ASSUME NEW range, IsRange(range)
    PROVE  /\ Width(range) = range.max - range.min
           /\ Width(range) \in 1 .. DrawMod - 1
<1>. DEFINE type == range.type
<1>1. /\ Encode(type, range.min) = range.min - Lowest(type)
      /\ Encode(type, range.max) = range.max - Lowest(type)
      /\ Encode(type, range.min) \in 0 .. type.values - 1
      /\ Encode(type, range.max) \in 0 .. type.values - 1
    BY EncodeCounts DEF IsRange
<1>2. /\ type.values \in Nat
      /\ type.values <= DrawMod
      /\ Lowest(type) \in Int
      /\ range.min \in Int
      /\ range.max \in Int
      /\ range.min < range.max
      /\ DrawMod \in Nat
    BY SMTT(30), ValuesOfType, DrawAssumption DEF IsRange
<1>3. /\ Encode(type, range.max) - MinKey(range) = range.max - range.min
      /\ range.max - range.min \in 1 .. DrawMod - 1
    BY <1>1, <1>2 DEF MinKey
<1>. QED  BY <1>2, <1>3, SmallRemainder DEF Width

\* The outcome is as far from the lower end as the high half of the product,
\* whatever the type and the draw: the keys do not wrap around.
LEMMA OutcomeOfHighHalf ==
    ASSUME NEW range, IsRange(range), NEW value \in Draws
    PROVE  /\ Outcome(range, value) = range.min + Product(value, Width(range)).high
           /\ Product(value, Width(range)).high \in 0 .. Width(range) - 1
<1>. DEFINE type == range.type
            high == Product(value, Width(range)).high
            key  == MinKey(range) + high
<1>1. /\ Width(range) = range.max - range.min
      /\ Width(range) \in 1 .. DrawMod - 1
    BY WidthIsDistance
<1>2. high \in 0 .. Width(range) - 1
    <2>1. Width(range) \in Nat /\ Width(range) > 0
        BY <1>1, DrawAssumption
    <2>2. (value * Width(range)) \div DrawMod \in 0 .. Width(range) - 1
        BY <2>1, HighHalf DEF Draws
    <2>. QED  BY <2>2 DEF Product
<1>3. /\ MinKey(range) = range.min - Lowest(type)
      /\ Encode(type, range.max) = range.max - Lowest(type)
      /\ MinKey(range) \in 0 .. type.values - 1
      /\ Encode(type, range.max) \in 0 .. type.values - 1
    BY EncodeCounts DEF IsRange, MinKey
<1>4. /\ type.values \in Nat
      /\ Lowest(type) \in Int
      /\ range.min \in Int
      /\ range.max \in Int
      /\ type \in Types
    BY SMTT(30), ValuesOfType DEF IsRange
<1>. HIDE DEF high
<1>5. /\ key \in 0 .. type.values - 1
      /\ Lowest(type) + key = range.min + high
    BY <1>1, <1>2, <1>3, <1>4
<1>6. key % type.values = key
    BY <1>4, <1>5, SmallRemainder
<1>7. Decode(type, key % type.values) = range.min + high
    BY <1>4, <1>5, <1>6, DecodeCounts
<1>8. Outcome(range, value) = range.min + high
    BY <1>7 DEF Outcome, high
<1>. QED  BY <1>2, <1>8 DEF high

\* Whatever the draw, the outcome lies in the range.
LEMMA OutcomeInRange ==
    ASSUME NEW range, IsRange(range), NEW value \in Draws
    PROVE  Outcome(range, value) \in range.min .. range.max - 1
<1>. DEFINE high == Product(value, Width(range)).high
<1>1. /\ Outcome(range, value) = range.min + high
      /\ high \in 0 .. Width(range) - 1
    BY OutcomeOfHighHalf
<1>2. Width(range) = range.max - range.min
    BY WidthIsDistance
<1>3. range.min \in Int /\ range.max \in Int
    BY SMTT(30), ValuesOfType DEF IsRange
<1>. HIDE DEF high
<1>. QED  BY <1>1, <1>2, <1>3

\* While a call draws, its range is one that needs a draw.
DrawsForRange == pc = "draw" => IsRange(call)

\* The inductive invariant.
IInv ==
    /\ pc \in {"idle", "draw"}
    /\ DrawsForRange
    /\ ReturnsInRange

\* The invariant holds in every reachable state.
THEOREM Invariance == Spec => []IInv
<1>1. Init => IInv
    BY DEF Init, IInv, DrawsForRange, ReturnsInRange
<1>2. IInv /\ [Next]_vars => IInv'
    <2>. SUFFICES ASSUME IInv, [Next]_vars
                  PROVE  IInv'
        OBVIOUS
    <2>. USE DEF IInv, DrawsForRange, ReturnsInRange
    <2>1. ASSUME NEW range \in Ranges, RangeWithoutDraw(range)
          PROVE  IInv'
        <3>1. /\ range.type \in Types
              /\ range.min \in ValuesOf(range.type)
              /\ range.max \in ValuesOf(range.type)
            BY DEF Ranges, RangesOf
        <3>2. range.min \in Int /\ range.max \in Int
            BY SMTT(30), <3>1, ValuesOfType
        <3>3. range.min < range.max => range.max - range.min = 1
            BY <2>1, <3>1, <3>2, WidthIsDistance DEF RangeWithoutDraw, IsRange
        <3>4. /\ pc' = "idle"
              /\ call' = range
              /\ result' = range.min
            BY <2>1 DEF RangeWithoutDraw
        <3>. QED  BY <3>2, <3>3, <3>4
    <2>2. ASSUME NEW range \in Ranges, RangeBegins(range)
          PROVE  IInv'
        <3>1. IsRange(range)
            BY <2>2 DEF Ranges, RangesOf, RangeBegins, IsRange
        <3>2. /\ pc' = "draw"
              /\ call' = range
            BY <2>2 DEF RangeBegins
        <3>3. IsRange(call')
            BY <3>1, <3>2
        <3>. QED  BY <3>2, <3>3 DEF IsRange
    <2>3. ASSUME NEW value \in Draws, DrawRejected(value)
          PROVE  IInv'
        BY <2>3 DEF DrawRejected, vars, IsRange
    <2>4. ASSUME NEW value \in Draws, DrawAccepted(value)
          PROVE  IInv'
        <3>1. IsRange(call)
            BY <2>4 DEF DrawAccepted
        <3>2. /\ pc' = "idle"
              /\ call' = call
              /\ result' \in call.min .. call.max - 1
            BY <2>4, <3>1, OutcomeInRange DEF DrawAccepted
        <3>. QED  BY <3>1, <3>2 DEF IsRange
    <2>5. CASE UNCHANGED vars
        BY <2>5 DEF vars, IsRange
    <2>. QED  BY <2>1, <2>2, <2>3, <2>4, <2>5 DEF Next
<1>. QED  BY <1>1, <1>2, PTL DEF Spec

\* randy_range_*: the result is in the range, for types and draws of any width.
THEOREM RangeIsKept == Spec => []ReturnsInRange
<1>1. IInv => ReturnsInRange
    BY DEF IInv
<1>. QED  BY <1>1, Invariance, PTL

\* randy_range_*: the reduction is not biased. Of all draws, equally many lead
\* to each value of the range, and more than half of them are accepted.
THEOREM RangeIsUnbiased == Spec => []IsUnbiased
<1>1. IInv => IsUnbiased
    <2>. SUFFICES ASSUME IInv, pc = "draw"
                  PROVE  /\ \A x \in call.min .. call.max - 1 :
                               Cardinality(DrawsFor(x)) = DrawMod \div Width(call)
                         /\ 2 * Cardinality({value \in Draws : Accepts(value, Width(call))})
                              > DrawMod
        BY DEF IsUnbiased
    <2>. DEFINE width == Width(call)
    <2>1. IsRange(call)
        BY DEF IInv, DrawsForRange
    <2>2. /\ width = call.max - call.min
          /\ width \in 1 .. DrawMod - 1
          /\ call.min \in Int
          /\ call.max \in Int
        <3>1. /\ width = call.max - call.min
              /\ width \in 1 .. DrawMod - 1
            BY <2>1, WidthIsDistance
        <3>2. call.min \in Int /\ call.max \in Int
            BY SMTT(30), <2>1, ValuesOfType DEF IsRange
        <3>. QED  BY <3>1, <3>2
    <2>3. ASSUME NEW x \in call.min .. call.max - 1
          PROVE  Cardinality(DrawsFor(x)) = DrawMod \div width
        <3>. DEFINE high  == x - call.min
                    first == FirstDraw(width, high)
                    times == DrawMod \div width
        <3>1. high \in 0 .. width - 1
            BY <2>2
        <3>2. ASSUME NEW value \in Draws
              PROVE  Outcome(call, value) = x <=> Product(value, width).high = high
            <4>1. /\ Outcome(call, value) = call.min + Product(value, width).high
                  /\ Product(value, width).high \in 0 .. width - 1
                BY <2>1, OutcomeOfHighHalf
            <4>2. width \in Int
                BY <2>2, DrawAssumption
            <4>3. x \in Int
                BY <2>2
            <4>. HIDE DEF width
            <4>. QED  BY <4>1, <4>2, <4>3, <2>2
        <3>3. DrawsFor(x) = {value \in Draws : /\ Accepts(value, width)
                                               /\ Product(value, width).high = high}
            BY <3>2 DEF DrawsFor
        <3>. HIDE DEF width
        <3>4. /\ first \in Nat
              /\ times \in Nat
              /\ {value \in Draws : /\ Accepts(value, width)
                                    /\ Product(value, width).high = high}
                   = first .. first + times - 1
            BY <2>2, <3>1, DrawsWithHighHalf
        <3>. HIDE DEF first, times, high
        <3>5. DrawsFor(x) = first .. first + times - 1
            BY <3>3, <3>4
        <3>6. Cardinality(first .. first + times - 1) = times
            BY <3>4, FS_Interval
        <3>. QED  BY <3>5, <3>6 DEF times
    <2>4. 2 * Cardinality({value \in Draws : Accepts(value, width)}) > DrawMod
        <3>. HIDE DEF width
        <3>. QED  BY <2>2, MostDrawsAccepted
    <2>. QED  BY <2>3, <2>4
<1>. QED  BY <1>1, Invariance, PTL

-----------------------------------------------------------------------------
(* The product from halves                                                 *)

\* A product of numbers of half a draw leaves room for two more of them.
LEMMA HalvesMultiply ==
    ASSUME NEW x \in 0 .. LimbMod - 1, NEW y \in 0 .. LimbMod - 1
    PROVE  /\ x * y \in Nat
           /\ x * y + 2 * (LimbMod - 1) < DrawMod
<1>1. /\ LimbMod \in Nat
      /\ LimbMod > 0
      /\ DrawMod = LimbMod * LimbMod
    BY DrawAssumption
<1>2. x * y \in Nat
    BY <1>1, Z3
<1>3. x * y <= (LimbMod - 1) * (LimbMod - 1)
    <2>1. x * y <= (LimbMod - 1) * y
        BY <1>1, Z3
    <2>2. (LimbMod - 1) * y <= (LimbMod - 1) * (LimbMod - 1)
        BY <1>1, Z3
    <2>. QED  BY <2>1, <2>2, <1>1, Z3
<1>4. (LimbMod - 1) * (LimbMod - 1) = DrawMod - 2 * LimbMod + 1
    BY <1>1, Z3
<1>. QED  BY <1>1, <1>2, <1>3, <1>4, DrawAssumption

\* A draw divided in halves.
LEMMA Halves ==
    ASSUME NEW n \in Nat, n < DrawMod
    PROVE  /\ n \div LimbMod \in 0 .. LimbMod - 1
           /\ n % LimbMod \in 0 .. LimbMod - 1
           /\ n = LimbMod * (n \div LimbMod) + (n % LimbMod)
<1>. DEFINE high == n \div LimbMod
<1>1. /\ LimbMod \in Nat
      /\ LimbMod > 0
      /\ DrawMod = LimbMod * LimbMod
    BY DrawAssumption
<1>2. /\ high \in Nat
      /\ n % LimbMod \in 0 .. LimbMod - 1
      /\ n = LimbMod * high + (n % LimbMod)
    BY <1>1, Division
<1>3. high < LimbMod
    <2>. HIDE DEF high
    <2>1. SUFFICES ASSUME high >= LimbMod
                   PROVE  FALSE
        BY <1>1, <1>2
    <2>2. LimbMod * high >= LimbMod * LimbMod
        BY <2>1, <1>1, <1>2, Z3
    <2>3. LimbMod * high <= n
        <3>. DEFINE product == LimbMod * high
        <3>1. product \in Int
            BY <1>1, <1>2
        <3>. HIDE DEF product
        <3>2. n = product + (n % LimbMod)
            BY <1>2 DEF product
        <3>3. product <= n
            BY <3>1, <3>2, <1>1, <1>2
        <3>. QED  BY <3>3 DEF product
    <2>4. LimbMod * LimbMod \in Int /\ LimbMod * high \in Int
        BY <1>1, <1>2
    <2>. QED  BY <2>2, <2>3, <2>4, <1>1, DrawAssumption
<1>. QED  BY <1>1, <1>2, <1>3

\* randy_detail_multiply_high_u64: although every sum and product in it is cut
\* to a draw, none is cut off, and the two halves are those of the product.
THEOREM MultiplyHighIsProduct ==
    ASSUME NEW left \in Draws, NEW right \in Draws
    PROVE  MultiplyHigh(left, right) = Product(left, right)
<1>. DEFINE left_low      == left % LimbMod
            left_high     == left \div LimbMod
            right_low     == right % LimbMod
            right_high    == right \div LimbMod
            lowest        == left_low * right_low
            carry         == left_high * right_low + (lowest \div LimbMod)
            middle        == (carry % LimbMod) + left_low * right_high
            high          == left_high * right_high + (carry \div LimbMod)
                                + (middle \div LimbMod)
            low           == (middle % LimbMod) * LimbMod + (lowest % LimbMod)
<1>1. /\ LimbMod \in Nat
      /\ LimbMod > 0
      /\ DrawMod = LimbMod * LimbMod
      /\ DrawMod \in Nat
      /\ DrawMod > 0
    BY DrawAssumption
<1>2. /\ left \in Nat
      /\ left < DrawMod
      /\ right \in Nat
      /\ right < DrawMod
    BY <1>1 DEF Draws
<1>3. /\ left_low \in 0 .. LimbMod - 1
      /\ left_high \in 0 .. LimbMod - 1
      /\ right_low \in 0 .. LimbMod - 1
      /\ right_high \in 0 .. LimbMod - 1
      /\ left = LimbMod * left_high + left_low
      /\ right = LimbMod * right_high + right_low
    BY <1>2, Halves
<1>. HIDE DEF left_low, left_high, right_low, right_high
<1>4. /\ lowest \in Nat
      /\ lowest < DrawMod
    BY <1>1, <1>3, HalvesMultiply
<1>5. /\ lowest \div LimbMod \in 0 .. LimbMod - 1
      /\ lowest % LimbMod \in 0 .. LimbMod - 1
      /\ lowest = LimbMod * (lowest \div LimbMod) + (lowest % LimbMod)
    <2>. HIDE DEF lowest
    <2>. QED  BY <1>4, Halves
<1>6. /\ carry \in Nat
      /\ carry < DrawMod
    <2>1. /\ left_high * right_low \in Nat
          /\ left_high * right_low + 2 * (LimbMod - 1) < DrawMod
        BY <1>3, HalvesMultiply
    <2>. HIDE DEF lowest
    <2>. QED  BY <2>1, <1>1, <1>5
<1>7. /\ carry \div LimbMod \in 0 .. LimbMod - 1
      /\ carry % LimbMod \in 0 .. LimbMod - 1
      /\ carry = LimbMod * (carry \div LimbMod) + (carry % LimbMod)
    <2>. HIDE DEF carry
    <2>. QED  BY <1>6, Halves
<1>8. /\ middle \in Nat
      /\ middle < DrawMod
    <2>1. /\ left_low * right_high \in Nat
          /\ left_low * right_high + 2 * (LimbMod - 1) < DrawMod
        BY <1>3, HalvesMultiply
    <2>. HIDE DEF carry
    <2>. QED  BY <2>1, <1>1, <1>7
<1>9. /\ middle \div LimbMod \in 0 .. LimbMod - 1
      /\ middle % LimbMod \in 0 .. LimbMod - 1
      /\ middle = LimbMod * (middle \div LimbMod) + (middle % LimbMod)
    <2>. HIDE DEF middle
    <2>. QED  BY <1>8, Halves
<1>10. /\ high \in Nat
       /\ low \in 0 .. DrawMod - 1
    <2>1. high \in Nat
        <3>1. left_high * right_high \in Nat
            BY <1>3, HalvesMultiply
        <3>. HIDE DEF carry, middle
        <3>. QED  BY <3>1, <1>1, <1>7, <1>9
    <2>2. low \in 0 .. DrawMod - 1
        <3>. DEFINE a == middle % LimbMod
                    b == lowest % LimbMod
        <3>1. a \in 0 .. LimbMod - 1 /\ b \in 0 .. LimbMod - 1
            BY <1>5, <1>9
        <3>. HIDE DEF a, b
        <3>2. a * LimbMod + b \in Nat
            BY <3>1, <1>1, Z3
        <3>3. a * LimbMod <= (LimbMod - 1) * LimbMod
            BY <3>1, <1>1, Z3
        <3>4. a * LimbMod + b <= LimbMod * LimbMod - 1
            BY <3>1, <3>3, <1>1, Z3
        <3>. QED  BY <3>2, <3>4, <1>1 DEF a, b
    <2>. QED  BY <2>1, <2>2
<1>11. left * right = DrawMod * high + low
    <2>. DEFINE c1 == carry \div LimbMod
                c0 == carry % LimbMod
                m1 == middle \div LimbMod
                m0 == middle % LimbMod
                p1 == lowest \div LimbMod
                p0 == lowest % LimbMod
    <2>1. /\ lowest = LimbMod * p1 + p0
          /\ carry = LimbMod * c1 + c0
          /\ middle = LimbMod * m1 + m0
          /\ p1 \in Int /\ p0 \in Int
          /\ c1 \in Int /\ c0 \in Int
          /\ m1 \in Int /\ m0 \in Int
          /\ left_low \in Int /\ left_high \in Int
          /\ right_low \in Int /\ right_high \in Int
        BY <1>3, <1>5, <1>7, <1>9
    <2>2. /\ carry = left_high * right_low + p1
          /\ middle = c0 + left_low * right_high
          /\ lowest = left_low * right_low
          /\ high = left_high * right_high + c1 + m1
          /\ low = m0 * LimbMod + p0
        OBVIOUS
    <2>. HIDE DEF c1, c0, m1, m0, p1, p0, lowest, carry, middle, high, low
    <2>3. left * right = DrawMod * (left_high * right_high)
                           + LimbMod * (left_high * right_low + left_low * right_high)
                           + left_low * right_low
        BY <2>1, <1>1, <1>3, Z3
    <2>4. left_high * right_low = LimbMod * c1 + c0 - p1
        BY <2>1, <2>2, <1>1, Z3
    <2>5. left_low * right_high = LimbMod * m1 + m0 - c0
        BY <2>1, <2>2, <1>1, Z3
    <2>6. left_low * right_low = LimbMod * p1 + p0
        BY <2>1, <2>2
    <2>7. left_high * right_low + left_low * right_high = LimbMod * (c1 + m1) + m0 - p1
        BY <2>1, <2>4, <2>5, <1>1, Z3
    <2>8. left * right = DrawMod * (left_high * right_high)
                           + LimbMod * (LimbMod * (c1 + m1) + m0 - p1)
                           + LimbMod * p1 + p0
        BY <2>3, <2>6, <2>7, <2>1, <1>1, Z3
    <2>9. DrawMod * high = DrawMod * (left_high * right_high) + LimbMod * (LimbMod * (c1 + m1))
        BY <2>1, <2>2, <1>1, Z3
    <2>. QED  BY <2>1, <2>2, <2>8, <2>9, <1>1, Z3
<1>12. /\ Product(left, right).high = high
       /\ Product(left, right).low = low
       /\ Product(left, right) = [high |-> high, low |-> low]
    <2>1. left * right \in Nat
        BY <1>2
    <2>. HIDE DEF high, low
    <2>2. /\ (left * right) \div DrawMod = high
          /\ (left * right) % DrawMod = low
        BY <2>1, <1>1, <1>10, <1>11, DivisionIsUnique
    <2>. QED  BY <2>2 DEF Product
<1>13. high < DrawMod
    <2>1. (left * right) \div DrawMod \in 0 .. right - 1 \/ right = 0
        BY <1>2, HighHalf DEF Draws
    <2>2. CASE right = 0
        <3>1. left * right = 0
            BY <2>2, <1>2
        <3>2. 0 \div DrawMod = 0
            BY <1>1, Z3
        <3>3. Product(left, right).high = 0
            BY <3>1, <3>2 DEF Product
        <3>. QED  BY <3>3, <1>12, <1>1
    <2>3. CASE right # 0
        <3>1. Product(left, right).high \in 0 .. right - 1
            BY <2>1, <2>3 DEF Product
        <3>2. high \in 0 .. right - 1
            BY <3>1, <1>12
        <3>. HIDE DEF high
        <3>. QED  BY <3>2, <1>2, <1>1
    <2>. QED  BY <2>2, <2>3
<1>14. /\ lowest % DrawMod = lowest
       /\ carry % DrawMod = carry
       /\ middle % DrawMod = middle
       /\ high % DrawMod = high
    <2>. HIDE DEF lowest, carry, middle, high
    <2>. QED  BY <1>1, <1>4, <1>6, <1>8, <1>10, <1>13, SmallRemainder
<1>15. (middle * LimbMod) % DrawMod = (middle % LimbMod) * LimbMod
    <2>. DEFINE m1 == middle \div LimbMod
                m0 == middle % LimbMod
    <2>1. /\ middle = LimbMod * m1 + m0
          /\ m1 \in Int
          /\ m0 \in 0 .. LimbMod - 1
          /\ middle \in Nat
        BY <1>8, <1>9
    <2>. HIDE DEF m1, m0, middle
    <2>2. middle * LimbMod = DrawMod * m1 + m0 * LimbMod
        BY <2>1, <1>1, Z3
    <2>3. m0 * LimbMod \in 0 .. DrawMod - 1
        <3>1. m0 * LimbMod \in Nat
            BY <2>1, <1>1, Z3
        <3>2. m0 * LimbMod <= (LimbMod - 1) * LimbMod
            BY <2>1, <1>1, Z3
        <3>3. (LimbMod - 1) * LimbMod <= LimbMod * LimbMod - 1
            BY <1>1, Z3
        <3>. QED  BY <3>1, <3>2, <3>3, <1>1, Z3
    <2>4. middle * LimbMod \in Nat
        BY <2>1, <1>1, Z3
    <2>5. (middle * LimbMod) % DrawMod = m0 * LimbMod
        <3>. DEFINE n == middle * LimbMod
                    r == m0 * LimbMod
        <3>1. /\ n \in Nat
              /\ r \in 0 .. DrawMod - 1
              /\ n = DrawMod * m1 + r
            BY <2>2, <2>3, <2>4
        <3>. HIDE DEF n, r
        <3>2. n % DrawMod = r
            BY <2>1, <3>1, <1>1, DivisionIsUnique
        <3>. QED  BY <3>2 DEF n, r
    <2>. QED  BY <2>5 DEF m0
<1>16. MultiplyHigh(left, right) = [high |-> high, low |-> low]
    <2>1. MultiplyHigh(left, right) =
            [high |-> high % DrawMod,
             low  |-> ((middle * LimbMod) % DrawMod) + (lowest % LimbMod)]
        BY <1>14 DEF MultiplyHigh, left_low, left_high, right_low, right_high
    <2>. QED  BY <2>1, <1>14, <1>15
<1>. QED  BY <1>12, <1>16

\* In every call the product from halves is exact, for draws of any width.
THEOREM LimbsStayExact == Spec => []LimbsAreExact
<1>1. IInv => LimbsAreExact
    <2>. SUFFICES ASSUME IInv, pc = "draw", NEW value \in Draws
                  PROVE  MultiplyHigh(value, Width(call)) = Product(value, Width(call))
        BY DEF LimbsAreExact
    <2>1. Width(call) \in Draws
        BY WidthIsDistance, DrawAssumption DEF IInv, DrawsForRange, Draws
    <2>. QED  BY <2>1, MultiplyHighIsProduct
<1>. QED  BY <1>1, Invariance, PTL

-----------------------------------------------------------------------------
(* Words                                                                   *)

\* Positions that are shifted around to the same place are the same.
LEMMA RotationIsOneToOne ==
    ASSUME NEW n \in Nat \ {0}, NEW d \in Nat, NEW p \in Positions(n), NEW q \in Positions(n),
           (p + d) % n = (q + d) % n
    PROVE  p = q
<1>. DEFINE j == (p + d) \div n
            k == (q + d) \div n
<1>1. p \in Nat /\ q \in Nat /\ p < n /\ q < n
    BY DEF Positions
<1>2. /\ j \in Int /\ p + d = n * j + ((p + d) % n)
      /\ k \in Int /\ q + d = n * k + ((q + d) % n)
    BY <1>1, Z3
<1>3. p - q = n * (j - k)
    <2>1. (p + d) % n \in Int /\ (q + d) % n \in Int
        BY <1>1, Z3
    <2>. HIDE DEF j, k
    <2>. QED  BY <1>1, <1>2, <2>1, Z3
<1>4. ASSUME NEW i \in Int, i >= 1 PROVE n * i >= n
    BY <1>4, Z3
<1>5. ASSUME NEW i \in Int, i <= -1 PROVE n * i <= -n
    BY <1>5, Z3
<1>6. j - k = 0
    <2>. DEFINE i == j - k
    <2>1. i \in Int /\ p - q = n * i
        BY <1>2, <1>3
    <2>. HIDE DEF i, j, k
    <2>2. ~(i >= 1) /\ ~(i <= -1)
        BY <2>1, <1>1, <1>4, <1>5
    <2>. QED  BY <2>1, <2>2 DEF i
<1>. HIDE DEF j, k
<1>. QED  BY <1>1, <1>3, <1>6

\* Exclusive or, position by position.
LEMMA InSymDiff ==
    ASSUME NEW v, NEW w, NEW p
    PROVE  p \in SymDiff(v, w) <=> (p \in v /\ p \notin w) \/ (p \in w /\ p \notin v)
BY DEF SymDiff

LEMMA SymDiffIsWord ==
    ASSUME NEW W, NEW v \in SUBSET W, NEW w \in SUBSET W
    PROVE  SymDiff(v, w) \in SUBSET W
BY DEF SymDiff

LEMMA SymDiffIsEmpty ==
    ASSUME NEW v, NEW w
    PROVE  SymDiff(v, w) = {} <=> v = w
BY DEF SymDiff

LEMMA ShiftIsLinear ==
    ASSUME NEW n \in Nat, NEW d \in Nat,
           NEW v \in SUBSET Positions(n), NEW w \in SUBSET Positions(n)
    PROVE  /\ ShiftLeft(v, d, n) \in SUBSET Positions(n)
           /\ ShiftLeft(SymDiff(v, w), d, n) = SymDiff(ShiftLeft(v, d, n), ShiftLeft(w, d, n))
<1>1. \A p \in Positions(n) : p \in Nat
    BY DEF Positions
<1>2. ASSUME NEW x \in SUBSET Positions(n), NEW q
      PROVE  q \in ShiftLeft(x, d, n) <=> q \in Positions(n) /\ q - d \in x
    BY <1>1, <1>2 DEF ShiftLeft, Positions
<1>3. SymDiff(v, w) \in SUBSET Positions(n)
    BY SymDiffIsWord
<1>. QED  BY <1>2, <1>3 DEF SymDiff

LEMMA RotateIsLinear ==
    ASSUME NEW n \in Nat \ {0}, NEW d \in Nat,
           NEW v \in SUBSET Positions(n), NEW w \in SUBSET Positions(n)
    PROVE  /\ RotateLeft(v, d, n) \in SUBSET Positions(n)
           /\ RotateLeft(SymDiff(v, w), d, n) = SymDiff(RotateLeft(v, d, n), RotateLeft(w, d, n))
           /\ RotateLeft(v, d, n) = {} => v = {}
<1>1. \A p \in Positions(n) : (p + d) % n \in Positions(n)
    BY Z3 DEF Positions
<1>2. RotateLeft(v, d, n) \in SUBSET Positions(n)
    BY <1>1 DEF RotateLeft
<1>3. \A p, q \in Positions(n) : (p + d) % n = (q + d) % n => p = q
    BY RotationIsOneToOne
<1>4. RotateLeft(SymDiff(v, w), d, n) = SymDiff(RotateLeft(v, d, n), RotateLeft(w, d, n))
    <2>. DEFINE f(p) == (p + d) % n
    <2>1. \A p, q \in Positions(n) : f(p) = f(q) => p = q
        BY <1>3
    <2>2. \A x : RotateLeft(x, d, n) = {f(p) : p \in x}
        BY DEF RotateLeft
    <2>. HIDE DEF f
    <2>. QED  BY <2>1, <2>2 DEF SymDiff
<1>5. RotateLeft(v, d, n) = {} => v = {}
    BY DEF RotateLeft
<1>. QED  BY <1>2, <1>4, <1>5

\* A word that a shift to the left leaves as it is has no bits: its lowest
\* would come from a lower one.
LEMMA ShiftedWordDiffers ==
    ASSUME NEW n \in Nat, NEW d \in Nat \ {0}, NEW w \in SUBSET Positions(n),
           w = ShiftLeft(w, d, n)
    PROVE  w = {}
<1>. SUFFICES ASSUME w # {} PROVE FALSE
    OBVIOUS
<1>1. w \subseteq Nat
    BY DEF Positions
<1>2. \E x \in w : \A y \in w : ~(<<y, x>> \in OpToRel(<, Nat))
    BY <1>1, NatLessThanWellFounded, WFMin
<1>3. PICK x \in w : \A y \in w : ~(y < x)
    BY <1>1, <1>2 DEF OpToRel
<1>4. PICK y \in w : x = y + d
    BY DEF ShiftLeft
<1>. QED  BY <1>1, <1>3, <1>4

-----------------------------------------------------------------------------
(* Draws                                                                   *)

\* randy_detail_next_native is linear: the state after the exclusive or of two
\* states is the exclusive or of the states after them.  A jump, which adds up
\* states, and a table that is right for one state, are right for all by this.
THEOREM DrawIsLinear ==
    ASSUME NEW b \in Builds, NEW s \in States(b), NEW t \in States(b)
    PROVE  NextState(b, Xor(s, t)) = Xor(NextState(b, s), NextState(b, t))
<1>. DEFINE n == b.bits
<1>1. n \in Nat \ {0} /\ b.shift \in Nat /\ b.rotate \in Nat
    BY BuildsAssumption
<1>2. \A i \in 1 .. 4 : s[i] \in SUBSET Positions(n) /\ t[i] \in SUBSET Positions(n)
    BY DEF States
<1>3. \A i \in 1 .. 4 : Xor(s, t)[i] = SymDiff(s[i], t[i])
    BY DEF Xor
<1>4. ShiftLeft(SymDiff(s[2], t[2]), b.shift, n) =
          SymDiff(ShiftLeft(s[2], b.shift, n), ShiftLeft(t[2], b.shift, n))
    BY <1>1, <1>2, ShiftIsLinear
<1>5. RotateLeft(SymDiff(SymDiff(s[4], s[2]), SymDiff(t[4], t[2])), b.rotate, n) =
          SymDiff(RotateLeft(SymDiff(s[4], s[2]), b.rotate, n),
                  RotateLeft(SymDiff(t[4], t[2]), b.rotate, n))
    BY <1>1, <1>2, SymDiffIsWord, RotateIsLinear
<1>6. \A v, w, x, y :
        SymDiff(SymDiff(v, w), SymDiff(x, y)) = SymDiff(SymDiff(v, x), SymDiff(w, y))
    BY DEF SymDiff
<1>. DEFINE u     == Xor(s, t)
            a2(x) == SymDiff(x[3], x[1])
            a3(x) == SymDiff(x[4], x[2])
            a1(x) == SymDiff(x[2], a2(x))
            a0(x) == SymDiff(x[1], a3(x))
            b2(x) == SymDiff(a2(x), ShiftLeft(x[2], b.shift, n))
            b3(x) == RotateLeft(a3(x), b.rotate, n)
<1>7. \A x : NextState(b, x) = <<a0(x), a1(x), b2(x), b3(x)>>
    BY DEF NextState
<1>8. /\ u[1] = SymDiff(s[1], t[1]) /\ u[2] = SymDiff(s[2], t[2])
      /\ u[3] = SymDiff(s[3], t[3]) /\ u[4] = SymDiff(s[4], t[4])
    BY <1>3
<1>. HIDE DEF u
<1>9. a2(u) = SymDiff(a2(s), a2(t)) /\ a3(u) = SymDiff(a3(s), a3(t))
    BY <1>6, <1>8
<1>10. b3(u) = SymDiff(b3(s), b3(t))
    BY <1>5, <1>9
<1>. HIDE DEF a2, a3
<1>11. a1(u) = SymDiff(a1(s), a1(t)) /\ a0(u) = SymDiff(a0(s), a0(t))
    BY <1>6, <1>8, <1>9
<1>12. b2(u) = SymDiff(b2(s), b2(t))
    BY <1>4, <1>6, <1>8, <1>9
<1>. HIDE DEF a0, a1, b2, b3
<1>13. Xor(NextState(b, s), NextState(b, t)) =
            <<SymDiff(a0(s), a0(t)), SymDiff(a1(s), a1(t)),
              SymDiff(b2(s), b2(t)), SymDiff(b3(s), b3(t))>>
    BY <1>7 DEF Xor
<1>. QED  BY <1>7, <1>10, <1>11, <1>12, <1>13 DEF u

\* The zero state is the only one that a draw takes to the zero state.
LEMMA OnlyZeroGivesZero ==
    ASSUME NEW b \in Builds, NEW s \in States(b), NextState(b, s) = ZeroState
    PROVE  s = ZeroState
<1>. DEFINE n      == b.bits
            state2 == SymDiff(s[3], s[1])
            state3 == SymDiff(s[4], s[2])
            state1 == SymDiff(s[2], state2)
            state0 == SymDiff(s[1], state3)
            last2  == SymDiff(state2, ShiftLeft(s[2], b.shift, n))
            last3  == RotateLeft(state3, b.rotate, n)
<1>1. n \in Nat \ {0} /\ b.shift \in Nat \ {0} /\ b.rotate \in Nat
    BY BuildsAssumption
<1>2. /\ s[1] \in SUBSET Positions(n) /\ s[2] \in SUBSET Positions(n)
      /\ s[3] \in SUBSET Positions(n) /\ s[4] \in SUBSET Positions(n)
    BY DEF States
<1>3. state0 = {} /\ state1 = {} /\ last2 = {} /\ last3 = {}
    <2>1. NextState(b, s) = <<state0, state1, last2, last3>>
        BY DEF NextState
    <2>. HIDE DEF state0, state1, last2, last3
    <2>2. /\ ZeroState[1] = {} /\ ZeroState[2] = {}
          /\ ZeroState[3] = {} /\ ZeroState[4] = {}
        BY DEF ZeroState
    <2>. QED  BY <2>1, <2>2
<1>4. state3 = {}
    <2>1. state3 \in SUBSET Positions(n)
        BY <1>2, SymDiffIsWord
    <2>. HIDE DEF state3, n
    <2>. QED  BY <1>1, <1>3, <2>1, RotateIsLinear
<1>5. s[1] = {} /\ s[4] = s[2]
    BY <1>3, <1>4, SymDiffIsEmpty
<1>6. s[2] = state2 /\ state2 = s[3]
    BY <1>3, <1>5, SymDiffIsEmpty DEF SymDiff
<1>7. s[2] = ShiftLeft(s[2], b.shift, n)
    BY <1>3, <1>6, SymDiffIsEmpty
<1>8. s[2] = {}
    BY <1>1, <1>2, <1>7, ShiftedWordDiffers
<1>9. \A i \in 1 .. 4 : s[i] = {}
    BY <1>5, <1>6, <1>8
<1>. QED  BY <1>9 DEF States, ZeroState

\* Two generators of one build that are in different states stay in different
\* states, draw by draw, and one that is not in the zero state stays out of it:
\* randy_detail_next_native is one to one.
THEOREM DrawIsOneToOne ==
    ASSUME NEW b \in Builds, NEW s \in States(b), NEW t \in States(b),
           NextState(b, s) = NextState(b, t)
    PROVE  s = t
<1>1. Xor(s, t) \in States(b)
    BY SymDiffIsWord DEF Xor, States
<1>2. NextState(b, Xor(s, t)) = Xor(NextState(b, s), NextState(b, t))
    BY DrawIsLinear
<1>3. \A x : Xor(x, x) = ZeroState
    BY SymDiffIsEmpty DEF Xor, ZeroState
<1>4. Xor(s, t) = ZeroState
    BY <1>1, <1>2, <1>3, OnlyZeroGivesZero
<1>5. \A i \in 1 .. 4 : s[i] = t[i]
    BY <1>4, SymDiffIsEmpty DEF Xor, ZeroState
<1>. QED  BY <1>5 DEF States

\* A state drawn is a state.
LEMMA DrawIsState ==
    ASSUME NEW b \in Builds, NEW s \in States(b)
    PROVE  NextState(b, s) \in States(b)
<1>. DEFINE W      == Positions(b.bits)
            state2 == SymDiff(s[3], s[1])
            state3 == SymDiff(s[4], s[2])
            state1 == SymDiff(s[2], state2)
            state0 == SymDiff(s[1], state3)
            last2  == SymDiff(state2, ShiftLeft(s[2], b.shift, b.bits))
            last3  == RotateLeft(state3, b.rotate, b.bits)
<1>1. b.bits \in Nat \ {0} /\ b.shift \in Nat /\ b.rotate \in Nat
    BY BuildsAssumption
<1>2. s[1] \in SUBSET W /\ s[2] \in SUBSET W /\ s[3] \in SUBSET W /\ s[4] \in SUBSET W
    BY DEF States
<1>3. /\ state2 \in SUBSET W /\ state3 \in SUBSET W
      /\ state1 \in SUBSET W /\ state0 \in SUBSET W
    <2>. HIDE DEF W
    <2>1. state2 \in SUBSET W /\ state3 \in SUBSET W
        BY <1>2, SymDiffIsWord
    <2>. HIDE DEF state2, state3
    <2>. QED  BY <1>2, <2>1, SymDiffIsWord
<1>4. ShiftLeft(s[2], b.shift, b.bits) \in SUBSET W
    <2>1. \A position \in s[2] : position \in Nat
        BY <1>1, <1>2 DEF Positions
    <2>. QED  BY <1>1, <2>1 DEF ShiftLeft, Positions
<1>5. last2 \in SUBSET W
    <2>. HIDE DEF W, state2
    <2>. QED  BY <1>3, <1>4, SymDiffIsWord
<1>6. last3 \in SUBSET W
    <2>1. ASSUME NEW position \in state3
          PROVE  ((position + b.rotate) % b.bits) \in W
        <3>1. position + b.rotate \in Nat
            BY <1>1, <1>3 DEF Positions
        <3>. DEFINE sum == position + b.rotate
        <3>. HIDE DEF sum
        <3>2. (sum % b.bits) \in 0 .. b.bits - 1
            BY <1>1, <3>1, Division DEF sum
        <3>. QED  BY <3>2 DEF sum, Positions
    <2>. HIDE DEF W, state3
    <2>. QED  BY <2>1 DEF RotateLeft
<1>7. NextState(b, s) = <<state0, state1, last2, last3>>
    BY DEF NextState
<1>. HIDE DEF W, state0, state1, last2, last3
<1>. QED  BY <1>3, <1>5, <1>6, <1>7 DEF States, W

\* A generator.
VARIABLES build, state

Engine == INSTANCE RandyEngine

\* A generator that is not in the zero state, from which every draw would be 0,
\* never gets there by drawing, however often it is drawn from (the assertion
\* of randy_detail_next_native).
THEOREM DrawsNeverReachZero ==
    /\ build \in Builds /\ state \in States(build)
    /\ Engine!NeverZero
    /\ [][Engine!Draw]_(Engine!vars)
    => []Engine!NeverZero
<1>. DEFINE Drawn == /\ build \in Builds /\ state \in States(build)
                     /\ Engine!NeverZero
<1>1. Engine!ZeroState = ZeroState
    BY DEF Engine!ZeroState, ZeroState
<1>2. ASSUME NEW b, NEW s PROVE Engine!NextState(b, s) = NextState(b, s)
    BY DEF Engine!NextState, NextState, Engine!ShiftLeft, ShiftLeft,
           Engine!RotateLeft, RotateLeft, Engine!SymDiff, SymDiff
<1>3. Drawn /\ [Engine!Draw]_(Engine!vars) => Drawn'
    <2>. SUFFICES ASSUME Drawn, [Engine!Draw]_(Engine!vars) PROVE Drawn'
        OBVIOUS
    <2>1. CASE UNCHANGED Engine!vars
        BY <2>1, <1>1 DEF Engine!vars, Engine!NeverZero
    <2>2. CASE Engine!Draw
        <3>1. build' = build /\ state' = NextState(build, state)
            BY <2>2, <1>2 DEF Engine!Draw
        <3>2. state' \in States(build)
            BY <3>1, DrawIsState
        <3>3. state' # ZeroState
            BY <3>1, <1>1, OnlyZeroGivesZero DEF Engine!NeverZero
        <3>. QED  BY <3>1, <3>2, <3>3, <1>1 DEF Engine!NeverZero
    <2>. QED  BY <2>1, <2>2
<1>4. Drawn => Engine!NeverZero
    OBVIOUS
<1>. QED  BY <1>3, <1>4, PTL

-----------------------------------------------------------------------------
(* Jumps                                                                   *)

\* The exclusive or of states, word by word.
LEMMA XorIsState ==
    ASSUME NEW b, NEW s \in States(b), NEW t \in States(b)
    PROVE  Xor(s, t) \in States(b)
BY SymDiffIsWord DEF Xor, States

\* A state that is added to itself is the zero state.
LEMMA XorOfAlike == \A x : Xor(x, x) = ZeroState
BY SymDiffIsEmpty DEF Xor, ZeroState

\* The sum of two sums, in another order.
LEMMA XorExchange ==
    ASSUME NEW q, NEW r, NEW s, NEW t
    PROVE  Xor(Xor(q, r), Xor(s, t)) = Xor(Xor(q, s), Xor(r, t))
<1>1. \A v, w, x, y :
        SymDiff(SymDiff(v, w), SymDiff(x, y)) = SymDiff(SymDiff(v, x), SymDiff(w, y))
    BY DEF SymDiff
<1>2. \A x, y : \A i \in 1 .. 4 : Xor(x, y)[i] = SymDiff(x[i], y[i])
    BY DEF Xor
<1>3. ASSUME NEW i \in 1 .. 4
      PROVE  SymDiff(Xor(q, r)[i], Xor(s, t)[i]) = SymDiff(Xor(q, s)[i], Xor(r, t)[i])
    <2>1. /\ Xor(q, r)[i] = SymDiff(q[i], r[i]) /\ Xor(s, t)[i] = SymDiff(s[i], t[i])
          /\ Xor(q, s)[i] = SymDiff(q[i], s[i]) /\ Xor(r, t)[i] = SymDiff(r[i], t[i])
        BY <1>2
    <2>. QED  BY <1>1, <2>1
<1>4. \A x, y : Xor(x, y) = [i \in 1 .. 4 |-> SymDiff(x[i], y[i])]
    BY DEF Xor
<1>. QED  BY <1>3, <1>4

\* Drawing does not change the zero state.
LEMMA ZeroGivesZero ==
    ASSUME NEW b \in Builds
    PROVE  NextState(b, ZeroState) = ZeroState
<1>1. ZeroState \in States(b) /\ NextState(b, ZeroState) \in States(b)
    BY DrawIsState DEF ZeroState, States
<1>2. NextState(b, Xor(ZeroState, ZeroState)) =
          Xor(NextState(b, ZeroState), NextState(b, ZeroState))
    BY <1>1, DrawIsLinear
<1>. QED  BY <1>2, XorOfAlike

\* The loop of randy_apply_jump, turn by turn.
Loop(b, s, table) ==
    LET loop[n \in 0 .. 4 * b.bits] ==
            IF n = 0 THEN [sum |-> ZeroState, state |-> s]
            ELSE LET before == loop[n - 1]
                 IN  [sum   |-> IF n - 1 \in table
                                THEN Xor(before.sum, before.state) ELSE before.sum,
                      state |-> NextState(b, before.state)]
    IN  loop

\* What turn n makes of what the turn before it left.
Turn(b, s, table, n, before) ==
    IF n = 0 THEN [sum |-> ZeroState, state |-> s]
    ELSE [sum   |-> IF n - 1 \in table
                    THEN Xor(before.sum, before.state) ELSE before.sum,
          state |-> NextState(b, before.state)]

\* There are results for so many turns, each made from the one before.
LoopEnds(b, s, table, last) ==
    \E f : f = [n \in 0 .. last |-> Turn(b, s, table, n, f[n - 1])]

\* Induction on the turns, for a set of numbers of turns.
LEMMA TurnByTurn ==
    ASSUME NEW last \in Nat, NEW S, 0 \in S,
           \A n \in 0 .. last - 1 : n \in S => n + 1 \in S
    PROVE  \A n \in 0 .. last : n \in S
<1>. DEFINE open == {n \in Nat : n <= last /\ n \notin S}
<1>. SUFFICES ASSUME open # {} PROVE FALSE
    OBVIOUS
<1>1. \E m \in open : \A k \in open : ~(<<k, m>> \in OpToRel(<, Nat))
    BY NatLessThanWellFounded, WFMin
<1>2. PICK m \in open : \A k \in open : ~(k < m)
    BY <1>1 DEF OpToRel
<1>3. m \notin S /\ m # 0 /\ m \in Nat /\ m <= last
    BY <1>2
<1>4. m - 1 \in 0 .. last - 1 /\ (m - 1) + 1 = m /\ m - 1 < m
    BY <1>3
<1>5. m - 1 \in S
    BY <1>2, <1>4
<1>. QED  BY <1>3, <1>4, <1>5

\* The loop can make any number of turns.
LEMMA LoopRuns ==
    ASSUME NEW b, NEW s, NEW table, NEW last \in Nat
    PROVE  LoopEnds(b, s, table, last)
<1>. DEFINE Runs(m) == \E f : f = [n \in 0 .. m |-> Turn(b, s, table, n, f[n - 1])]
<1>1. Runs(0)
    <2>. DEFINE first == [sum |-> ZeroState, state |-> s]
                f     == [n \in 0 .. 0 |-> first]
    <2>1. ASSUME NEW n \in 0 .. 0 PROVE Turn(b, s, table, n, f[n - 1]) = first
        BY DEF Turn
    <2>. HIDE DEF first
    <2>2. f = [n \in 0 .. 0 |-> Turn(b, s, table, n, f[n - 1])]
        BY <2>1
    <2>. QED  BY <2>2
<1>2. ASSUME NEW m \in Nat, Runs(m) PROVE Runs(m + 1)
    <2>1. PICK g : g = [n \in 0 .. m |-> Turn(b, s, table, n, g[n - 1])]
        BY <1>2
    <2>. DEFINE next == Turn(b, s, table, m + 1, g[m])
                f    == [n \in 0 .. m + 1 |-> IF n <= m THEN g[n] ELSE next]
    <2>2. ASSUME NEW n \in 0 .. m + 1 PROVE f[n] = Turn(b, s, table, n, f[n - 1])
        <3>1. CASE n = 0
            <4>1. f[0] = g[0]
                OBVIOUS
            <4>2. g[0] = Turn(b, s, table, 0, g[0 - 1])
                BY <2>1
            <4>. QED  BY <3>1, <4>1, <4>2 DEF Turn
        <3>2. CASE n \in 1 .. m
            <4>1. f[n] = g[n] /\ f[n - 1] = g[n - 1]
                BY <3>2
            <4>2. g[n] = Turn(b, s, table, n, g[n - 1])
                BY <2>1, <3>2
            <4>. QED  BY <4>1, <4>2
        <3>3. CASE n = m + 1
            <4>1. f[n] = next /\ f[n - 1] = g[m]
                BY <3>3
            <4>. QED  BY <3>3, <4>1
        <3>. QED  BY <3>1, <3>2, <3>3
    <2>3. f = [n \in 0 .. m + 1 |-> Turn(b, s, table, n, f[n - 1])]
        <3>1. f = [n \in 0 .. m + 1 |-> f[n]]
            OBVIOUS
        <3>. HIDE DEF f
        <3>. QED  BY <2>2, <3>1
    <2>. QED  BY <2>3
<1>. HIDE DEF Runs
<1>. DEFINE S == {m \in Nat : Runs(m)}
<1>3. 0 \in S /\ \A m \in 0 .. last - 1 : m \in S => m + 1 \in S
    BY <1>1, <1>2
<1>4. last \in 0 .. last
    OBVIOUS
<1>. HIDE DEF S
<1>5. last \in S
    BY <1>3, <1>4, TurnByTurn
<1>. QED  BY <1>5 DEF S, Runs, LoopEnds

\* The turns of the loop, and what randy_apply_jump takes from the last.
LEMMA LoopTurns ==
    ASSUME NEW b \in Builds, NEW s, NEW table
    PROVE  /\ \A n \in 0 .. 4 * b.bits :
                 Loop(b, s, table)[n] = Turn(b, s, table, n, Loop(b, s, table)[n - 1])
           /\ ApplyJump(b, s, table) = Loop(b, s, table)[4 * b.bits].sum
<1>. DEFINE last == 4 * b.bits
            f    == Loop(b, s, table)
<1>1. last \in Nat
    BY BuildsAssumption
<1>2. \E g : g = [n \in 0 .. last |-> Turn(b, s, table, n, g[n - 1])]
    <2>. HIDE DEF last
    <2>1. LoopEnds(b, s, table, last)
        BY <1>1, LoopRuns
    <2>. QED  BY <2>1, Zenon DEF LoopEnds
<1>3. f = [n \in 0 .. last |-> Turn(b, s, table, n, f[n - 1])]
    BY <1>2 DEF Loop, Turn
<1>4. ApplyJump(b, s, table) = f[last].sum
    BY DEF ApplyJump, Loop
<1>. HIDE DEF f, last
<1>5. ASSUME NEW n \in 0 .. last PROVE f[n] = Turn(b, s, table, n, f[n - 1])
    BY <1>3
<1>. QED  BY <1>4, <1>5 DEF f, last

\* What a turn makes of states is states, of the first and of any later turn.
LEMMA TurnsAreStates ==
    ASSUME NEW b \in Builds, NEW s \in States(b), NEW table
    PROVE  \A n \in 0 .. 4 * b.bits :
               /\ Loop(b, s, table)[n].sum \in States(b)
               /\ Loop(b, s, table)[n].state \in States(b)
<1>. DEFINE last == 4 * b.bits
            f    == Loop(b, s, table)
            S    == {n \in Nat : f[n].sum \in States(b) /\ f[n].state \in States(b)}
<1>1. last \in Nat
    BY BuildsAssumption
<1>2. \A n \in 0 .. last : f[n] = Turn(b, s, table, n, f[n - 1])
    BY LoopTurns
<1>. HIDE DEF f, last
<1>3. 0 \in S
    <2>1. f[0] = Turn(b, s, table, 0, f[0 - 1])
        BY <1>1, <1>2
    <2>2. f[0].sum = ZeroState /\ f[0].state = s
        BY <2>1 DEF Turn
    <2>. QED  BY <2>2 DEF ZeroState, States
<1>4. ASSUME NEW n \in 0 .. last - 1, n \in S PROVE n + 1 \in S
    <2>1. n + 1 \in 0 .. last /\ n + 1 # 0 /\ (n + 1) - 1 = n /\ n + 1 \in Nat
        BY <1>1
    <2>2. f[n + 1] = Turn(b, s, table, n + 1, f[n])
        BY <1>2, <2>1
    <2>3. /\ f[n + 1].sum = IF n \in table THEN Xor(f[n].sum, f[n].state) ELSE f[n].sum
          /\ f[n + 1].state = NextState(b, f[n].state)
        BY <2>1, <2>2 DEF Turn
    <2>4. f[n].sum \in States(b) /\ f[n].state \in States(b)
        BY <1>4
    <2>5. Xor(f[n].sum, f[n].state) \in States(b) /\ NextState(b, f[n].state) \in States(b)
        BY <2>4, DrawIsState, XorIsState
    <2>. QED  BY <2>1, <2>3, <2>4, <2>5
<1>. HIDE DEF S
<1>5. \A n \in 0 .. last : n \in S
    BY <1>1, <1>3, <1>4, TurnByTurn
<1>. QED  BY <1>5 DEF S, f, last

\* A jump is linear, as a draw is, whatever the table: the state after a jump
\* from the exclusive or of two states is the exclusive or of the states after
\* the jumps from them (randy_apply_jump).
THEOREM JumpIsLinear ==
    ASSUME NEW b \in Builds, NEW s \in States(b), NEW t \in States(b), NEW table
    PROVE  ApplyJump(b, Xor(s, t), table) =
               Xor(ApplyJump(b, s, table), ApplyJump(b, t, table))
<1>. DEFINE last == 4 * b.bits
            f    == Loop(b, s, table)
            g    == Loop(b, t, table)
            h    == Loop(b, Xor(s, t), table)
            S    == {n \in Nat : /\ h[n].sum = Xor(f[n].sum, g[n].sum)
                                  /\ h[n].state = Xor(f[n].state, g[n].state)}
<1>1. last \in Nat
    BY BuildsAssumption
<1>2. \A n \in 0 .. last : /\ f[n] = Turn(b, s, table, n, f[n - 1])
                             /\ g[n] = Turn(b, t, table, n, g[n - 1])
                             /\ h[n] = Turn(b, Xor(s, t), table, n, h[n - 1])
    BY LoopTurns
<1>3. \A n \in 0 .. last : /\ f[n].sum \in States(b) /\ f[n].state \in States(b)
                             /\ g[n].sum \in States(b) /\ g[n].state \in States(b)
    BY TurnsAreStates
<1>4. /\ ApplyJump(b, s, table) = f[last].sum
      /\ ApplyJump(b, t, table) = g[last].sum
      /\ ApplyJump(b, Xor(s, t), table) = h[last].sum
    BY LoopTurns
<1>. HIDE DEF f, g, h, last
<1>5. 0 \in S
    <2>1. /\ f[0] = Turn(b, s, table, 0, f[0 - 1])
          /\ g[0] = Turn(b, t, table, 0, g[0 - 1])
          /\ h[0] = Turn(b, Xor(s, t), table, 0, h[0 - 1])
        BY <1>1, <1>2
    <2>2. /\ f[0].sum = ZeroState /\ f[0].state = s
          /\ g[0].sum = ZeroState /\ g[0].state = t
          /\ h[0].sum = ZeroState /\ h[0].state = Xor(s, t)
        BY <2>1 DEF Turn
    <2>. QED  BY <2>2, XorOfAlike
<1>6. ASSUME NEW n \in 0 .. last - 1, n \in S PROVE n + 1 \in S
    <2>1. /\ n + 1 \in 0 .. last /\ n + 1 # 0 /\ (n + 1) - 1 = n
          /\ n + 1 \in Nat /\ n \in 0 .. last
        BY <1>1
    <2>2. /\ f[n + 1] = Turn(b, s, table, n + 1, f[n])
          /\ g[n + 1] = Turn(b, t, table, n + 1, g[n])
          /\ h[n + 1] = Turn(b, Xor(s, t), table, n + 1, h[n])
        BY <1>2, <2>1
    <2>3. /\ f[n + 1].sum = IF n \in table THEN Xor(f[n].sum, f[n].state) ELSE f[n].sum
          /\ f[n + 1].state = NextState(b, f[n].state)
          /\ g[n + 1].sum = IF n \in table THEN Xor(g[n].sum, g[n].state) ELSE g[n].sum
          /\ g[n + 1].state = NextState(b, g[n].state)
          /\ h[n + 1].sum = IF n \in table THEN Xor(h[n].sum, h[n].state) ELSE h[n].sum
          /\ h[n + 1].state = NextState(b, h[n].state)
        BY <2>1, <2>2 DEF Turn
    <2>4. /\ h[n].sum = Xor(f[n].sum, g[n].sum)
          /\ h[n].state = Xor(f[n].state, g[n].state)
        BY <1>6
    <2>5. h[n + 1].state = Xor(f[n + 1].state, g[n + 1].state)
        BY <1>3, <2>1, <2>3, <2>4, DrawIsLinear
    <2>6. Xor(h[n].sum, h[n].state) =
              Xor(Xor(f[n].sum, f[n].state), Xor(g[n].sum, g[n].state))
        BY <2>4, XorExchange
    <2>7. h[n + 1].sum = Xor(f[n + 1].sum, g[n + 1].sum)
        BY <2>3, <2>4, <2>6
    <2>. QED  BY <2>1, <2>5, <2>7
<1>. HIDE DEF S
<1>7. \A n \in 0 .. last : n \in S
    BY <1>1, <1>5, <1>6, TurnByTurn
<1>. QED  BY <1>1, <1>4, <1>7 DEF S

\* A jump and a draw can change places, whatever the table: a generator drawn
\* from and then jumped with is in the state of one jumped with and then drawn
\* from, so that the two streams keep their distance (randy_apply_jump,
\* randy_detail_next_native).
THEOREM JumpCommutesWithDraw ==
    ASSUME NEW b \in Builds, NEW s \in States(b), NEW table
    PROVE  ApplyJump(b, NextState(b, s), table) = NextState(b, ApplyJump(b, s, table))
<1>. DEFINE last == 4 * b.bits
            f    == Loop(b, s, table)
            h    == Loop(b, NextState(b, s), table)
            S    == {n \in Nat : /\ h[n].sum = NextState(b, f[n].sum)
                                  /\ h[n].state = NextState(b, f[n].state)}
<1>1. last \in Nat
    BY BuildsAssumption
<1>2. \A n \in 0 .. last : /\ f[n] = Turn(b, s, table, n, f[n - 1])
                             /\ h[n] = Turn(b, NextState(b, s), table, n, h[n - 1])
    BY LoopTurns
<1>3. \A n \in 0 .. last : f[n].sum \in States(b) /\ f[n].state \in States(b)
    BY TurnsAreStates
<1>4. /\ ApplyJump(b, s, table) = f[last].sum
      /\ ApplyJump(b, NextState(b, s), table) = h[last].sum
    BY LoopTurns
<1>. HIDE DEF f, h, last
<1>5. 0 \in S
    <2>1. /\ f[0] = Turn(b, s, table, 0, f[0 - 1])
          /\ h[0] = Turn(b, NextState(b, s), table, 0, h[0 - 1])
        BY <1>1, <1>2
    <2>2. /\ f[0].sum = ZeroState /\ f[0].state = s
          /\ h[0].sum = ZeroState /\ h[0].state = NextState(b, s)
        BY <2>1 DEF Turn
    <2>. QED  BY <2>2, ZeroGivesZero
<1>6. ASSUME NEW n \in 0 .. last - 1, n \in S PROVE n + 1 \in S
    <2>1. /\ n + 1 \in 0 .. last /\ n + 1 # 0 /\ (n + 1) - 1 = n
          /\ n + 1 \in Nat /\ n \in 0 .. last
        BY <1>1
    <2>2. /\ f[n + 1] = Turn(b, s, table, n + 1, f[n])
          /\ h[n + 1] = Turn(b, NextState(b, s), table, n + 1, h[n])
        BY <1>2, <2>1
    <2>3. /\ f[n + 1].sum = IF n \in table THEN Xor(f[n].sum, f[n].state) ELSE f[n].sum
          /\ f[n + 1].state = NextState(b, f[n].state)
          /\ h[n + 1].sum = IF n \in table THEN Xor(h[n].sum, h[n].state) ELSE h[n].sum
          /\ h[n + 1].state = NextState(b, h[n].state)
        BY <2>1, <2>2 DEF Turn
    <2>4. /\ h[n].sum = NextState(b, f[n].sum)
          /\ h[n].state = NextState(b, f[n].state)
        BY <1>6
    <2>5. NextState(b, Xor(f[n].sum, f[n].state)) =
              Xor(NextState(b, f[n].sum), NextState(b, f[n].state))
        BY <1>3, <2>1, DrawIsLinear
    <2>6. /\ h[n + 1].sum = NextState(b, f[n + 1].sum)
          /\ h[n + 1].state = NextState(b, f[n + 1].state)
        BY <2>3, <2>4, <2>5
    <2>. QED  BY <2>1, <2>6
<1>. HIDE DEF S
<1>7. \A n \in 0 .. last : n \in S
    BY <1>1, <1>5, <1>6, TurnByTurn
<1>. QED  BY <1>1, <1>4, <1>7 DEF S

=============================================================================
