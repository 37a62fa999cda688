------------------------------- MODULE TextProofs -------------------------------
(***************************************************************************)
(* The components that handle text: the string functions (string/cstr.c),  *)
(* for every size of a word and of the memory and every alphabet, and      *)
(* writing to the console (platform/linux/console.c and                    *)
(* platform/win32/console.c), for texts of every length.                   *)
(***************************************************************************)
EXTENDS CString, ConsoleWrite, SequenceTheorems, WellFoundedInduction, TLAPS

-----------------------------------------------------------------------------
(* Lengths                                                                 *)

\* A set of numbers that is not empty has a minimum.
LEMMA MinIsLeast ==
    ASSUME NEW S \in SUBSET Nat, S # {}
    PROVE  /\ Min(S) \in S
           /\ \A n \in S : Min(S) <= n
<1>1. \E n \in S : \A k \in S : ~(<<k, n>> \in OpToRel(<, Nat))
    BY NatLessThanWellFounded, WFMin
<1>2. PICK n \in S : \A k \in S : ~(k < n)
    BY <1>1 DEF OpToRel
<1>3. \E k \in S : \A other \in S : k <= other
    BY <1>2
<1>. QED  BY <1>3 DEF Min

\* The length of a string is where its first null is.
LEMMA LengthIsFirstNull ==
    ASSUME NEW m, NEW str \in Addresses, IsString(m, str)
    PROVE  /\ Length(m, str) \in Nat
           /\ str + Length(m, str) <= MemorySize
           /\ m[str + Length(m, str)] = NUL
           /\ \A i \in 0 .. Length(m, str) - 1 : m[str + i] # NUL
<1>. DEFINE nulls == {length \in 0 .. MemorySize - str : m[str + length] = NUL}
            least == Min(nulls)
<1>1. MemorySize \in Nat /\ str \in Nat /\ str <= MemorySize
    BY MemoryAssumption, WordAssumption DEF Word, Addresses
<1>2. nulls \in SUBSET Nat
    BY <1>1
<1>3. nulls # {}
    <2>1. PICK byte \in str .. MemorySize : m[byte] = NUL
        BY DEF IsString
    <2>2. byte - str \in 0 .. MemorySize - str /\ str + (byte - str) = byte
        BY <2>1, <1>1
    <2>. QED  BY <2>1, <2>2
<1>4. least \in nulls /\ \A n \in nulls : least <= n
    BY <1>2, <1>3, MinIsLeast
<1>5. Length(m, str) = least
    BY DEF Length
<1>. HIDE DEF least
<1>6. /\ least \in Nat
      /\ str + least <= MemorySize
      /\ m[str + least] = NUL
    BY <1>1, <1>4
<1>7. ASSUME NEW i \in 0 .. least - 1 PROVE m[str + i] # NUL
    <2>1. i \notin nulls
        BY <1>4, <1>6, <1>7
    <2>2. i \in 0 .. MemorySize - str
        BY <1>1, <1>6, <1>7
    <2>. QED  BY <2>1, <2>2
<1>. QED  BY <1>5, <1>6, <1>7

\* A first null that is found is where the length says.
LEMMA FirstNullIsLength ==
    ASSUME NEW m, NEW str \in Addresses, NEW n \in Nat, str + n <= MemorySize,
           m[str + n] = NUL, \A i \in 0 .. n - 1 : m[str + i] # NUL
    PROVE  /\ IsString(m, str)
           /\ Length(m, str) = n
<1>1. MemorySize \in Nat /\ str \in Nat
    BY MemoryAssumption, WordAssumption DEF Word, Addresses
<1>2. IsString(m, str)
    <2>1. str + n \in str .. MemorySize
        BY <1>1
    <2>. QED  BY <2>1 DEF IsString
<1>. DEFINE length == Length(m, str)
<1>3. /\ length \in Nat
      /\ m[str + length] = NUL
      /\ \A i \in 0 .. length - 1 : m[str + i] # NUL
    BY <1>2, LengthIsFirstNull
<1>. HIDE DEF length
<1>4. ~(length < n)
    <2>1. length < n => length \in 0 .. n - 1
        BY <1>3
    <2>. QED  BY <2>1, <1>3
<1>5. ~(n < length)
    <2>1. n < length => n \in 0 .. length - 1
        BY <1>3
    <2>. QED  BY <2>1, <1>3
<1>. QED  BY <1>2, <1>3, <1>4, <1>5 DEF length

-----------------------------------------------------------------------------
(* Strings                                                                 *)

\* A string is the sequence of the bytes before its first null.
LEMMA StringIsSequence ==
    ASSUME NEW m, NEW S, NEW str \in Addresses, IsString(m, str),
           \A byte \in Addresses : m[byte] \in S
    PROVE  /\ String(m, str) \in Seq(S)
           /\ Len(String(m, str)) = Length(m, str)
           /\ \A i \in 1 .. Length(m, str) : String(m, str)[i] = m[str + i - 1]
<1>. DEFINE length == Length(m, str)
            f      == [i \in 1 .. length |-> m[str + i - 1]]
<1>1. length \in Nat /\ str + length <= MemorySize
    BY LengthIsFirstNull
<1>2. MemorySize \in Nat /\ str \in Nat /\ str >= 1
    BY MemoryAssumption, WordAssumption DEF Word, Addresses
<1>3. String(m, str) = f
    BY DEF String
<1>. HIDE DEF length
<1>4. ASSUME NEW i \in 1 .. length PROVE m[str + i - 1] \in S
    BY <1>1, <1>2 DEF Addresses
<1>5. f \in [1 .. length -> S]
    BY <1>4
<1>6. f \in Seq(S) /\ Len(f) = length
    BY <1>1, <1>5, SeqDef, LenProperties
<1>. QED  BY <1>3, <1>6 DEF length

\* Bytes that spell a text and end with a null are that string.
LEMMA SpelledString ==
    ASSUME NEW m, NEW S, NEW str \in Addresses, NEW s \in Seq(S),
           str + Len(s) <= MemorySize,
           \A i \in 1 .. Len(s) : m[str + i - 1] = s[i] /\ s[i] # NUL,
           m[str + Len(s)] = NUL
    PROVE  /\ IsString(m, str)
           /\ String(m, str) = s
<1>. DEFINE n == Len(s)
<1>1. n \in Nat /\ str \in Nat
    BY MemoryAssumption, WordAssumption DEF Word, Addresses
<1>2. ASSUME NEW i \in 0 .. n - 1 PROVE m[str + i] # NUL
    <2>1. i + 1 \in 1 .. n /\ str + (i + 1) - 1 = str + i
        BY <1>1
    <2>. QED  BY <2>1
<1>3. IsString(m, str) /\ Length(m, str) = n
    <2>1. str + n <= MemorySize /\ m[str + n] = NUL
        OBVIOUS
    <2>. HIDE DEF n
    <2>. QED  BY <1>1, <1>2, <2>1, FirstNullIsLength
<1>4. String(m, str) = [i \in 1 .. n |-> s[i]]
    BY <1>3 DEF String
<1>5. s = [i \in 1 .. n |-> s[i]]
    BY LenProperties
<1>. QED  BY <1>3, <1>4, <1>5

\* Two strings are equal exactly when a comparison of the lengths and then of
\* the bytes finds no difference.
LEMMA StringsAreCompared ==
    ASSUME NEW m, NEW str_1 \in Addresses, NEW str_2 \in Addresses,
           IsString(m, str_1), IsString(m, str_2)
    PROVE  String(m, str_1) = String(m, str_2) <=>
              /\ Length(m, str_1) = Length(m, str_2)
              /\ \A i \in 0 .. Length(m, str_1) - 1 : m[str_1 + i] = m[str_2 + i]
<1>. DEFINE S      == {m[byte] : byte \in Addresses}
            length == Length(m, str_1)
            other  == Length(m, str_2)
            s      == String(m, str_1)
            t      == String(m, str_2)
<1>. \A byte \in Addresses : m[byte] \in S
    OBVIOUS
<1>. HIDE DEF S
<1>1. /\ length \in Nat
      /\ s \in Seq(S) /\ Len(s) = length
      /\ \A i \in 1 .. length : s[i] = m[str_1 + i - 1]
    BY LengthIsFirstNull, StringIsSequence
<1>2. /\ other \in Nat
      /\ t \in Seq(S) /\ Len(t) = other
      /\ \A i \in 1 .. other : t[i] = m[str_2 + i - 1]
    BY LengthIsFirstNull, StringIsSequence
<1>3. str_1 \in Nat /\ str_2 \in Nat
    BY MemoryAssumption, WordAssumption DEF Word, Addresses
<1>. HIDE DEF length, other, s, t
<1>4. ASSUME s = t, NEW i \in 0 .. length - 1 PROVE m[str_1 + i] = m[str_2 + i]
    <2>1. i + 1 \in 1 .. length /\ i + 1 \in 1 .. other
        BY <1>1, <1>2, <1>4
    <2>2. str_1 + (i + 1) - 1 = str_1 + i /\ str_2 + (i + 1) - 1 = str_2 + i
        BY <1>1, <1>3
    <2>. QED  BY <1>1, <1>2, <1>4, <2>1, <2>2
<1>5. ASSUME length = other, \A i \in 0 .. length - 1 : m[str_1 + i] = m[str_2 + i]
      PROVE  s = t
    <2>1. ASSUME NEW i \in 1 .. length PROVE s[i] = t[i]
        <3>1. /\ i - 1 \in 0 .. length - 1
              /\ str_1 + i - 1 = str_1 + (i - 1)
              /\ str_2 + i - 1 = str_2 + (i - 1)
            BY <1>1, <1>3
        <3>. QED  BY <1>1, <1>2, <1>5, <3>1
    <2>. QED  BY <1>1, <1>2, <1>5, <2>1, SeqEqual
<1>6. s = t => length = other
    BY <1>1, <1>2
<1>. QED  BY <1>4, <1>5, <1>6 DEF length, other, s, t

\* A destination is terminated within its capacity exactly when it is a string
\* that, with its null, fits there.
LEMMA TerminatedIsFits ==
    ASSUME NEW destination \in Addresses, NEW capacity \in Nat,
           destination + capacity <= MemorySize + 1
    PROVE  Terminated(destination, capacity) <=>
              /\ IsString(memory, destination)
              /\ Fits(Length(memory, destination), capacity)
<1>1. MemorySize \in Nat /\ destination \in Nat
    BY MemoryAssumption, WordAssumption DEF Word, Addresses
<1>. DEFINE length == Length(memory, destination)
<1>2. ASSUME Terminated(destination, capacity)
      PROVE  IsString(memory, destination) /\ length < capacity
    <2>1. PICK byte \in destination .. destination + capacity - 1 : memory[byte] = NUL
        BY <1>2 DEF Terminated
    <2>2. IsString(memory, destination)
        BY <1>1, <2>1 DEF IsString
    <2>3. /\ length \in Nat
          /\ \A i \in 0 .. length - 1 : memory[destination + i] # NUL
        BY <2>2, LengthIsFirstNull
    <2>. HIDE DEF length
    <2>4. destination + (byte - destination) = byte
        BY <1>1, <2>1
    <2>5. byte - destination \notin 0 .. length - 1
        BY <2>1, <2>3, <2>4
    <2>. QED  BY <1>1, <2>1, <2>2, <2>3, <2>5
<1>3. ASSUME IsString(memory, destination), length < capacity
      PROVE  Terminated(destination, capacity)
    <2>1. /\ length \in Nat
          /\ memory[destination + length] = NUL
        BY <1>3, LengthIsFirstNull
    <2>. HIDE DEF length
    <2>2. destination + length \in destination .. destination + capacity - 1
        BY <1>1, <1>3, <2>1
    <2>. QED  BY <2>1, <2>2 DEF Terminated
<1>. QED  BY <1>2, <1>3 DEF Fits

\* What memmove leaves, byte by byte: the source as it was, at the destination,
\* although the two may share bytes.
LEMMA MovedBytes ==
    ASSUME NEW destination \in Addresses, NEW source \in Addresses, NEW size \in Nat,
           destination + size <= MemorySize + 1
    PROVE  LET after == Moved(destination, source, size)
           IN  /\ \A i \in 0 .. size - 1 : after[destination + i] = memory[source + i]
               /\ \A byte \in Addresses \ (destination .. destination + size - 1) :
                     after[byte] = memory[byte]
<1>1. MemorySize \in Nat /\ destination \in Nat /\ source \in Nat /\ destination >= 1
    BY MemoryAssumption, WordAssumption DEF Word, Addresses
<1>. DEFINE after == Moved(destination, source, size)
<1>2. ASSUME NEW i \in 0 .. size - 1 PROVE after[destination + i] = memory[source + i]
    <2>1. /\ destination + i \in Addresses
          /\ destination + i \in destination .. destination + size - 1
          /\ source + ((destination + i) - destination) = source + i
        BY <1>1 DEF Addresses
    <2>. QED  BY <2>1 DEF Moved
<1>3. ASSUME NEW byte \in Addresses \ (destination .. destination + size - 1)
      PROVE  after[byte] = memory[byte]
    BY DEF Moved
<1>. QED  BY <1>2, <1>3

-----------------------------------------------------------------------------
(* Calls                                                                   *)

\* What a call of cstr_copy or cstr_append tells.
LEMMA AnswerIsRecord ==
    ASSUME NEW name, NEW destination, NEW capacity, NEW source, NEW returned, NEW length,
           Writes(name, destination, capacity, source, returned, length)
    PROVE  /\ call'.name = name
           /\ call'.destination = destination
           /\ call'.capacity = capacity
           /\ call'.source = source
           /\ call'.returned = returned
           /\ call'.length = length
BY DEF Writes

\* The arguments with which the program calls cstr_copy and cstr_append: they
\* are words, and neither is NULL if they are given.
LEMMA GivenArguments ==
    ASSUME NEW destination \in Pointers, NEW source \in Pointers,
           NEW capacity \in 0 .. MemorySize,
           MayBeDestination(destination, capacity), MayBeSource(source),
           Given(destination, capacity, source)
    PROVE  /\ destination \in Addresses
           /\ source \in Addresses
           /\ capacity \in Nat
           /\ destination + capacity <= MemorySize + 1
           /\ IsString(memory, source)
<1>1. MemorySize \in Nat
    BY MemoryAssumption, WordAssumption DEF Word
<1>. QED  BY <1>1 DEF Pointers, Given, MayBeDestination, MayBeSource

\* What cstr_copy does, and what it tells of it.
LEMMA CopyIsRight ==
    ASSUME NEW destination \in Pointers, NEW source \in Pointers,
           NEW capacity \in 0 .. MemorySize, Copy(destination, capacity, source),
           Given(destination, capacity, source)
    PROVE  /\ call'.returned = (Length(memory, source) + 1 <= capacity)
           /\ call'.length = Length(memory, source)
           /\ ~call'.returned => memory' = memory
           /\ call'.returned =>
                 /\ IsString(memory', destination)
                 /\ String(memory', destination) = String(memory, source)
                 /\ \A byte \in Addresses :
                       byte \notin destination .. destination + Len(String(memory, source)) =>
                          memory'[byte] = memory[byte]
<1>. DEFINE n == Length(memory, source)
            s == String(memory, source)
            S == {memory[byte] : byte \in Addresses}
<1>1. /\ destination \in Addresses /\ source \in Addresses
      /\ capacity \in Nat /\ destination + capacity <= MemorySize + 1
      /\ IsString(memory, source)
    BY GivenArguments DEF Copy
<1>2. /\ n \in Nat
      /\ memory[source + n] = NUL
      /\ \A i \in 0 .. n - 1 : memory[source + i] # NUL
    BY <1>1, LengthIsFirstNull
<1>3. MemorySize \in Nat /\ destination \in Nat /\ source \in Nat
    BY <1>1, MemoryAssumption, WordAssumption DEF Word, Addresses
<1>4. CASE ~Fits(n, capacity)
    <2>1. /\ Writes("copy", destination, capacity, source, FALSE, n)
          /\ memory' = memory
        BY <1>4 DEF Copy
    <2>2. ~(n + 1 <= capacity)
        BY <1>1, <1>2, <1>4 DEF Fits
    <2>3. call'.returned = FALSE /\ call'.length = n
        BY <2>1, AnswerIsRecord
    <2>. HIDE DEF n
    <2>4. call'.returned = (n + 1 <= capacity) /\ ~call'.returned
        <3>1. (n + 1 <= capacity) = FALSE
            BY <2>2
        <3>. QED  BY <2>3, <3>1, Zenon
    <2>. QED  BY <2>1, <2>3, <2>4 DEF n
<1>5. CASE Fits(n, capacity)
    <2>1. /\ Writes("copy", destination, capacity, source, TRUE, n)
          /\ memory' = Moved(destination, source, n + 1)
        BY <1>5 DEF Copy
    <2>2. /\ call'.returned = TRUE
          /\ call'.length = n
        BY <2>1, AnswerIsRecord
    <2>3. n + 1 <= capacity /\ destination + (n + 1) <= MemorySize + 1
        BY <1>1, <1>2, <1>3, <1>5 DEF Fits
    <2>4. s \in Seq(S) /\ Len(s) = n /\ \A i \in 1 .. n : s[i] = memory[source + i - 1]
        <3>1. \A byte \in Addresses : memory[byte] \in S
            OBVIOUS
        <3>. HIDE DEF S
        <3>. QED  BY <1>1, <3>1, StringIsSequence
    <2>. HIDE DEF n, s, S
    <2>5. /\ \A i \in 0 .. (n + 1) - 1 : memory'[destination + i] = memory[source + i]
          /\ \A byte \in Addresses \ (destination .. destination + (n + 1) - 1) :
                memory'[byte] = memory[byte]
        <3>1. n + 1 \in Nat
            BY <1>2
        <3>. QED  BY <1>1, <2>1, <2>3, <3>1, MovedBytes
    <2>6. ASSUME NEW i \in 1 .. Len(s)
          PROVE  memory'[destination + i - 1] = s[i] /\ s[i] # NUL
        <3>1. /\ i - 1 \in 0 .. (n + 1) - 1 /\ i - 1 \in 0 .. n - 1 /\ i \in 1 .. n
              /\ destination + i - 1 = destination + (i - 1)
              /\ source + i - 1 = source + (i - 1)
            BY <1>2, <1>3, <2>4
        <3>. QED  BY <1>2, <2>4, <2>5, <3>1
    <2>7. memory'[destination + Len(s)] = NUL
        <3>1. n \in 0 .. (n + 1) - 1
            BY <1>2
        <3>. QED  BY <1>2, <2>4, <2>5, <3>1
    <2>8. destination + Len(s) <= MemorySize
        BY <1>2, <1>3, <2>3, <2>4
    <2>9. IsString(memory', destination) /\ String(memory', destination) = s
        BY <1>1, <2>4, <2>6, <2>7, <2>8, SpelledString
    <2>10. destination + Len(s) = destination + (n + 1) - 1
        BY <1>2, <1>3, <2>4
    <2>. QED  BY <2>2, <2>3, <2>5, <2>9, <2>10 DEF n, s
<1>. QED  BY <1>4, <1>5

\* What cstr_append does to strings whose lengths have a sum that is a word,
\* and what it tells of it.
LEMMA AppendIsRight ==
    ASSUME NEW destination \in Pointers, NEW source \in Pointers,
           NEW capacity \in 0 .. MemorySize, AppendTo(destination, capacity, source),
           Given(destination, capacity, source), Terminated(destination, capacity),
           SumFits(Length(memory, destination), Length(memory, source))
    PROVE  LET wanted == String(memory, destination) \o String(memory, source)
           IN  /\ Len(wanted) = Length(memory, destination) + Length(memory, source)
               /\ Len(wanted) \in Word
               /\ call'.returned = (Len(wanted) + 1 <= capacity)
               /\ call'.length = Len(wanted)
               /\ ~call'.returned => memory' = memory
               /\ call'.returned =>
                     /\ IsString(memory', destination)
                     /\ String(memory', destination) = wanted
                     /\ \A byte \in Addresses :
                           byte \notin destination .. destination + Len(wanted) =>
                              memory'[byte] = memory[byte]
<1>. DEFINE end    == Length(memory, destination)
            added  == Length(memory, source)
            front  == String(memory, destination)
            back   == String(memory, source)
            wanted == front \o back
            length == end + added
            S      == {memory[byte] : byte \in Addresses}
<1>1. /\ destination \in Addresses /\ source \in Addresses
      /\ capacity \in Nat /\ destination + capacity <= MemorySize + 1
      /\ IsString(memory, source)
    BY GivenArguments DEF AppendTo
<1>2. /\ MemorySize \in Nat /\ destination \in Nat /\ source \in Nat
      /\ WordMod \in Nat /\ WordMod > 1
    BY <1>1, MemoryAssumption, WordAssumption DEF Word, Addresses
<1>3. IsString(memory, destination)
    BY <1>1, TerminatedIsFits
<1>4. /\ end \in Nat
      /\ \A i \in 0 .. end - 1 : memory[destination + i] # NUL
    BY <1>1, <1>3, LengthIsFirstNull
<1>5. /\ added \in Nat
      /\ memory[source + added] = NUL
      /\ \A i \in 0 .. added - 1 : memory[source + i] # NUL
    BY <1>1, LengthIsFirstNull
<1>6. /\ front \in Seq(S) /\ Len(front) = end
      /\ \A i \in 1 .. end : front[i] = memory[destination + i - 1]
      /\ back \in Seq(S) /\ Len(back) = added
      /\ \A i \in 1 .. added : back[i] = memory[source + i - 1]
    <2>1. \A byte \in Addresses : memory[byte] \in S
        OBVIOUS
    <2>. HIDE DEF S
    <2>. QED  BY <1>1, <1>3, <2>1, StringIsSequence
<1>7. length \in Word /\ length % WordMod = length
    <2>1. length < WordMod /\ length \in Nat
        BY <1>2, <1>4, <1>5 DEF SumFits, WordMax
    <2>. HIDE DEF length
    <2>2. length % WordMod = length
        BY <1>2, <2>1, Z3
    <2>. QED  BY <1>2, <2>1, <2>2 DEF Word
<1>. HIDE DEF S, front, back
<1>8. /\ wanted \in Seq(S)
      /\ Len(wanted) = length
      /\ \A i \in 1 .. end : wanted[i] = front[i]
      /\ \A i \in 1 .. added : wanted[end + i] = back[i]
    <2>. HIDE DEF end, added
    <2>1. wanted \in Seq(S) /\ Len(wanted) = end + added
        BY <1>6, ConcatProperties
    <2>2. \A i \in 1 .. end : wanted[i] = front[i]
        BY <1>4, <1>5, <1>6
    <2>3. ASSUME NEW i \in 1 .. added PROVE wanted[end + i] = back[i]
        <3>1. /\ end + i \in 1 .. Len(front) + Len(back)
              /\ end + i > Len(front)
              /\ (end + i) - Len(front) = i
            BY <1>4, <1>5, <1>6
        <3>. QED  BY <1>6, <3>1
    <2>. QED  BY <2>1, <2>2, <2>3
<1>9. CASE ~Fits(length, capacity)
    <2>1. /\ Writes("append", destination, capacity, source, FALSE, length)
          /\ memory' = memory
        BY <1>7, <1>9 DEF AppendTo
    <2>2. ~(length + 1 <= capacity)
        BY <1>1, <1>4, <1>5, <1>9 DEF Fits
    <2>3. call'.returned = FALSE /\ call'.length = length
        BY <2>1, AnswerIsRecord
    <2>. HIDE DEF end, added, wanted
    <2>4. call'.returned = (Len(wanted) + 1 <= capacity) /\ ~call'.returned
        <3>1. (Len(wanted) + 1 <= capacity) = FALSE
            BY <1>8, <2>2
        <3>. QED  BY <2>3, <3>1, Zenon
    <2>. QED  BY <1>7, <1>8, <2>1, <2>3, <2>4 DEF end, added, front, back, wanted
<1>10. CASE Fits(length, capacity)
    <2>1. /\ Writes("append", destination, capacity, source, TRUE, length)
          /\ memory' = Moved(destination + end, source, added + 1)
        BY <1>7, <1>10 DEF AppendTo
    <2>2. call'.returned = TRUE /\ call'.length = length
        BY <2>1, AnswerIsRecord
    <2>. HIDE DEF end, added, wanted
    <2>3. /\ length + 1 <= capacity
          /\ destination + end \in Addresses
          /\ (destination + end) + (added + 1) <= MemorySize + 1
          /\ added + 1 \in Nat
        BY <1>1, <1>2, <1>4, <1>5, <1>10 DEF Fits, Addresses
    <2>4. /\ \A i \in 0 .. (added + 1) - 1 :
                memory'[(destination + end) + i] = memory[source + i]
          /\ \A byte \in Addresses \ (destination + end .. (destination + end) + (added + 1) - 1) :
                memory'[byte] = memory[byte]
        BY <1>1, <2>1, <2>3, MovedBytes
    <2>5. ASSUME NEW i \in 1 .. Len(wanted)
          PROVE  memory'[destination + i - 1] = wanted[i] /\ wanted[i] # NUL
        <3>1. CASE i <= end
            <4>1. /\ i \in 1 .. end /\ i - 1 \in 0 .. end - 1
                  /\ destination + i - 1 = destination + (i - 1)
                  /\ destination + i - 1 \in Addresses
                  /\ destination + i - 1 < destination + end
                BY <1>1, <1>2, <1>4, <1>5, <1>8, <2>3, <3>1 DEF Addresses
            <4>2. memory'[destination + i - 1] = memory[destination + i - 1]
                BY <1>2, <1>4, <2>4, <4>1
            <4>. QED  BY <1>4, <1>6, <1>8, <4>1, <4>2
        <3>2. CASE i > end
            <4>. DEFINE j == i - end
            <4>1. /\ j \in 1 .. added /\ j - 1 \in 0 .. added - 1
                  /\ j - 1 \in 0 .. (added + 1) - 1
                  /\ i = end + j
                  /\ destination + i - 1 = (destination + end) + (j - 1)
                  /\ source + j - 1 = source + (j - 1)
                BY <1>2, <1>4, <1>5, <1>8, <3>2
            <4>. HIDE DEF j
            <4>2. memory'[destination + i - 1] = memory[source + (j - 1)]
                BY <2>4, <4>1
            <4>. QED  BY <1>5, <1>6, <1>8, <4>1, <4>2
        <3>. QED  BY <1>4, <3>1, <3>2
    <2>6. memory'[destination + Len(wanted)] = NUL
        <3>1. /\ added \in 0 .. (added + 1) - 1
              /\ destination + Len(wanted) = (destination + end) + added
            BY <1>2, <1>4, <1>5, <1>8
        <3>. QED  BY <1>5, <2>4, <3>1
    <2>7. destination + Len(wanted) <= MemorySize
        BY <1>2, <1>4, <1>5, <1>8, <2>3
    <2>8. IsString(memory', destination) /\ String(memory', destination) = wanted
        BY <1>1, <1>8, <2>5, <2>6, <2>7, SpelledString
    <2>9. ASSUME NEW byte \in Addresses, byte \notin destination .. destination + Len(wanted)
          PROVE  memory'[byte] = memory[byte]
        <3>1. byte \notin destination + end .. (destination + end) + (added + 1) - 1
            BY <1>2, <1>4, <1>5, <1>8, <2>9
        <3>. QED  BY <2>4, <3>1
    <2>. QED  BY <1>7, <1>8, <2>2, <2>3, <2>8, <2>9 DEF end, added, front, back, wanted
<1>. QED  BY <1>9, <1>10

\* A step that is a call of cstr_copy or cstr_append.
LEMMA WriteIsCall ==
    ASSUME [Next]_vars, IsWrite
    PROVE  \E destination, source \in Pointers, capacity \in 0 .. MemorySize :
              Copy(destination, capacity, source) \/ AppendTo(destination, capacity, source)
<1>1. call = NoCall /\ call'.name \in {"copy", "append"}
    BY DEF IsWrite
<1>2. call' # NoCall
    BY <1>1 DEF NoCall
<1>3. ~UNCHANGED vars /\ ~Continue
    BY <1>1, <1>2 DEF vars, Continue
<1>4. ASSUME NEW str_1, NEW str_2, Compare(str_1, str_2) PROVE FALSE
    BY <1>1, <1>4 DEF Compare
<1>. QED  BY <1>3, <1>4 DEF Next

\* A call of cstr_copy or cstr_append with a NULL or no capacity, or of
\* cstr_append to what is no string or to lengths whose sum is no word.
LEMMA RefusedIsTold ==
    ASSUME NEW destination, NEW source, NEW capacity,
           \/ /\ Copy(destination, capacity, source)
              /\ ~Given(destination, capacity, source)
           \/ /\ AppendTo(destination, capacity, source)
              /\ ~(/\ Given(destination, capacity, source)
                   /\ Terminated(destination, capacity)
                   /\ SumFits(Length(memory, destination), Length(memory, source)))
    PROVE  call'.returned = FALSE /\ call'.length = 0 /\ memory' = memory
<1>1. CASE Copy(destination, capacity, source) /\ ~Given(destination, capacity, source)
    <2>1. /\ Writes("copy", destination, capacity, source, FALSE, 0)
          /\ memory' = memory
        BY <1>1 DEF Copy
    <2>. QED  BY <2>1, AnswerIsRecord
<1>2. CASE /\ AppendTo(destination, capacity, source)
           /\ ~(/\ Given(destination, capacity, source)
                /\ Terminated(destination, capacity)
                /\ SumFits(Length(memory, destination), Length(memory, source)))
    <2>1. /\ Writes("append", destination, capacity, source, FALSE, 0)
          /\ memory' = memory
        BY <1>2 DEF AppendTo
    <2>. QED  BY <2>1, AnswerIsRecord
<1>. QED  BY <1>1, <1>2

\* The arguments of a call are what it was called with.
LEMMA CallNamesArguments ==
    ASSUME NEW destination, NEW source, NEW capacity
    PROVE  /\ Copy(destination, capacity, source) =>
                 call'.name = "copy" /\ call'.destination = destination
                 /\ call'.capacity = capacity /\ call'.source = source
           /\ AppendTo(destination, capacity, source) =>
                 call'.name = "append" /\ call'.destination = destination
                 /\ call'.capacity = capacity /\ call'.source = source
<1>1. ASSUME Copy(destination, capacity, source)
      PROVE  \E returned, length :
                Writes("copy", destination, capacity, source, returned, length)
    BY <1>1 DEF Copy
<1>2. ASSUME AppendTo(destination, capacity, source)
      PROVE  \E returned, length :
                Writes("append", destination, capacity, source, returned, length)
    BY <1>2 DEF AppendTo
<1>. QED  BY <1>1, <1>2, AnswerIsRecord

-----------------------------------------------------------------------------
(* Theorems on cstr.c                                                      *)

\* A call of cstr_copy or cstr_append that succeeds leaves the string it is to
\* leave, made of what both strings were before, also if they share bytes, and
\* touches no byte outside that string and its null; one that fails touches
\* nothing.
THEOREM StringIsWritten == Spec => WritesTheString
<1>. DEFINE Written ==
        IsWrite =>
            IF ~call'.returned THEN memory' = memory
            ELSE LET first == call'.destination
                     wanted == Intended(memory, call')
                 IN  /\ IsString(memory', first)
                     /\ String(memory', first) = wanted
                     /\ \A byte \in Addresses \ (first .. first + Len(wanted)) :
                            memory'[byte] = memory[byte]
<1>1. ASSUME [Next]_vars PROVE Written
    <2>. SUFFICES ASSUME IsWrite, call'.returned # FALSE \/ memory' # memory
                  PROVE  Written
        BY DEF IsWrite
    <2>1. PICK destination \in Pointers, source \in Pointers, capacity \in 0 .. MemorySize :
             Copy(destination, capacity, source) \/ AppendTo(destination, capacity, source)
        BY <1>1, WriteIsCall
    <2>2. CASE Copy(destination, capacity, source)
        <3>1. Given(destination, capacity, source)
            BY <2>2, RefusedIsTold
        <3>2. call'.name = "copy" /\ call'.destination = destination
              /\ call'.source = source
            BY <2>2, CallNamesArguments
        <3>3. Intended(memory, call') = String(memory, source)
            BY <3>2 DEF Intended
        <3>. QED  BY <2>2, <3>1, <3>2, <3>3, CopyIsRight
    <2>3. CASE AppendTo(destination, capacity, source)
        <3>1. /\ Given(destination, capacity, source)
              /\ Terminated(destination, capacity)
              /\ SumFits(Length(memory, destination), Length(memory, source))
            BY <2>3, RefusedIsTold
        <3>2. call'.name = "append" /\ call'.destination = destination
              /\ call'.source = source
            BY <2>3, CallNamesArguments
        <3>3. Intended(memory, call') = String(memory, destination) \o String(memory, source)
            BY <3>2 DEF Intended
        <3>. QED  BY <2>3, <3>1, <3>2, <3>3, AppendIsRight
    <2>. QED  BY <2>1, <2>2, <2>3
<1>. QED  BY <1>1, PTL DEF Spec, WritesTheString

\* A call of cstr_copy or cstr_append succeeds exactly when the string and its
\* null fit in the capacity, and tells the length that was wanted also when it
\* fails; cstr_compare finds two strings equal exactly when they are.
THEOREM CallsReportTruly == Spec => ReportsTruly
<1>. DEFINE Told ==
        IsWrite =>
            IF AreStrings(memory, call')
            THEN LET length == Len(Intended(memory, call'))
                 IN  /\ call'.returned = (length + 1 <= call'.capacity)
                     /\ call'.length = IF length \in Word THEN length ELSE 0
            ELSE ~call'.returned /\ call'.length = 0
            Compared ==
        call'.name = "compare" =>
            call'.returned = /\ NullAddress \notin {call'.str_1, call'.str_2}
                             /\ String(memory, call'.str_1) = String(memory, call'.str_2)
<1>1. MemorySize \in Nat /\ WordMod \in Nat /\ MemorySize < WordMod
    BY MemoryAssumption, WordAssumption DEF Word
<1>2. ASSUME [Next]_vars, IsWrite PROVE Told
    <2>1. PICK destination \in Pointers, source \in Pointers, capacity \in 0 .. MemorySize :
             Copy(destination, capacity, source) \/ AppendTo(destination, capacity, source)
        BY <1>2, WriteIsCall
    <2>2. CASE Copy(destination, capacity, source)
        <3>1. call'.name = "copy" /\ call'.destination = destination
              /\ call'.capacity = capacity /\ call'.source = source
            BY <2>2, CallNamesArguments
        <3>2. AreStrings(memory, call') <=> Given(destination, capacity, source)
            BY <3>1 DEF AreStrings
        <3>3. CASE ~Given(destination, capacity, source)
            BY <2>2, <3>2, <3>3, RefusedIsTold
        <3>4. CASE Given(destination, capacity, source)
            <4>. DEFINE length == Length(memory, source)
            <4>1. /\ source \in Addresses /\ IsString(memory, source)
                BY <2>2, <3>4, GivenArguments DEF Copy
            <4>2. length \in Nat /\ source + length <= MemorySize
                BY <4>1, LengthIsFirstNull
            <4>3. Len(Intended(memory, call')) = length
                <5>1. \A byte \in Addresses : memory[byte] \in {memory[a] : a \in Addresses}
                    OBVIOUS
                <5>. QED  BY <3>1, <4>1, <5>1, StringIsSequence DEF Intended
            <4>4. /\ call'.returned = (length + 1 <= capacity)
                  /\ call'.length = length
                BY <2>2, <3>4, CopyIsRight
            <4>. HIDE DEF length
            <4>5. length \in Word
                BY <1>1, <4>1, <4>2 DEF Word, Addresses
            <4>. QED  BY <3>1, <3>2, <3>4, <4>3, <4>4, <4>5
        <3>. QED  BY <3>3, <3>4
    <2>3. CASE AppendTo(destination, capacity, source)
        <3>. DEFINE end    == Length(memory, destination)
                    added  == Length(memory, source)
                    wanted == String(memory, destination) \o String(memory, source)
        <3>1. call'.name = "append" /\ call'.destination = destination
              /\ call'.capacity = capacity /\ call'.source = source
            BY <2>3, CallNamesArguments
        <3>2. Intended(memory, call') = wanted
            BY <3>1 DEF Intended
        <3>3. CASE ~Given(destination, capacity, source)
            <4>1. ~AreStrings(memory, call')
                BY <3>1, <3>3 DEF AreStrings
            <4>. QED  BY <2>3, <3>3, <4>1, RefusedIsTold
        <3>4. CASE Given(destination, capacity, source)
            <4>1. /\ destination \in Addresses /\ source \in Addresses
                  /\ capacity \in Nat
                  /\ destination + capacity <= MemorySize + 1
                  /\ IsString(memory, source)
                BY <2>3, <3>4, GivenArguments DEF AppendTo
            <4>2. AreStrings(memory, call') <=> Terminated(destination, capacity)
                <5>1. AreStrings(memory, call') <=>
                         IsString(memory, destination) /\ Fits(end, capacity)
                    BY <3>1, <3>4 DEF AreStrings
                <5>. QED  BY <4>1, <5>1, TerminatedIsFits
            <4>3. CASE ~Terminated(destination, capacity)
                BY <2>3, <4>2, <4>3, RefusedIsTold
            <4>4. CASE Terminated(destination, capacity) /\ SumFits(end, added)
                <5>1. /\ Len(wanted) \in Word
                      /\ call'.returned = (Len(wanted) + 1 <= capacity)
                      /\ call'.length = Len(wanted)
                    BY <2>3, <3>4, <4>4, AppendIsRight
                <5>. HIDE DEF wanted
                <5>. QED  BY <3>1, <3>2, <4>2, <4>4, <5>1
            <4>5. CASE Terminated(destination, capacity) /\ ~SumFits(end, added)
                <5>1. call'.returned = FALSE /\ call'.length = 0
                    BY <2>3, <4>5, RefusedIsTold
                <5>2. IsString(memory, destination)
                    BY <4>1, <4>5, TerminatedIsFits
                <5>3. end \in Nat /\ added \in Nat
                    BY <4>1, <5>2, LengthIsFirstNull
                <5>4. Len(wanted) = end + added
                    <6>. DEFINE S == {memory[byte] : byte \in Addresses}
                    <6>1. \A byte \in Addresses : memory[byte] \in S
                        OBVIOUS
                    <6>. HIDE DEF S
                    <6>2. /\ String(memory, destination) \in Seq(S)
                          /\ String(memory, source) \in Seq(S)
                          /\ Len(String(memory, destination)) = end
                          /\ Len(String(memory, source)) = added
                        BY <4>1, <5>2, <6>1, StringIsSequence
                    <6>. QED  BY <6>2, ConcatProperties
                <5>5. end + added >= WordMod
                    <6>. HIDE DEF end, added
                    <6>. QED  BY <1>1, <4>5, <5>3 DEF SumFits, WordMax
                <5>. HIDE DEF wanted, end, added
                <5>6. Len(wanted) \notin Word
                    BY <1>1, <5>3, <5>4, <5>5 DEF Word
                <5>7. (Len(wanted) + 1 <= capacity) = FALSE
                    BY <1>1, <5>3, <5>4, <5>5
                <5>8. call'.returned = (Len(wanted) + 1 <= capacity)
                    BY <5>1, <5>7, Zenon
                <5>. QED  BY <3>1, <3>2, <4>2, <4>5, <5>1, <5>6, <5>8
            <4>. QED  BY <4>3, <4>4, <4>5
        <3>. QED  BY <3>3, <3>4
    <2>. QED  BY <2>1, <2>2, <2>3
<1>3. ASSUME Next, call'.name = "compare" PROVE Compared
    <2>1. ASSUME NEW str_1 \in Pointers, NEW str_2 \in Pointers, Compare(str_1, str_2)
          PROVE  Compared
        <3>1. /\ call'.str_1 = str_1 /\ call'.str_2 = str_2
              /\ call'.returned = Matches(str_1, str_2)
            BY <2>1 DEF Compare
        <3>2. CASE NullAddress \in {str_1, str_2}
            <4>1. Matches(str_1, str_2) = FALSE
                BY <3>2 DEF Matches
            <4>. QED  BY <3>1, <3>2, <4>1
        <3>3. CASE NullAddress \notin {str_1, str_2}
            <4>1. /\ str_1 \in Addresses /\ IsString(memory, str_1)
                  /\ str_2 \in Addresses /\ IsString(memory, str_2)
                BY <2>1, <3>3 DEF Compare, MayBeSource
            <4>2. Matches(str_1, str_2) <=> String(memory, str_1) = String(memory, str_2)
                BY <3>3, <4>1, StringsAreCompared DEF Matches
            <4>3. Matches(str_1, str_2) \in BOOLEAN
                BY DEF Matches
            <4>4. Matches(str_1, str_2) =
                     (/\ NullAddress \notin {str_1, str_2}
                      /\ String(memory, str_1) = String(memory, str_2))
                BY <3>3, <4>2, <4>3
            <4>. QED  BY <3>1, <4>4, Zenon
        <3>. QED  BY <3>2, <3>3
    <2>2. ASSUME NEW destination \in Pointers, NEW source \in Pointers,
                 NEW capacity \in 0 .. MemorySize,
                 Copy(destination, capacity, source) \/ AppendTo(destination, capacity, source)
          PROVE  FALSE
        BY <1>3, <2>2, CallNamesArguments
    <2>3. ~Continue
        BY <1>3 DEF Continue, NoCall
    <2>. QED  BY <1>3, <2>1, <2>2, <2>3 DEF Next
<1>4. ASSUME [Next]_vars PROVE [Told /\ Compared]_vars
    BY <1>2, <1>3, <1>4
<1>. QED  BY <1>4, PTL DEF Spec, ReportsTruly

-----------------------------------------------------------------------------
(* The console                                                             *)

\* What is still to be shown: when a write has returned, what it left.
Left ==
    IF pc = "check" /\ written > 0 THEN Remaining(message, written) ELSE message

\* While a call is under way, the text is what was shown and what is left, in
\* that order, and something is asked of the system.
ConsoleInv ==
    /\ platform \in {"linux", "win32"}
    /\ pc \in {"idle", "write", "check"}
    /\ text \in Seq(Nat)
    /\ message \in Seq(Nat)
    /\ shown \in Seq(Nat)
    /\ written \in Int
    /\ pc = "check" => platform = "linux" /\ written <= Len(message)
    /\ pc # "idle" => message # <<>> /\ text = shown \o Left
    /\ pc = "idle" => ShowsTheText

\* What was shown and some of the rest, followed by what remains of the rest,
\* is all of it.
LEMMA ShownAndLeft ==
    ASSUME NEW S, NEW s \in Seq(S), NEW t \in Seq(S), NEW count \in 0 .. Len(t)
    PROVE  /\ s \o SubSeq(t, 1, count) \in Seq(S)
           /\ SubSeq(t, count + 1, Len(t)) \in Seq(S)
           /\ (s \o SubSeq(t, 1, count)) \o SubSeq(t, count + 1, Len(t)) = s \o t
<1>. DEFINE front == SubSeq(t, 1, count)
            back  == SubSeq(t, count + 1, Len(t))
<1>1. Len(t) \in Nat /\ \A i \in 1 .. Len(t) : t[i] \in S
    BY LenProperties
<1>2. front \in Seq(S)
    <2>1. \A i \in 1 .. count : t[i] \in S
        BY <1>1
    <2>. QED  BY <1>1, <2>1, SubSeqProperties
<1>3. back \in Seq(S)
    <2>1. \A i \in count + 1 .. Len(t) : t[i] \in S
        BY <1>1
    <2>. QED  BY <1>1, <2>1, SubSeqProperties
<1>4. front \o back = t
    <2>1. CASE t = <<>>
        <3>1. Len(t) = 0 /\ count = 0
            BY <1>1, <2>1
        <3>2. front = <<>> /\ back = <<>>
            BY <3>1, SubSeqEmpty
        <3>. QED  BY <2>1, <3>2, ConcatEmptySeq
    <2>2. CASE t # <<>>
        <3>1. Len(t) > 0
            BY <1>1, <2>2
        <3>2. /\ 1 \in 1 .. Len(t) + 1
              /\ count \in 1 - 1 .. Len(t)
              /\ Len(t) \in count .. Len(t)
            BY <1>1, <3>1
        <3>3. front \o back = SubSeq(t, 1, Len(t))
            BY <3>2, ConcatAdjacentSubSeq
        <3>. QED  BY <3>3, SubSeqFull
    <2>. QED  BY <2>1, <2>2
<1>. HIDE DEF front, back
<1>5. s \o front \in Seq(S)
    BY <1>2, ConcatProperties
<1>6. (s \o front) \o back = s \o (front \o back)
    <2>1. \A u, v \in Seq(S) : (s \o u) \o v = s \o (u \o v)
        BY ConcatAssociative, SMTT(30)
    <2>. QED  BY <1>2, <1>3, <2>1
<1>. QED  BY <1>2, <1>3, <1>4, <1>5, <1>6 DEF front, back

\* A text begins with what it was put together from first.
LEMMA BeginsWithFirst ==
    ASSUME NEW S, NEW s \in Seq(S), NEW t \in Seq(S)
    PROVE  IsPrefix(s, s \o t)
<1>. DEFINE u == s \o t
<1>1. /\ u \in Seq(S)
      /\ Len(u) = Len(s) + Len(t)
      /\ \A i \in 1 .. Len(s) + Len(t) : u[i] = IF i <= Len(s) THEN s[i] ELSE t[i - Len(s)]
    BY ConcatProperties
<1>. HIDE DEF u
<1>2. Len(s) \in Nat /\ Len(t) \in Nat
    BY LenProperties
<1>3. \A i \in 1 .. Len(s) : s[i] \in S /\ u[i] = s[i]
    BY <1>1, <1>2, LenProperties
<1>4. SubSeq(s, 1, Len(s)) = s
    BY SubSeqFull
<1>5. SubSeq(u, 1, Len(s)) = s
    <2>. DEFINE v == SubSeq(u, 1, Len(s))
    <2>1. /\ v \in Seq(S)
          /\ Len(v) = IF 1 <= Len(s) THEN Len(s) - 1 + 1 ELSE 0
          /\ \A i \in 1 .. Len(s) - 1 + 1 : v[i] = u[1 + i - 1]
        <3>1. \A i \in 1 .. Len(s) : u[i] \in S
            BY <1>3
        <3>. QED  BY <1>2, <3>1, SubSeqProperties
    <2>. HIDE DEF v
    <2>2. Len(v) = Len(s)
        BY <1>2, <2>1
    <2>3. ASSUME NEW i \in 1 .. Len(s) PROVE v[i] = s[i]
        <3>1. i \in 1 .. Len(s) - 1 + 1 /\ 1 + i - 1 = i
            BY <1>2
        <3>. QED  BY <1>3, <2>1, <3>1
    <2>4. v = s
        BY <2>1, <2>2, <2>3, SeqEqual
    <2>. QED  BY <2>4 DEF v
<1>6. Len(s) <= Len(u)
    BY <1>1, <1>2
<1>. QED  BY <1>4, <1>5, <1>6 DEF IsPrefix, u

\* A text of the application, and what console_writef makes of one, is a
\* sequence of bytes.
LEMMA TextsAreSequences ==
    ASSUME NEW string \in Texts
    PROVE  /\ string \in Seq(Nat)
           /\ SubSeq(string, 1, Min({Len(string), BufferSize - 1})) \in Seq(Nat)
<1>1. MaxLength \in Nat /\ BufferSize \in Nat /\ BufferSize > 0
    BY ConsoleAssumption
<1>2. PICK length \in 0 .. MaxLength : string = [i \in 1 .. length |-> i]
    BY DEF Texts
<1>3. string \in Seq(Nat) /\ Len(string) = length
    <2>1. string \in [1 .. length -> Nat]
        BY <1>1, <1>2
    <2>. QED  BY <1>1, <1>2, <2>1, SeqDef, LenProperties
<1>. DEFINE lengths == {Len(string), BufferSize - 1}
            least   == Min(lengths)
<1>4. lengths \in SUBSET Nat /\ lengths # {}
    BY <1>1, <1>2, <1>3
<1>5. least \in lengths /\ \A n \in lengths : least <= n
    BY <1>4, MinIsLeast
<1>. HIDE DEF least
<1>6. least \in Nat /\ least <= Len(string)
    BY <1>4, <1>5
<1>7. \A i \in 1 .. least : string[i] \in Nat
    BY <1>1, <1>2, <1>3, <1>6
<1>8. SubSeq(string, 1, least) \in Seq(Nat)
    BY <1>6, <1>7, SubSeqProperties
<1>. QED  BY <1>3, <1>8 DEF least

\* A call begins with all of its text left.
LEMMA BeginKeepsConsole ==
    ASSUME ConsoleInv, NEW bytes \in Seq(Nat), Begin(bytes)
    PROVE  ConsoleInv'
<1>1. /\ text' = bytes /\ message' = bytes /\ shown' = <<>> /\ written' = 0
      /\ pc' = IF bytes = <<>> THEN "idle" ELSE "write"
      /\ platform' = platform
    BY DEF Begin
<1>2. <<>> \in Seq(Nat) /\ <<>> \o bytes = bytes
    BY ConcatEmptySeq, SeqDef
<1>3. IsPrefix(<<>>, bytes)
    BY <1>2, BeginsWithFirst
<1>4. Left' = bytes
    BY <1>1 DEF Left
<1>5. ShowsTheText'
    BY <1>1, <1>3 DEF ShowsTheText
<1>. QED  BY <1>1, <1>2, <1>4, <1>5 DEF ConsoleInv

\* In every state of a call, what was shown is the beginning of the text.
LEMMA ConsoleInvShows ==
    ASSUME ConsoleInv
    PROVE  ShowsTheText
<1>1. CASE pc = "idle"
    BY <1>1 DEF ConsoleInv
<1>2. CASE pc # "idle"
    <2>1. Left \in Seq(Nat)
        <3>1. CASE pc = "check" /\ written > 0
            <4>1. /\ message \in Seq(Nat) /\ shown \in Seq(Nat)
                  /\ written \in 0 .. Len(message)
                BY <3>1, LenProperties DEF ConsoleInv
            <4>2. SubSeq(message, written + 1, Len(message)) \in Seq(Nat)
                BY <4>1, ShownAndLeft
            <4>. QED  BY <3>1, <4>2 DEF Left, Remaining
        <3>2. CASE ~(pc = "check" /\ written > 0)
            BY <3>2 DEF Left, ConsoleInv
        <3>. QED  BY <3>1, <3>2
    <2>2. text = shown \o Left /\ shown \in Seq(Nat)
        BY <1>2 DEF ConsoleInv
    <2>3. IsPrefix(shown, text)
        BY <2>1, <2>2, BeginsWithFirst
    <2>. QED  BY <1>2, <2>3 DEF ShowsTheText
<1>. QED  BY <1>1, <1>2

\* The system shows some of the message, and leaves the rest.
LEMMA ShowsKeepsText ==
    ASSUME ConsoleInv, pc = "write", NEW count \in 0 .. Len(message), Shows(count)
    PROVE  /\ shown' \in Seq(Nat)
           /\ Remaining(message, count) \in Seq(Nat)
           /\ text = shown' \o Remaining(message, count)
<1>1. /\ message \in Seq(Nat) /\ shown \in Seq(Nat)
      /\ text = shown \o message
    BY DEF ConsoleInv, Left
<1>2. shown' = shown \o SubSeq(message, 1, count)
    BY DEF Shows
<1>3. /\ shown \o SubSeq(message, 1, count) \in Seq(Nat)
      /\ SubSeq(message, count + 1, Len(message)) \in Seq(Nat)
      /\ (shown \o SubSeq(message, 1, count)) \o SubSeq(message, count + 1, Len(message)) =
            shown \o message
    <2>1. message \in Seq(Nat) /\ shown \in Seq(Nat) /\ count \in 0 .. Len(message)
        BY <1>1
    <2>2. \A s, t \in Seq(Nat) : \A c \in 0 .. Len(t) :
             /\ s \o SubSeq(t, 1, c) \in Seq(Nat)
             /\ SubSeq(t, c + 1, Len(t)) \in Seq(Nat)
             /\ (s \o SubSeq(t, 1, c)) \o SubSeq(t, c + 1, Len(t)) = s \o t
        BY ShownAndLeft
    <2>. QED  BY <2>1, <2>2
<1>. QED  BY <1>1, <1>2, <1>3, Zenon DEF Remaining

\* Every step of a call leaves the text shown and left together.
LEMMA ConsoleKeepsInv ==
    ASSUME ConsoleInv, [ConsoleNext]_consoleVars
    PROVE  ConsoleInv'
<1>1. ASSUME UNCHANGED consoleVars PROVE ConsoleInv'
    BY <1>1 DEF consoleVars, ConsoleInv, Left, Remaining, ShowsTheText
<1>2. ASSUME NEW string \in Texts,
             Write(string) \/ WriteFormatted(string)
      PROVE  ConsoleInv'
    BY <1>2, TextsAreSequences, BeginKeepsConsole DEF Write, WriteFormatted
<1>3. ASSUME LinuxWrites PROVE ConsoleInv'
    <2>1. PICK count \in 1 .. Len(message) : Shows(count) /\ written' = count
        BY <1>3 DEF LinuxWrites
    <2>2. /\ pc = "write" /\ platform = "linux" /\ pc' = "check"
          /\ platform' = platform /\ text' = text /\ message' = message
        BY <1>3 DEF LinuxWrites
    <2>3. Len(message) \in Nat
        BY LenProperties DEF ConsoleInv
    <2>4. /\ shown' \in Seq(Nat)
          /\ text = shown' \o Remaining(message, count)
        BY <2>1, <2>2, <2>3, ShowsKeepsText
    <2>5. Left' = Remaining(message, count)
        BY <2>1, <2>2, <2>3 DEF Left, Remaining
    <2>. QED  BY <2>1, <2>2, <2>3, <2>4, <2>5 DEF ConsoleInv
<1>4. ASSUME LinuxFails \/ LinuxInterrupts PROVE ConsoleInv'
    <2>1. /\ pc = "write" /\ platform = "linux" /\ pc' = "check"
          /\ platform' = platform /\ text' = text /\ message' = message /\ shown' = shown
          /\ written' \in {0, -1, -2}
        BY <1>4 DEF LinuxFails, LinuxInterrupts, Failed, Interrupted
    <2>2. Len(message) \in Nat
        BY LenProperties DEF ConsoleInv
    <2>3. Left = message /\ Left' = message
        BY <2>1 DEF Left
    <2>4. /\ platform \in {"linux", "win32"} /\ message # <<>>
          /\ text \in Seq(Nat) /\ message \in Seq(Nat) /\ shown \in Seq(Nat)
          /\ text = shown \o message
        BY <2>1, <2>3 DEF ConsoleInv
    <2>5. written' \in Int /\ written' <= Len(message)
        BY <2>1, <2>2
    <2>. QED  BY <2>1, <2>3, <2>4, <2>5 DEF ConsoleInv
<1>5. ASSUME GoOn PROVE ConsoleInv'
    <2>1. /\ pc = "check" /\ written > 0
          /\ message' = Remaining(message, written)
          /\ pc' = IF message' = <<>> THEN "idle" ELSE "write"
          /\ platform' = platform /\ text' = text /\ written' = written /\ shown' = shown
        BY <1>5 DEF GoOn
    <2>2. /\ message \in Seq(Nat) /\ shown \in Seq(Nat) /\ written \in 0 .. Len(message)
          /\ text = shown \o message'
        BY <2>1, LenProperties DEF ConsoleInv, Left
    <2>3. message' \in Seq(Nat)
        BY <2>1, <2>2, ShownAndLeft DEF Remaining
    <2>4. Left' = message'
        BY <2>1 DEF Left
    <2>5. CASE message' = <<>>
        <3>1. text = shown
            BY <2>2, <2>5, ConcatEmptySeq
        <3>2. IsPrefix(shown, shown \o message')
            BY <2>2, <2>3, BeginsWithFirst
        <3>3. ShowsTheText'
            BY <2>1, <2>2, <3>1, <3>2 DEF ShowsTheText
        <3>. QED  BY <2>1, <2>2, <2>3, <2>5, <3>3 DEF ConsoleInv
    <2>6. CASE message' # <<>>
        BY <2>1, <2>2, <2>3, <2>4, <2>6 DEF ConsoleInv
    <2>. QED  BY <2>5, <2>6
<1>6. ASSUME TryAgain PROVE ConsoleInv'
    <2>1. /\ pc = "check" /\ pc' = "write" /\ written = -1
          /\ UNCHANGED <<platform, text, message, written, shown>>
        BY <1>6 DEF TryAgain, Retries, Interrupted
    <2>2. Left = message /\ Left' = message
        BY <2>1 DEF Left
    <2>. QED  BY <2>1, <2>2 DEF ConsoleInv
<1>7. ASSUME GiveUp PROVE ConsoleInv'
    <2>1. /\ pc = "check" /\ pc' = "idle" /\ written <= 0
          /\ UNCHANGED <<platform, text, message, written, shown>>
        BY <1>7 DEF GiveUp
    <2>2. written \in Int
        BY DEF ConsoleInv
    <2>3. ShowsTheText'
        BY <2>1, <2>2, ConsoleInvShows DEF ShowsTheText
    <2>. QED  BY <2>1, <2>3 DEF ConsoleInv
<1>8. ASSUME WindowsWrites PROVE ConsoleInv'
    <2>1. PICK count \in 0 .. Len(message) : Shows(count)
        BY <1>8 DEF WindowsWrites
    <2>2. /\ pc = "write" /\ platform = "win32" /\ pc' = "idle"
          /\ UNCHANGED <<platform, text, message, written>>
        BY <1>8 DEF WindowsWrites
    <2>3. /\ shown' \in Seq(Nat)
          /\ Remaining(message, count) \in Seq(Nat)
          /\ text = shown' \o Remaining(message, count)
        BY <2>1, <2>2, ShowsKeepsText
    <2>4. IsPrefix(shown', text)
        BY <2>3, BeginsWithFirst
    <2>5. ShowsTheText'
        BY <2>2, <2>4 DEF ShowsTheText
    <2>. QED  BY <2>2, <2>3, <2>5 DEF ConsoleInv
<1>. QED  BY <1>1, <1>2, <1>3, <1>4, <1>5, <1>6, <1>7, <1>8 DEF ConsoleNext

\* However the writes of a call are cut and interrupted, for texts of every
\* length, what the console shows is the beginning of the text, and on Linux a
\* call that did not give up has shown all of it.
THEOREM ConsoleShowsText == ConsoleSpec => []ShowsTheText
<1>1. ConsoleInit => ConsoleInv
    <2>. SUFFICES ASSUME ConsoleInit PROVE ConsoleInv
        OBVIOUS
    <2>1. /\ platform \in {"linux", "win32"} /\ pc = "idle" /\ written = 0
          /\ text = <<>> /\ message = <<>> /\ shown = <<>>
        BY DEF ConsoleInit
    <2>2. <<>> \in Seq(Nat) /\ <<>> \o <<>> = <<>>
        BY ConcatEmptySeq, SeqDef
    <2>3. IsPrefix(<<>>, <<>>)
        BY <2>2, BeginsWithFirst
    <2>4. ShowsTheText
        BY <2>1, <2>3 DEF ShowsTheText
    <2>. QED  BY <2>1, <2>2, <2>4 DEF ConsoleInv
<1>2. ConsoleInv /\ [ConsoleNext]_consoleVars => ConsoleInv'
    BY ConsoleKeepsInv
<1>3. ConsoleInv => ShowsTheText
    BY ConsoleInvShows
<1>. QED  BY <1>1, <1>2, <1>3, PTL DEF ConsoleSpec

=============================================================================
