-------------------------------- MODULE CString --------------------------------
(***************************************************************************)
(* The string functions (string/cstr.c) on a memory that all their         *)
(* arguments point into, so that a source and a destination may share      *)
(* bytes.  The strings of a call are legal: a source ends within the       *)
(* memory, and the capacity told is there.  The memory may be larger than  *)
(* half the words, where the lengths of two strings have a sum that is not *)
(* a word.                                                                 *)
(***************************************************************************)
EXTENDS Allocator, Sequences, FiniteSetsExt

CONSTANTS
    MemorySize,     \* the bytes at the addresses 1 .. MemorySize
    Characters,     \* what a byte may hold,
    NUL             \*   or the end of a string

ASSUME MemoryAssumption ==
    /\ MemorySize \in Word
    /\ NUL \notin Characters

VARIABLES
    memory,     \* the bytes
    call        \* the last call and what it returned, NoCall between calls

vars == <<memory, call>>

Addresses == 1 .. MemorySize

Pointers == Addresses \cup {NullAddress}

NoCall == [name |-> "none"]

-----------------------------------------------------------------------------

\* A string ends within the memory.
IsString(m, str) == \E byte \in str .. MemorySize : m[byte] = NUL

\* cstr_length of a string that is not NULL.
Length(m, str) == Min({length \in 0 .. MemorySize - str : m[str + length] = NUL})

\* Mutation of Moved: the bytes are copied one by one, from the first on.
MovedForward(destination, source, size) ==
    LET copied[n \in 0 .. size] ==
            IF n = 0 THEN memory
            ELSE [copied[n - 1] EXCEPT ![destination + n - 1] = copied[n - 1][source + n - 1]]
    IN  copied[size]

\* memmove, where the bytes fit in the memory.
Moved(destination, source, size) ==
    [byte \in Addresses |->
        IF byte \in destination .. destination + size - 1
        THEN memory[source + (byte - destination)] ELSE memory[byte]]

\* Room for the string and the null after it.
Fits(length, capacity) == length < capacity

\* Mutation of SumFits: the lengths are added without looking.
SumFitsAlways(length, other) == length \in Word /\ other \in Word

SumFits(length, other) == other <= WordMax - length

MayBeSource(str) ==
    str \in {NullAddress} \cup {address \in Addresses : IsString(memory, address)}

MayBeDestination(str, capacity) == str = NullAddress \/ str + capacity <= MemorySize + 1

Given(destination, capacity, source) ==
    destination # NullAddress /\ source # NullAddress /\ capacity # 0

-----------------------------------------------------------------------------

Init ==
    /\ memory \in [Addresses -> Characters \cup {NUL}]
    /\ call = NoCall

\* A call of cstr_copy or cstr_append has returned; out_length was written if
\* it was given.
Writes(name, destination, capacity, source, returned, length) ==
    call' = [name |-> name, destination |-> destination, capacity |-> capacity,
             source |-> source, returned |-> returned, length |-> length]

Copy(destination, capacity, source) ==
    LET Answers(returned, length) ==
            Writes("copy", destination, capacity, source, returned, length)
        length == Length(memory, source)
    IN  /\ MayBeDestination(destination, capacity)
        /\ MayBeSource(source)
        /\ \/ /\ ~Given(destination, capacity, source)
              /\ Answers(FALSE, 0)
              /\ UNCHANGED memory
           \/ /\ Given(destination, capacity, source)
              /\ ~Fits(length, capacity)
              /\ Answers(FALSE, length)
              /\ UNCHANGED memory
           \/ /\ Given(destination, capacity, source)
              /\ Fits(length, capacity)
              /\ Answers(TRUE, length)
              /\ memory' = Moved(destination, source, length + 1)

\* The destination has a null within its capacity.
Terminated(destination, capacity) ==
    \E byte \in destination .. destination + capacity - 1 : memory[byte] = NUL

AppendTo(destination, capacity, source) ==
    LET Answers(returned, length) ==
            Writes("append", destination, capacity, source, returned, length)
        end    == Length(memory, destination)
        added  == Length(memory, source)
        length == (end + added) % WordMod
        Sums   == /\ Given(destination, capacity, source)
                  /\ Terminated(destination, capacity)
                  /\ SumFits(end, added)
    IN  /\ MayBeDestination(destination, capacity)
        /\ MayBeSource(source)
        /\ \/ /\ ~Sums
              /\ Answers(FALSE, 0)
              /\ UNCHANGED memory
           \/ /\ Sums
              /\ ~Fits(length, capacity)
              /\ Answers(FALSE, length)
              /\ UNCHANGED memory
           \/ /\ Sums
              /\ Fits(length, capacity)
              /\ Answers(TRUE, length)
              /\ memory' = Moved(destination + end, source, added + 1)

\* Two strings of which neither is NULL are compared by length, then by bytes.
Matches(str_1, str_2) ==
    /\ NullAddress \notin {str_1, str_2}
    /\ Length(memory, str_1) = Length(memory, str_2)
    /\ \A i \in 0 .. Length(memory, str_1) - 1 : memory[str_1 + i] = memory[str_2 + i]

Compare(str_1, str_2) ==
    /\ MayBeSource(str_1)
    /\ MayBeSource(str_2)
    /\ call' = [name |-> "compare", str_1 |-> str_1, str_2 |-> str_2,
                returned |-> Matches(str_1, str_2)]
    /\ UNCHANGED memory

\* The application is done with what a call returned.
Continue ==
    /\ call # NoCall
    /\ call' = NoCall
    /\ UNCHANGED memory

Next ==
    \/ /\ call = NoCall
       /\ \E destination, source \in Pointers, capacity \in 0 .. MemorySize :
            \/ Copy(destination, capacity, source)
            \/ AppendTo(destination, capacity, source)
    \/ /\ call = NoCall
       /\ \E str_1, str_2 \in Pointers : Compare(str_1, str_2)
    \/ Continue

Spec == Init /\ [][Next]_vars

-----------------------------------------------------------------------------
(* Properties                                                              *)

\* The characters of a string.
String(m, str) == [i \in 1 .. Length(m, str) |-> m[str + i - 1]]

\* The string that a call to copy or append is to leave at its destination.
Intended(m, c) ==
    IF c.name = "copy" THEN String(m, c.source)
    ELSE String(m, c.destination) \o String(m, c.source)

IsWrite == call = NoCall /\ call'.name \in {"copy", "append"}

\* A call that succeeds leaves the string at its destination, made of what
\* both strings were before it even if they share bytes, and touches nothing
\* but the bytes of that string; a call that fails touches nothing.
WritesTheString ==
    [][IsWrite =>
        IF ~call'.returned THEN memory' = memory
        ELSE LET first == call'.destination
                 wanted == Intended(memory, call')
             IN  /\ IsString(memory', first)
                 /\ String(memory', first) = wanted
                 /\ \A byte \in Addresses \ (first .. first + Len(wanted)) :
                        memory'[byte] = memory[byte]]_vars

\* The arguments of a call are strings, and the capacity holds the first.
AreStrings(m, c) ==
    /\ Given(c.destination, c.capacity, c.source)
    /\ c.name = "append" =>
          /\ IsString(m, c.destination)
          /\ Fits(Length(m, c.destination), c.capacity)

\* A call succeeds exactly when the string and its null fit in the capacity,
\* and tells the length of the string also when it fails, so that it succeeds
\* with a destination one byte longer than that; only a length that is no
\* word is not told.  Two strings are equal exactly when their characters are.
ReportsTruly ==
    [][/\ IsWrite =>
            IF AreStrings(memory, call')
            THEN LET length == Len(Intended(memory, call'))
                 IN  /\ call'.returned = (length + 1 <= call'.capacity)
                     /\ call'.length = IF length \in Word THEN length ELSE 0
            ELSE ~call'.returned /\ call'.length = 0
       /\ call'.name = "compare" =>
            call'.returned = /\ NullAddress \notin {call'.str_1, call'.str_2}
                             /\ String(memory, call'.str_1) = String(memory, call'.str_2)
      ]_vars

=============================================================================
