------------------------- MODULE SystemAllocatorProofs -------------------------
(***************************************************************************)
(* The properties of module SystemAllocator, for every word size, pointer  *)
(* size, size and alignment.  The inductive invariant says that chunks are *)
(* apart and that each belongs to one block.  Then whatever is written to  *)
(* a block, to its header or to a chunk that is freed stays away from all  *)
(* the others.                                                             *)
(***************************************************************************)
EXTENDS SystemAllocator, MemoryProofs

-----------------------------------------------------------------------------
(* Multiples                                                               *)

\* A number that is d times another leaves no rest.
LEMMA TimesIsMultiple ==
    ASSUME NEW m \in Nat, NEW d \in Nat, d > 0, NEW k \in Int, m = d * k
    PROVE  m % d = 0
<1>. DEFINE r == m % d
<1>1. /\ r \in 0 .. d - 1
      /\ m \div d \in Int
      /\ m = d * (m \div d) + r
    BY Z3
<1>2. r = d * (k - (m \div d))
    <2>. HIDE DEF r
    <2>. QED  BY <1>1, Z3
<1>3. r = 0
    <2>. HIDE DEF r
    <2>. QED  BY <1>1, <1>2, SmallMultiple
<1>. QED  BY <1>3

\* A number that leaves no rest is a multiple.
LEMMA MultipleIsTimes ==
    ASSUME NEW m \in Nat, NEW d \in Nat, d > 0, m % d = 0
    PROVE  \E k \in Int : m = d * k
<1>1. m \div d \in Int /\ m = d * (m \div d)
    BY Z3
<1>. QED  BY <1>1

\* Sums and differences of multiples are multiples.
LEMMA SumOfMultiples ==
    ASSUME NEW m \in Nat, NEW n \in Nat, NEW d \in Nat, d > 0, m % d = 0, n % d = 0
    PROVE  /\ (m + n) % d = 0
           /\ m >= n => (m - n) % d = 0
<1>1. PICK j \in Int : m = d * j
    BY MultipleIsTimes
<1>2. PICK k \in Int : n = d * k
    BY MultipleIsTimes
<1>3. m + n = d * (j + k) /\ m - n = d * (j - k)
    BY <1>1, <1>2, Z3
<1>4. m + n \in Nat /\ j + k \in Int
    OBVIOUS
<1>5. (m + n) % d = 0
    BY <1>3, <1>4, TimesIsMultiple
<1>6. ASSUME m >= n PROVE (m - n) % d = 0
    <2>1. m - n \in Nat /\ j - k \in Int
        BY <1>6
    <2>. QED  BY <2>1, <1>3, TimesIsMultiple
<1>. QED  BY <1>5, <1>6

\* A multiple of a multiple is a multiple.
LEMMA MultipleOfMultiple ==
    ASSUME NEW m \in Nat, NEW n \in Nat, NEW d \in Nat, n > 0, d > 0,
           m % n = 0, n % d = 0
    PROVE  m % d = 0
<1>1. PICK j \in Int : m = n * j
    BY MultipleIsTimes
<1>2. PICK k \in Int : n = d * k
    BY MultipleIsTimes
<1>3. m = d * (k * j) /\ k * j \in Int
    BY <1>1, <1>2, Z3
<1>. QED  BY <1>3, TimesIsMultiple

\* Adding what is missing at the end of a larger multiple gives a multiple.
LEMMA AddTheRest ==
    ASSUME NEW n \in Nat, NEW u \in Nat, NEW d \in Nat, d > 0, n % d = 0, u <= n
    PROVE  LET rest == (n - u) % d
           IN  /\ rest \in 0 .. d - 1
               /\ u + rest <= n
               /\ (u + rest) % d = 0
<1>. DEFINE m == n - u
            rest == m % d
<1>1. m \in Nat
    OBVIOUS
<1>2. rest \in 0 .. d - 1 /\ m - rest \in Nat /\ (m - rest) % d = 0
    <2>. HIDE DEF m
    <2>. QED  BY <1>1, RoundDown
<1>3. u + rest = n - (m - rest) /\ m - rest <= n
    <2>1. rest \in Nat
        BY <1>2
    <2>. HIDE DEF rest
    <2>. QED  BY <1>1, <2>1
<1>4. (n - (m - rest)) % d = 0
    <2>. DEFINE k == m - rest
    <2>1. k \in Nat /\ k % d = 0 /\ n >= k
        BY <1>2, <1>3
    <2>. HIDE DEF k
    <2>. QED  BY <2>1, SumOfMultiples DEF k
<1>5. u + rest <= n
    <2>. DEFINE k == m - rest
    <2>1. u + rest = n - k /\ k \in Nat
        BY <1>2, <1>3
    <2>. HIDE DEF k, rest
    <2>. QED  BY <2>1
<1>. QED  BY <1>2, <1>3, <1>4, <1>5

-----------------------------------------------------------------------------
(* Where a block is put                                                    *)

OnPlatform == platform \in {"linux", "win32"}

LEMMA HeaderSizes ==
    ASSUME OnPlatform
    PROVE  /\ PointerSize \in Nat /\ PointerSize > 0
           /\ HeaderSize \in Nat /\ HeaderSize >= PointerSize
           /\ HeaderSize <= WordMax
           /\ HeaderSize % PointerSize = 0
<1>1. /\ WordMod \in Nat /\ PointerSize \in Nat /\ PointerSize > 0
      /\ 2 * PointerSize <= WordMax
    BY SystemAssumption, WordAssumption DEF Word, IsPowerOfTwo
<1>2. HeaderSize = PointerSize * 1 \/ HeaderSize = PointerSize * 2
    BY <1>1 DEF OnPlatform, HeaderSize
<1>3. HeaderSize % PointerSize = 0
    <2>1. HeaderSize \in Nat
        BY <1>1, <1>2
    <2>. QED  BY <2>1, <1>1, <1>2, TimesIsMultiple
<1>. QED  BY <1>1, <1>2, <1>3, WordAssumption DEF WordMax

\* A request that is admitted overflows nowhere, and its block with its header
\* lies within the chunk that was asked for, aligned, and the header aligned.
LEMMA AddressIsSound ==
    ASSUME OnPlatform, NEW size \in Word, NEW alignment \in Word,
           Admits(size, alignment), NEW base \in Word,
           Obtainable(base, (size + Overhead(alignment)) % WordMod)
    PROVE  LET total   == (size + Overhead(alignment)) % WordMod
               address == AddressIn(base, alignment)
           IN  /\ total \in Word
               /\ address \in Word
               /\ base + HeaderSize <= address
               /\ address + size <= base + total
               /\ address % alignment = 0
               /\ (address - HeaderSize) % PointerSize = 0
<1>. DEFINE H       == HeaderSize
            P       == PointerSize
            total   == (size + Overhead(alignment)) % WordMod
            address == AddressIn(base, alignment)
            start   == base + H
<1>1. /\ WordMod \in Nat /\ WordMax = WordMod - 1
      /\ size \in Nat /\ size > 0
      /\ alignment \in Nat /\ alignment > 0 /\ alignment < WordMod
      /\ base \in Nat
    BY WordAssumption DEF Admits, Word, WordMax, IsPowerOfTwo
<1>2. /\ P \in Nat /\ P > 0
      /\ H \in Nat /\ H >= P /\ H <= WordMax
      /\ H % P = 0
    BY HeaderSizes
<1>3. Overhead(alignment) = H + (alignment - 1)
    <2>1. H + (alignment - 1) \in Nat /\ H + (alignment - 1) < WordMod
        BY <1>1, <1>2 DEF Admits
    <2>. DEFINE n == H + (alignment - 1)
    <2>2. n % WordMod = n
        <3>1. n \in Nat /\ n < WordMod
            BY <2>1
        <3>. HIDE DEF n
        <3>. QED  BY <3>1, <1>1, WrapOnce
    <2>. QED  BY <2>2 DEF Overhead
<1>4. total = size + H + (alignment - 1)
    <2>. DEFINE n == size + Overhead(alignment)
    <2>1. n \in Nat /\ n < WordMod /\ n = size + H + (alignment - 1)
        BY <1>1, <1>2, <1>3 DEF Admits
    <2>2. n % WordMod = n
        <3>. HIDE DEF n
        <3>. QED  BY <2>1, <1>1, WrapOnce
    <2>. QED  BY <2>1, <2>2
<1>5. base + total <= WordMod /\ base % P = 0 /\ total \in Word
    BY DEF Obtainable, IsObject
<1>6. /\ start \in Nat
      /\ start + (alignment - 1) + size = base + total
      /\ start + (alignment - 1) < WordMod
      /\ start < WordMod
    <2>. HIDE DEF total, H
    <2>. QED  BY <1>1, <1>2, <1>4, <1>5
<1>7. start % WordMod = start
    <2>. HIDE DEF start
    <2>. QED  BY <1>1, <1>6, WrapOnce
<1>8. start % P = 0
    <2>. HIDE DEF H, P
    <2>. QED  BY <1>1, <1>2, <1>5, SumOfMultiples
<1>9. WordMod % alignment = 0
    BY PowersAssumption DEF Admits
<1>10. /\ address \in Nat
       /\ start <= address
       /\ address <= start + (alignment - 1)
       /\ address % alignment = 0
    <2>1. CASE platform = "linux"
        <3>. DEFINE rest == (WordMod - start) % alignment
        <3>1. (0 - start) % WordMod = WordMod - start
            <4>1. 0 \in Word /\ start \in Word /\ start > 0
                <5>. HIDE DEF start
                <5>1. 0 \in Word /\ start \in Word
                    BY <1>1, <1>6 DEF Word
                <5>2. start > 0
                    BY <1>1, <1>2 DEF start
                <5>. QED  BY <5>1, <5>2
            <4>. HIDE DEF start
            <4>. QED  BY <4>1, <1>1, WrapDifference DEF Word
        <3>2. /\ rest \in 0 .. alignment - 1
              /\ (start + rest) % alignment = 0
            <4>. HIDE DEF start
            <4>1. start \in Nat /\ start <= WordMod
                BY <1>1, <1>6
            <4>. QED  BY <4>1, <1>1, <1>9, AddTheRest, Zenon
        <3>. DEFINE n == start + rest
        <3>3. n % WordMod = n
            <4>1. n \in Nat /\ n < WordMod
                <5>. HIDE DEF start, rest
                <5>. QED  BY <1>1, <1>6, <3>2
            <4>. HIDE DEF n
            <4>. QED  BY <4>1, <1>1, WrapOnce
        <3>4. address = start + rest
            BY <2>1, <1>7, <3>1, <3>3 DEF AddressIn
        <3>. HIDE DEF address, start, rest
        <3>. QED  BY <3>2, <3>4, <1>1, <1>6
    <2>2. CASE platform = "win32"
        <3>. DEFINE bumped == start + (alignment - 1)
        <3>1. bumped \in Nat /\ bumped < WordMod
            <4>. HIDE DEF start
            <4>. QED  BY <1>1, <1>6
        <3>2. bumped % WordMod = bumped
            <4>. HIDE DEF bumped
            <4>. QED  BY <1>1, <3>1, WrapOnce
        <3>3. address = bumped - (bumped % alignment)
            BY <2>2, <1>7, <3>2 DEF AddressIn, AlignForward
        <3>4. /\ bumped % alignment \in 0 .. alignment - 1
              /\ bumped - (bumped % alignment) \in Nat
              /\ (bumped - (bumped % alignment)) % alignment = 0
            <4>. HIDE DEF bumped
            <4>. QED  BY <1>1, <3>1, RoundDown
        <3>5. start <= address /\ address <= bumped
            <4>. DEFINE rest == bumped % alignment
            <4>1. rest \in 0 .. alignment - 1 /\ address = bumped - rest
                BY <3>3, <3>4
            <4>2. bumped = start + (alignment - 1)
                OBVIOUS
            <4>. HIDE DEF rest, address, start, bumped
            <4>. QED  BY <4>1, <4>2, <1>1, <1>6
        <3>. HIDE DEF address
        <3>. QED  BY <3>3, <3>4, <3>5
    <2>. QED  BY <2>1, <2>2 DEF OnPlatform
<1>11. address % P = 0
    <2>1. CASE alignment % P = 0
        <3>. HIDE DEF address, P
        <3>. QED  BY <2>1, <1>1, <1>2, <1>10, MultipleOfMultiple
    <2>2. CASE P % alignment = 0
        <3>1. start % alignment = 0
            <4>. HIDE DEF start, P
            <4>. QED  BY <2>2, <1>1, <1>2, <1>6, <1>8, MultipleOfMultiple
        <3>2. address = start
            <4>1. SUFFICES ASSUME start < address PROVE FALSE
                <5>. HIDE DEF address, start
                <5>. QED  BY <1>6, <1>10
            <4>. HIDE DEF address, start
            <4>2. start + alignment <= address
                BY <4>1, <3>1, <1>1, <1>6, <1>10, MultiplesApart
            <4>. QED  BY <4>2, <1>1, <1>6, <1>10
        <3>. QED  BY <3>2, <1>8
    <2>. QED  BY <2>1, <2>2, PowersAssumption DEF Admits
<1>12. (address - H) % P = 0
    <2>1. address >= H
        <3>. HIDE DEF address, H
        <3>. QED  BY <1>1, <1>2, <1>10
    <2>. HIDE DEF address, H, P
    <2>. QED  BY <2>1, <1>2, <1>10, <1>11, SumOfMultiples
<1>13. address + size <= base + total /\ address \in Word
    <2>. HIDE DEF address, start, total
    <2>. QED  BY <1>1, <1>6, <1>10 DEF Word
<1>. QED
    <2>. HIDE DEF address, total
    <2>1. base + H <= address
        BY <1>10
    <2>. QED  BY <2>1, <1>5, <1>10, <1>12, <1>13 DEF address, total

-----------------------------------------------------------------------------
(* The inductive invariant                                                 *)

\* The chunks in use are objects of the address space.
ChunksSound ==
    \A chunk \in chunks :
        /\ chunk.base \in Nat /\ chunk.size \in Nat
        /\ chunk.base # 0
        /\ chunk.base + chunk.size <= WordMod

\* No two chunks share a byte: they are apart and none is empty.
ChunksApart ==
    \A c, d \in chunks : c # d => c.base + c.size <= d.base \/ d.base + d.size <= c.base

BlocksUsable == \A block \in blocks : Promise!Usable(block)

\* A chunk is for one block.
OneBlockEach ==
    \A b, c \in blocks, chunk \in chunks : CutFrom(b, chunk) /\ CutFrom(c, chunk) => b = c

IInv == OnPlatform /\ ChunksSound /\ ChunksApart /\ BlocksUsable /\ OneBlockEach /\ HeadersIntact

\* What usable blocks and the header of a pointer are made of.
LEMMA Numbers ==
    ASSUME IInv
    PROVE  /\ WordMod \in Nat /\ WordMod > 0
           /\ PointerSize \in Nat /\ PointerSize > 0
           /\ HeaderSize \in Nat /\ HeaderSize >= PointerSize
           /\ \A block \in blocks :
                /\ block.address \in Nat /\ block.size \in Nat /\ block.size > 0
                /\ block = [address |-> block.address, size |-> block.size,
                            alignment |-> block.alignment]
<1>1. WordMod \in Nat /\ WordMod > 0
    BY WordAssumption
<1>2. ASSUME NEW block \in blocks
      PROVE  /\ block.address \in Nat /\ block.size \in Nat /\ block.size > 0
             /\ block = [address |-> block.address, size |-> block.size,
                         alignment |-> block.alignment]
    <2>1. block \in [address : Word, size : Word, alignment : Word] /\ block.size # 0
        BY DEF IInv, BlocksUsable, Promise!Usable, Promise!Block, Promise!Word, Word
    <2>. QED  BY <2>1, <1>1 DEF Word
<1>. QED  BY <1>1, <1>2, HeaderSizes DEF IInv

\* A block and its header share no byte with another chunk.
LEMMA StaysInChunk ==
    ASSUME IInv, NEW block \in blocks, NEW chunk \in chunks, NEW other \in chunks,
           CutFrom(block, chunk), chunk # other, NEW byte \in Nat,
           byte >= block.address - HeaderSize, byte < block.address + block.size
    PROVE  ~(byte >= other.base /\ byte < other.base + other.size)
<1>1. /\ chunk.base \in Nat /\ chunk.size \in Nat
      /\ other.base \in Nat /\ other.size \in Nat
    BY DEF IInv, ChunksSound
<1>2. chunk.base + chunk.size <= other.base \/ other.base + other.size <= chunk.base
    BY DEF IInv, ChunksApart
<1>3. byte >= chunk.base /\ byte < chunk.base + chunk.size
    BY <1>1, Numbers DEF CutFrom
<1>. QED  BY <1>1, <1>2, <1>3

\* At first there are neither chunks nor blocks.
LEMMA InitIInv == Init => IInv
BY DEF Init, IInv, OnPlatform, ChunksSound, ChunksApart, BlocksUsable, OneBlockEach,
       HeadersIntact

\* A block is added with a chunk of its own, apart from those there are.
LEMMA AllocStep ==
    ASSUME IInv, NEW size \in Sizes, NEW requested \in Alignments, NEW base \in Word,
           Alloc(size, requested, base)
    PROVE  IInv' /\ Promise!Next
<1>. DEFINE alignment == EffectiveAlignment(requested)
            total     == (size + Overhead(alignment)) % WordMod
            address   == AddressIn(base, alignment)
            chunk     == [base |-> base, size |-> total]
            block     == [address |-> address, size |-> size, alignment |-> alignment]
<1>1. size \in Word /\ alignment \in Word
    BY SystemAssumption DEF EffectiveAlignment
<1>2. /\ Admits(size, alignment)
      /\ Obtainable(base, total)
      /\ chunks' = chunks \cup {chunk}
      /\ memory' = [byte \in Word |->
                        IF byte \in Bytes(address - HeaderSize, PointerSize) THEN base
                        ELSE IF byte \in Bytes(address - HeaderSize, HeaderSize) THEN Junk
                        ELSE memory[byte]]
      /\ blocks' = blocks \cup {block}
      /\ platform' = platform
    BY DEF Alloc
<1>3. /\ total \in Word
      /\ address \in Word
      /\ base + HeaderSize <= address
      /\ address + size <= base + total
      /\ address % alignment = 0
      /\ (address - HeaderSize) % PointerSize = 0
    BY <1>1, <1>2, AddressIsSound DEF IInv
<1>4. /\ base # 0 /\ base + total <= WordMod
      /\ \A c \in chunks : base + total <= c.base \/ c.base + c.size <= base
    BY <1>2 DEF Obtainable, IsObject, NullAddress
<1>5. /\ chunk.base = base /\ chunk.size = total
      /\ block.address = address /\ block.size = size /\ block.alignment = alignment
    OBVIOUS
<1>6. size # 0 /\ alignment # 0
    BY <1>2 DEF Admits, IsPowerOfTwo
<1>7. HeaderSize' = HeaderSize
    BY <1>2 DEF HeaderSize
<1>8. block \in [address : Word, size : Word, alignment : Word]
    <2>. HIDE DEF address, alignment
    <2>. QED  BY <1>1, <1>3
<1>. HIDE DEF alignment, total, address, chunk, block
<1>9. /\ base \in Nat /\ total \in Nat /\ address \in Nat /\ size \in Nat /\ size > 0
      /\ total > 0
    <2>1. base \in Nat /\ total \in Nat /\ address \in Nat /\ size \in Nat /\ size > 0
        BY <1>1, <1>3, <1>6, WordAssumption DEF Word
    <2>. QED  BY <2>1, <1>3, Numbers
<1>10. Promise!Usable(block)
    <2>1. block \in Promise!Block
        BY <1>8 DEF Promise!Block, Promise!Word, Word
    <2>2. Promise!IsObject(block.address, block.size)
        BY <1>1, <1>3, <1>4, <1>5, <1>9, Numbers
        DEF Promise!IsObject, Promise!NullAddress, Promise!Word, Word
    <2>. QED  BY <2>1, <2>2, <1>3, <1>5, <1>6 DEF Promise!Usable
<1>11. ASSUME NEW b \in blocks, NEW c \in chunks, CutFrom(b, c)
       PROVE  /\ b.address + b.size <= base \/ base + total <= b.address - HeaderSize
              /\ ~CutFrom(b, chunk)
              /\ ~CutFrom(block, c)
    <2>1. /\ b.address \in Nat /\ b.size \in Nat /\ b.size > 0
          /\ c.base \in Nat /\ c.size \in Nat
          /\ HeaderSize \in Nat
        BY Numbers DEF IInv, ChunksSound
    <2>2. c.base + HeaderSize <= b.address /\ b.address + b.size <= c.base + c.size
        BY <1>11 DEF CutFrom
    <2>3. b.address + b.size <= base \/ base + total <= b.address - HeaderSize
        BY <2>1, <2>2, <1>4, <1>9
    <2>4. ~CutFrom(b, chunk)
        BY <2>1, <2>3, <1>5, <1>9 DEF CutFrom
    <2>5. ~CutFrom(block, c)
        BY <2>1, <2>2, <1>3, <1>4, <1>5, <1>9 DEF CutFrom
    <2>. QED  BY <2>3, <2>4, <2>5
<1>12. CutFrom(block, chunk)
    BY <1>3, <1>5 DEF CutFrom
<1>13. \A b \in blocks : \E c \in chunks : CutFrom(b, c)
    BY DEF IInv, HeadersIntact
<1>14. \A c \in chunks : \E b \in blocks : CutFrom(b, c)
    BY DEF IInv, HeadersIntact
<1>15. \A b \in blocks' \cup blocks, c \in chunks' \cup chunks : CutFrom(b, c)' <=> CutFrom(b, c)
    BY <1>7 DEF CutFrom
<1>16. ChunksSound' /\ ChunksApart'
    <2>1. ChunksSound'
        BY <1>2, <1>4, <1>5, <1>9 DEF IInv, ChunksSound
    <2>2. ChunksApart'
        BY <1>2, <1>4, <1>5 DEF IInv, ChunksApart
    <2>. QED  BY <2>1, <2>2
<1>17. BlocksUsable'
    BY <1>2, <1>10 DEF IInv, BlocksUsable, Promise!Usable, Promise!Block
<1>18. OneBlockEach'
    <2>1. SUFFICES ASSUME NEW b \in blocks', NEW c \in blocks', NEW h \in chunks',
                          CutFrom(b, h), CutFrom(c, h)
                   PROVE  b = c
        BY <1>7 DEF OneBlockEach, CutFrom
    <2>2. CASE h \in chunks
        <3>1. PICK d \in blocks : CutFrom(d, h)
            BY <2>2, <1>14
        <3>2. b \in blocks /\ c \in blocks
            BY <2>1, <2>2, <3>1, <1>2, <1>11
        <3>. QED  BY <2>1, <2>2, <3>2 DEF IInv, OneBlockEach
    <2>3. CASE h = chunk
        <3>1. b = block /\ c = block
            BY <2>1, <2>3, <1>2, <1>11, <1>13
        <3>. QED  BY <3>1
    <2>. QED  BY <2>1, <2>2, <2>3, <1>2
<1>19. HeadersIntact'
    <2>1. ASSUME NEW b \in blocks
          PROVE  /\ (b.address - HeaderSize) % PointerSize = 0
                 /\ \E c \in chunks :
                      /\ CutFrom(b, c)
                      /\ \A byte \in Bytes(b.address - HeaderSize, PointerSize) :
                            memory'[byte] = c.base
        <3>1. PICK c \in chunks :
                /\ CutFrom(b, c)
                /\ \A byte \in Bytes(b.address - HeaderSize, PointerSize) :
                      memory[byte] = c.base
            BY <2>1 DEF IInv, HeadersIntact
        <3>2. ASSUME NEW byte \in Bytes(b.address - HeaderSize, PointerSize)
              PROVE  memory'[byte] = memory[byte]
            <4>1. /\ b.address \in Nat /\ b.size \in Nat /\ b.size > 0
                  /\ HeaderSize \in Nat /\ PointerSize \in Nat /\ HeaderSize >= PointerSize
                  /\ c.base \in Nat /\ c.size \in Nat /\ c.base + c.size <= WordMod
                  /\ WordMod \in Nat
                BY Numbers DEF IInv, ChunksSound
            <4>2. /\ byte \in Int
                  /\ byte >= b.address - HeaderSize
                  /\ byte < b.address
                BY <3>2, <4>1 DEF Bytes
            <4>3. byte \in Word
                BY <3>1, <4>1, <4>2 DEF CutFrom, Word
            <4>4. byte \notin Bytes(address - HeaderSize, HeaderSize)
                BY <4>1, <4>2, <3>1, <1>3, <1>9, <1>11 DEF Bytes
            <4>5. byte \notin Bytes(address - HeaderSize, PointerSize)
                BY <4>1, <4>2, <3>1, <1>3, <1>9, <1>11 DEF Bytes
            <4>. QED  BY <4>3, <4>4, <4>5, <1>2
        <3>. QED  BY <3>1, <3>2 DEF IInv, HeadersIntact
    <2>2. /\ (block.address - HeaderSize) % PointerSize = 0
          /\ \A byte \in Bytes(block.address - HeaderSize, PointerSize) :
                memory'[byte] = chunk.base
        <3>1. ASSUME NEW byte \in Bytes(block.address - HeaderSize, PointerSize)
              PROVE  memory'[byte] = base
            <4>1. byte \in Word
                BY <1>3, <1>4, <1>5, <1>9, Numbers DEF Bytes, Word
            <4>. QED  BY <4>1, <1>2, <1>5
        <3>. QED  BY <3>1, <1>3, <1>5
    <2>3. \A b \in blocks' :
            /\ (b.address - HeaderSize) % PointerSize = 0
            /\ \E c \in chunks' :
                 /\ CutFrom(b, c)
                 /\ \A byte \in Bytes(b.address - HeaderSize, PointerSize) :
                       memory'[byte] = c.base
        BY <2>1, <2>2, <1>2, <1>12
    <2>4. \A c \in chunks' : \E b \in blocks' : CutFrom(b, c)
        BY <1>2, <1>12, <1>14
    <2>. QED  BY <2>3, <2>4, <1>7 DEF HeadersIntact, CutFrom, Bytes
<1>20. Promise!Next
    <2>1. block \notin blocks
        BY <1>11, <1>12, <1>13
    <2>2. ASSUME NEW b \in blocks PROVE Promise!Apart(block, b)
        <3>1. PICK c \in chunks : CutFrom(b, c)
            BY <2>2, <1>13
        <3>2. b.address + b.size <= base \/ base + total <= b.address - HeaderSize
            BY <3>1, <1>11
        <3>3. b.address \in Nat /\ b.size \in Nat /\ HeaderSize \in Nat
            BY Numbers
        <3>. QED  BY <3>2, <3>3, <1>3, <1>5, <1>9 DEF Promise!Apart, Promise!BlockEnd
    <2>3. Promise!Allocate(block)
        BY <2>2, <1>2, <1>10 DEF Promise!Allocate
    <2>. QED  BY <2>1, <2>3, <1>2 DEF Promise!Next
<1>. QED  BY <1>2, <1>16, <1>17, <1>18, <1>19, <1>20 DEF IInv, OnPlatform

\* Writing to a block leaves the headers alone.
LEMMA WriteStep ==
    ASSUME IInv, NEW block \in blocks, Write(block)
    PROVE  IInv'
<1>1. /\ memory' = [byte \in Word |->
                        IF byte \in Bytes(block.address, block.size) THEN Junk
                        ELSE memory[byte]]
      /\ platform' = platform /\ chunks' = chunks /\ blocks' = blocks
    BY DEF Write
<1>2. HeaderSize' = HeaderSize
    BY <1>1 DEF HeaderSize
<1>3. PICK own \in chunks : CutFrom(block, own)
    BY DEF IInv, HeadersIntact
<1>4. ASSUME NEW b \in blocks, NEW c \in chunks, CutFrom(b, c),
             NEW byte \in Bytes(b.address - HeaderSize, PointerSize)
      PROVE  memory'[byte] = memory[byte]
    <2>1. /\ b.address \in Nat /\ b.size \in Nat /\ b.size > 0
          /\ block.address \in Nat /\ block.size \in Nat
          /\ HeaderSize \in Nat /\ PointerSize \in Nat /\ HeaderSize >= PointerSize
          /\ c.base \in Nat /\ c.size \in Nat /\ c.base + c.size <= WordMod
          /\ own.base \in Nat /\ own.size \in Nat
          /\ WordMod \in Nat
        BY Numbers DEF IInv, ChunksSound
    <2>2. byte \in Int /\ byte >= b.address - HeaderSize /\ byte < b.address
        BY <1>4, <2>1 DEF Bytes
    <2>3. byte \in Word
        BY <1>4, <2>1, <2>2 DEF CutFrom, Word
    <2>4. byte \in Nat
        BY <2>3, <2>1 DEF Word
    <2>5. byte \notin Bytes(block.address, block.size)
        <3>1. CASE c = own
            <4>1. b = block
                BY <3>1, <1>3, <1>4 DEF IInv, OneBlockEach
            <4>. QED  BY <4>1, <2>1, <2>2 DEF Bytes
        <3>2. CASE c # own
            <4>1. ~(byte >= own.base /\ byte < own.base + own.size)
                BY <3>2, <2>1, <2>2, <2>4, <1>4, StaysInChunk
            <4>. QED  BY <4>1, <1>3, <2>1, <2>2 DEF Bytes, CutFrom
        <3>. QED  BY <3>1, <3>2
    <2>. QED  BY <2>3, <2>5, <1>1
<1>5. \A b \in blocks :
        /\ (b.address - HeaderSize) % PointerSize = 0
        /\ \E c \in chunks :
             /\ CutFrom(b, c)
             /\ \A byte \in Bytes(b.address - HeaderSize, PointerSize) :
                   memory'[byte] = c.base
    <2>1. SUFFICES ASSUME NEW b \in blocks
                   PROVE  /\ (b.address - HeaderSize) % PointerSize = 0
                          /\ \E c \in chunks :
                               /\ CutFrom(b, c)
                               /\ \A byte \in Bytes(b.address - HeaderSize, PointerSize) :
                                     memory'[byte] = c.base
        OBVIOUS
    <2>2. PICK c \in chunks :
            /\ CutFrom(b, c)
            /\ \A byte \in Bytes(b.address - HeaderSize, PointerSize) : memory[byte] = c.base
        BY <2>1 DEF IInv, HeadersIntact
    <2>. QED  BY <2>1, <2>2, <1>4 DEF IInv, HeadersIntact
<1>6. HeadersIntact'
    BY <1>1, <1>2, <1>5 DEF IInv, HeadersIntact, CutFrom, Bytes
<1>. QED
    BY <1>1, <1>2, <1>6
    DEF IInv, OnPlatform, ChunksSound, ChunksApart, BlocksUsable, OneBlockEach, CutFrom,
        Promise!Usable, Promise!Block

\* Freeing a block frees its chunk and no other, and the bytes that the system
\* takes back are in no other block's header.
LEMMA FreeStep ==
    ASSUME IInv, NEW block \in blocks, Free(block)
    PROVE  IInv'
<1>. DEFINE freed == {chunk \in chunks : chunk.base = Base(block)}
<1>1. /\ chunks' = chunks \ freed
      /\ memory' = [byte \in Word |->
                        IF \E chunk \in freed : byte \in Bytes(chunk.base, chunk.size)
                        THEN Junk ELSE memory[byte]]
      /\ blocks' = blocks \ {block}
      /\ platform' = platform
    BY DEF Free
<1>2. HeaderSize' = HeaderSize
    BY <1>1 DEF HeaderSize
<1>3. PICK own \in chunks :
        /\ CutFrom(block, own)
        /\ \A byte \in Bytes(block.address - HeaderSize, PointerSize) :
              memory[byte] = own.base
    BY DEF IInv, HeadersIntact
<1>4. Base(block) = own.base
    <2>1. block.address - HeaderSize \in Bytes(block.address - HeaderSize, PointerSize)
        BY Numbers DEF Bytes
    <2>. QED  BY <2>1, <1>3 DEF Base
<1>5. \A b \in blocks, c \in chunks : CutFrom(b, c) => c.size > 0
    BY Numbers DEF IInv, ChunksSound, CutFrom
<1>6. freed = {own}
    <2>1. ASSUME NEW c \in chunks, c.base = own.base, c # own
          PROVE  FALSE
        <3>1. PICK b \in blocks : CutFrom(b, c)
            BY <2>1 DEF IInv, HeadersIntact
        <3>2. c.size > 0 /\ own.size > 0
            BY <3>1, <1>3, <1>5
        <3>3. c.base + c.size <= own.base \/ own.base + own.size <= c.base
            BY <2>1 DEF IInv, ChunksApart
        <3>. QED  BY <2>1, <3>2, <3>3 DEF IInv, ChunksSound
    <2>. QED  BY <2>1, <1>4
<1>. HIDE DEF freed
<1>7. ASSUME NEW b \in blocks, b # block, NEW c \in chunks, CutFrom(b, c)
      PROVE  c # own
    BY <1>3, <1>7 DEF IInv, OneBlockEach
<1>8. ASSUME NEW b \in blocks, b # block, NEW c \in chunks, CutFrom(b, c),
             NEW byte \in Bytes(b.address - HeaderSize, PointerSize)
      PROVE  memory'[byte] = memory[byte]
    <2>1. /\ b.address \in Nat /\ b.size \in Nat /\ b.size > 0
          /\ HeaderSize \in Nat /\ PointerSize \in Nat /\ HeaderSize >= PointerSize
          /\ c.base \in Nat /\ c.size \in Nat /\ c.base + c.size <= WordMod
          /\ own.base \in Nat /\ own.size \in Nat
          /\ WordMod \in Nat
        BY Numbers DEF IInv, ChunksSound
    <2>2. byte \in Int /\ byte >= b.address - HeaderSize /\ byte < b.address
        BY <1>8, <2>1 DEF Bytes
    <2>3. byte \in Word
        BY <1>8, <2>1, <2>2 DEF CutFrom, Word
    <2>4. byte \in Nat
        BY <2>3, <2>1 DEF Word
    <2>5. ~(byte >= own.base /\ byte < own.base + own.size)
        BY <2>1, <2>2, <2>4, <1>7, <1>8, StaysInChunk
    <2>6. byte \notin Bytes(own.base, own.size)
        BY <2>1, <2>2, <2>5 DEF Bytes
    <2>. QED  BY <2>3, <2>6, <1>1, <1>6
<1>9. \A b \in blocks' :
        /\ (b.address - HeaderSize) % PointerSize = 0
        /\ \E c \in chunks' :
             /\ CutFrom(b, c)
             /\ \A byte \in Bytes(b.address - HeaderSize, PointerSize) :
                   memory'[byte] = c.base
    <2>1. SUFFICES ASSUME NEW b \in blocks, b # block
                   PROVE  /\ (b.address - HeaderSize) % PointerSize = 0
                          /\ \E c \in chunks' :
                               /\ CutFrom(b, c)
                               /\ \A byte \in Bytes(b.address - HeaderSize, PointerSize) :
                                     memory'[byte] = c.base
        BY <1>1
    <2>2. PICK c \in chunks :
            /\ CutFrom(b, c)
            /\ \A byte \in Bytes(b.address - HeaderSize, PointerSize) : memory[byte] = c.base
        BY <2>1 DEF IInv, HeadersIntact
    <2>3. c \in chunks'
        BY <2>1, <2>2, <1>1, <1>6, <1>7
    <2>. QED  BY <2>1, <2>2, <2>3, <1>8 DEF IInv, HeadersIntact
<1>10. \A c \in chunks' : \E b \in blocks' : CutFrom(b, c)
    <2>1. SUFFICES ASSUME NEW c \in chunks, c # own
                   PROVE  \E b \in blocks' : CutFrom(b, c)
        BY <1>1, <1>6
    <2>2. PICK b \in blocks : CutFrom(b, c)
        BY <2>1 DEF IInv, HeadersIntact
    <2>3. b # block
        <3>1. SUFFICES ASSUME CutFrom(block, c) PROVE FALSE
            BY <2>2
        <3>2. own.base + own.size <= c.base \/ c.base + c.size <= own.base
            BY <2>1 DEF IInv, ChunksApart
        <3>. QED  BY <3>1, <3>2, <1>3, Numbers DEF IInv, ChunksSound, CutFrom
    <2>. QED  BY <2>2, <2>3, <1>1
<1>11. HeadersIntact'
    BY <1>2, <1>9, <1>10 DEF HeadersIntact, CutFrom, Bytes
<1>12. blocks' \subseteq blocks /\ chunks' \subseteq chunks
    BY <1>1
<1>. QED
    BY <1>1, <1>2, <1>11, <1>12
    DEF IInv, OnPlatform, ChunksSound, ChunksApart, BlocksUsable, OneBlockEach, CutFrom,
        Promise!Usable, Promise!Block

\* Every step keeps the invariant and is one that allocators may take.
LEMMA NextIInv == IInv /\ [Next]_vars => IInv' /\ [Promise!Next]_blocks
<1>. SUFFICES ASSUME IInv, [Next]_vars PROVE IInv' /\ [Promise!Next]_blocks
    OBVIOUS
<1>1. ASSUME NEW size \in Sizes, NEW alignment \in Alignments, NEW base \in Word,
             Alloc(size, alignment, base)
      PROVE  IInv' /\ Promise!Next
    BY <1>1, AllocStep
<1>2. ASSUME NEW block \in blocks, Write(block)
      PROVE  IInv' /\ blocks' = blocks
    BY <1>2, WriteStep DEF Write
<1>3. ASSUME NEW block \in blocks, Free(block)
      PROVE  IInv' /\ Promise!Next
    <2>1. blocks' \subseteq blocks
        BY <1>3 DEF Free
    <2>. QED  BY <1>3, <2>1, FreeStep DEF Promise!Next, Promise!Release
<1>4. CASE UNCHANGED vars
    BY <1>4
    DEF vars, IInv, OnPlatform, ChunksSound, ChunksApart, BlocksUsable, OneBlockEach,
        HeadersIntact, CutFrom, HeaderSize, Bytes, Promise!Usable, Promise!Block
<1>. QED  BY <1>1, <1>2, <1>3, <1>4 DEF Next

\* The invariant holds in every reachable state.
THEOREM Invariance == Spec => []IInv
<1>1. Init => IInv
    BY InitIInv
<1>2. IInv /\ [Next]_vars => IInv'
    BY NextIInv
<1>. QED  BY <1>1, <1>2, PTL DEF Spec

\* Every header that linux_alloc or _win32_alloc writes leads linux_free or
\* _win32_free to the chunk of its block, whatever is allocated, written and
\* freed in between.
THEOREM HeadersStayIntact == Spec => []HeadersIntact
<1>1. IInv => HeadersIntact
    BY DEF IInv
<1>. QED  BY <1>1, Invariance, PTL

\* The system's allocators keep the promise of the allocation interface: blocks
\* are objects, aligned as asked for, and apart.
THEOREM SystemAllocatorImplementsHeap == Spec => ImplementsHeap
<1>1. Init => Promise!Init
    BY DEF Init, Promise!Init
<1>2. IInv /\ [Next]_vars => [Promise!Next]_blocks
    BY NextIInv
<1>. QED  BY <1>1, <1>2, Invariance, PTL DEF Spec, ImplementsHeap, Promise!Spec

=============================================================================
