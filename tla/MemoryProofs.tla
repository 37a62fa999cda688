----------------------------- MODULE MemoryProofs -----------------------------
(***************************************************************************)
(* Facts about memory, for every word size: the arithmetic of the linear   *)
(* allocator (memory/arena.c), which wraps around in three places, and     *)
(* whose blocks are nevertheless where they should be; and a heap behind   *)
(* an AllocatorCounter (memory/allocator_counter.c), which an allocation   *)
(* and a free with the size of the allocation keep exact although it       *)
(* counts modulo the word size.                                            *)
(***************************************************************************)
EXTENDS ArenaOps, CountedHeap, TLAPS, FiniteSetTheorems

\* A number between 0 and d that is a multiple of d is 0.
LEMMA SmallMultiple ==
    ASSUME NEW k \in Int, NEW d \in Nat, d > 0, NEW r \in 0 .. d - 1, r = d * k
    PROVE  r = 0
<1>1. CASE k >= 1
    <2>1. d * k >= d
        BY <1>1, Z3
    <2>. QED  BY <2>1
<1>2. CASE k <= -1
    <2>1. d * k <= -d
        BY <1>2, Z3
    <2>. QED  BY <2>1
<1>3. CASE k = 0
    BY <1>3
<1>. QED  BY <1>1, <1>2, <1>3

\* Rounding down to a multiple of d gives a multiple of d.
LEMMA RoundDown ==
    ASSUME NEW n \in Nat, NEW d \in Nat, d > 0
    PROVE  /\ n % d \in 0 .. d - 1
           /\ n - (n % d) \in Nat
           /\ (n - (n % d)) % d = 0
<1>. DEFINE m == n - (n % d)
            r == m % d
<1>1. /\ n % d \in 0 .. d - 1
      /\ n \div d \in Int
      /\ m = d * (n \div d)
    BY Z3
<1>2. m \in Nat
    BY <1>1, Z3
<1>3. /\ r \in 0 .. d - 1
      /\ m \div d \in Int
      /\ m = d * (m \div d) + r
    BY <1>2, Z3
<1>4. r = d * ((n \div d) - (m \div d))
    <2>. HIDE DEF m, r
    <2>. QED  BY <1>1, <1>3, Z3
<1>5. r = 0
    <2>. HIDE DEF m, r
    <2>. QED  BY <1>1, <1>3, <1>4, SmallMultiple
<1>. QED  BY <1>1, <1>2, <1>5

\* Reduction modulo the word size of a sum that overflows at most once.
LEMMA WrapOnce ==
    ASSUME NEW n \in Nat, n < 2 * WordMod
    PROVE  n % WordMod = IF n < WordMod THEN n ELSE n - WordMod
BY WordAssumption, Z3

\* Reduction modulo the word size of a difference that wraps around.
LEMMA WrapDifference ==
    ASSUME NEW a \in Word, NEW b \in Word
    PROVE  (a - b) % WordMod = IF a >= b THEN a - b ELSE a - b + WordMod
BY WordAssumption, Z3 DEF Word

\* An allocation that succeeds has not wrapped around: if rounding up passes the
\* end of the address space the padding exceeds what is left of the arena.
LEMMA AlignedAddress ==
    ASSUME NEW arena, IsArena(arena), NEW size \in Nat, NEW alignment \in Word,
           CanAlloc(arena, size, alignment)
    PROVE  LET address == BlockAddress(arena, alignment)
           IN  /\ address \in Word
               /\ address % alignment = 0
               /\ address >= arena.buffer + arena.size
               /\ Padding(arena, alignment) = address - (arena.buffer + arena.size)
               /\ address + size <= arena.buffer + arena.capacity
<1>. DEFINE start   == arena.buffer + arena.size
            room    == arena.capacity - arena.size
            bumped  == (start + (alignment - 1)) % WordMod
            address == bumped - (bumped % alignment)
            padding == Padding(arena, alignment)
<1>1. /\ WordMod \in Nat
      /\ arena.buffer \in Nat /\ arena.buffer > 0
      /\ arena.capacity \in Nat
      /\ arena.size \in Nat
      /\ arena.buffer + arena.capacity <= WordMod
      /\ alignment \in Nat /\ alignment < WordMod
    BY WordAssumption DEF IsArena, IsObject, Word, NullAddress
<1>2. /\ size > 0
      /\ alignment > 0
      /\ padding <= room
      /\ size <= room - padding
    BY <1>1 DEF CanAlloc, Forwards, IsPowerOfTwo
<1>3. Position(arena) \in Word
    BY <1>1, Z3 DEF Position, Word
<1>4. padding \in Nat
    <2>1. bumped \in Nat /\ address \in Int
        BY <1>1, <1>2, RoundDown
    <2>2. BlockAddress(arena, alignment) \in Int
        <3>1. (Position(arena) + (alignment - 1)) \in Nat
            BY <1>1, <1>2, <1>3 DEF Word
        <3>2. ((Position(arena) + (alignment - 1)) % WordMod) \in Nat
            BY <3>1, <1>1, <1>2, RoundDown
        <3>. QED  BY <3>2, <1>1, <1>2, RoundDown DEF BlockAddress, AlignForward
    <2>. QED  BY <1>1, <1>2, <1>3, <2>2, Z3 DEF Padding, Word
<1>5. start \in Word /\ Position(arena) = start
    <2>1. start < WordMod /\ start \in Nat
        BY <1>1, <1>2, <1>4
    <2>. QED  BY <2>1, <1>1, WrapOnce DEF Position, Word
<1>6. BlockAddress(arena, alignment) = address
    BY <1>5 DEF BlockAddress, AlignForward
<1>7. CASE start + (alignment - 1) < WordMod
    <2>1. bumped = start + (alignment - 1)
        BY <1>7, <1>1, <1>2, <1>5, WrapOnce DEF Word
    <2>2. /\ bumped \in Nat
          /\ bumped % alignment \in 0 .. alignment - 1
          /\ address % alignment = 0
        <3>1. bumped \in Nat
            BY <2>1, <1>1, <1>2, <1>5 DEF Word
        <3>. HIDE DEF bumped
        <3>. QED  BY <3>1, <1>1, <1>2, RoundDown
    <2>3. address \in Word /\ address >= start
        <3>. HIDE DEF bumped, start
        <3>. QED  BY <2>1, <2>2, <1>7, <1>1, <1>2, <1>5 DEF Word
    <2>4. padding = address - start
        BY <2>3, <1>5, <1>6, WrapDifference DEF Padding
    <2>5. address + size <= arena.buffer + arena.capacity
        <3>. HIDE DEF address, padding
        <3>. QED  BY <2>3, <2>4, <1>1, <1>2 DEF Word
    <2>. HIDE DEF address
    <2>. QED  BY <2>2, <2>3, <2>4, <2>5, <1>6
<1>8. CASE start + (alignment - 1) >= WordMod
    <2>1. bumped = start + (alignment - 1) - WordMod
        BY <1>8, <1>1, <1>2, <1>5, WrapOnce DEF Word
    <2>2. bumped \in 0 .. alignment - 1
        BY <2>1, <1>8, <1>1, <1>2, <1>5 DEF Word
    <2>3. bumped % alignment = bumped
        <3>. HIDE DEF bumped
        <3>. QED  BY <2>2, <1>1, <1>2, Z3
    <2>4. address = 0
        BY <2>2, <2>3
    <2>5. padding = WordMod - start
        <3>1. padding = (0 - start) % WordMod
            BY <2>4, <1>5, <1>6 DEF Padding
        <3>2. 0 \in Word /\ start > 0
            BY <1>1 DEF Word
        <3>. QED  BY <3>1, <3>2, <1>5, <1>1, WrapDifference
    <2>. QED  BY <2>5, <1>1, <1>2
<1>. QED  BY <1>7, <1>8, <1>1, <1>2, <1>5 DEF Word

\* What a successful allocation does to the arena: the block ends where the
\* arena's new size says, inside the buffer, above everything handed out before.
LEMMA AllocatedBlock ==
    ASSUME NEW arena, IsArena(arena), NEW size \in Nat, NEW alignment \in Word,
           CanAlloc(arena, size, alignment)
    PROVE  LET after == AfterAlloc(arena, size, alignment)
           IN  /\ IsArena(after)
               /\ after.buffer = arena.buffer
               /\ after.capacity = arena.capacity
               /\ after.size >= arena.size
               /\ BlockAddress(arena, alignment) + size = after.buffer + after.size
<1>. DEFINE address == BlockAddress(arena, alignment)
            after   == AfterAlloc(arena, size, alignment)
<1>1. /\ arena.buffer \in Nat
      /\ arena.capacity \in Nat /\ arena.capacity < WordMod
      /\ arena.size \in Nat
      /\ WordMod \in Nat
    BY WordAssumption DEF IsArena, Word
<1>2. /\ address \in Nat
      /\ address >= arena.buffer + arena.size
      /\ Padding(arena, alignment) = address - (arena.buffer + arena.size)
      /\ address + size <= arena.buffer + arena.capacity
    BY AlignedAddress, WordAssumption DEF Word
<1>3. /\ after.buffer = arena.buffer
      /\ after.capacity = arena.capacity
      /\ after.size = arena.size + Padding(arena, alignment) + size
      /\ after = [buffer |-> arena.buffer, capacity |-> arena.capacity,
                  size |-> arena.size + Padding(arena, alignment) + size]
    BY DEF AfterAlloc, IsArena
<1>4. /\ after.size = address + size - arena.buffer
      /\ after.size \in Word
      /\ after.size <= arena.capacity
      /\ after.size >= arena.size
    <2>. HIDE DEF address, after
    <2>. QED  BY <1>1, <1>2, <1>3 DEF Word
<1>5. IsArena(after)
    <2>. HIDE DEF after
    <2>. QED  BY <1>3, <1>4 DEF IsArena
<1>. QED
    <2>. HIDE DEF address, after
    <2>. QED  BY <1>1, <1>2, <1>3, <1>4, <1>5 DEF address, after

\* Multiples of d are at least d apart.
LEMMA MultiplesApart ==
    ASSUME NEW m \in Nat, NEW n \in Nat, NEW d \in Nat, d > 0,
           m % d = 0, n % d = 0, m < n
    PROVE  m + d <= n
<1>1. /\ m \div d \in Int /\ m = d * (m \div d)
      /\ n \div d \in Int /\ n = d * (n \div d)
    BY Z3
<1>2. SUFFICES ASSUME NEW j \in Int, NEW k \in Int, m = d * j, n = d * k
               PROVE  m + d <= n
    BY <1>1
<1>3. CASE k >= j + 1
    <2>1. d * k >= d * (j + 1)
        BY <1>3, Z3
    <2>2. d * (j + 1) = d * j + d
        BY Z3
    <2>. QED  BY <2>1, <2>2, <1>2
<1>4. CASE k <= j
    <2>1. d * k <= d * j
        BY <1>4, Z3
    <2>. QED  BY <2>1, <1>2
<1>. QED  BY <1>3, <1>4

\* An allocation for which there is room is not refused, and gets the lowest
\* address there is for it.
LEMMA AllocatesLowest ==
    ASSUME NEW arena, IsArena(arena), NEW size \in Nat, NEW alignment \in Word,
           Forwards(size, alignment), WordMod % alignment = 0,
           NEW address \in Word, address % alignment = 0,
           address >= arena.buffer + arena.size,
           address + size <= arena.buffer + arena.capacity
    PROVE  /\ CanAlloc(arena, size, alignment)
           /\ BlockAddress(arena, alignment) <= address
<1>. DEFINE start   == arena.buffer + arena.size
            bumped  == start + (alignment - 1)
            aligned == bumped - (bumped % alignment)
<1>1. /\ WordMod \in Nat
      /\ arena.buffer \in Nat /\ arena.buffer > 0
      /\ arena.capacity \in Nat
      /\ arena.size \in Nat /\ arena.size <= arena.capacity
      /\ alignment \in Nat /\ alignment > 0
      /\ size > 0
      /\ address \in Nat /\ address < WordMod
    BY WordAssumption DEF IsArena, IsObject, Word, NullAddress, Forwards, IsPowerOfTwo
<1>2. start \in Word /\ Position(arena) = start
    <2>1. start \in Nat /\ start < WordMod
        BY <1>1
    <2>. QED  BY <2>1, <1>1, WrapOnce DEF Position, Word
<1>3. address + alignment <= WordMod
    BY <1>1, MultiplesApart
<1>4. bumped \in Nat /\ bumped < WordMod
    BY <1>1, <1>2, <1>3 DEF Word
<1>5. BlockAddress(arena, alignment) = aligned
    <2>1. bumped % WordMod = bumped
        <3>. HIDE DEF bumped
        <3>1. bumped < 2 * WordMod
            BY <1>4, <1>1
        <3>. QED  BY <3>1, <1>4, WrapOnce
    <2>. QED  BY <2>1, <1>2 DEF BlockAddress, AlignForward
<1>6. /\ bumped % alignment \in 0 .. alignment - 1
      /\ aligned \in Nat
      /\ aligned % alignment = 0
    <2>. HIDE DEF bumped
    <2>. QED  BY <1>4, <1>1, RoundDown
<1>7. aligned >= start
    <2>. DEFINE rest == bumped % alignment
    <2>. HIDE DEF rest
    <2>. QED  BY <1>6, <1>2, <1>1 DEF Word, rest
<1>8. aligned <= address
    <2>1. SUFFICES ASSUME address < aligned PROVE FALSE
        BY <1>6, <1>1
    <2>2. address + alignment <= aligned
        <3>. HIDE DEF aligned
        <3>. QED  BY <2>1, <1>1, <1>6, MultiplesApart
    <2>3. aligned <= bumped
        <3>. DEFINE rest == bumped % alignment
        <3>. HIDE DEF rest
        <3>. QED  BY <1>6, <1>4, <1>1 DEF rest
    <2>4. bumped = start + (alignment - 1)
        OBVIOUS
    <2>. HIDE DEF aligned, bumped
    <2>. QED  BY <2>2, <2>3, <2>4, <1>1, <1>2, <1>6 DEF Word
<1>9. Padding(arena, alignment) = aligned - start
    <2>1. aligned \in Word
        <3>. HIDE DEF aligned
        <3>. QED  BY <1>8, <1>6, <1>1 DEF Word
    <2>. HIDE DEF aligned, start
    <2>. QED  BY <2>1, <1>2, <1>5, <1>7, WrapDifference DEF Padding
<1>10. CanAlloc(arena, size, alignment)
    <2>1. /\ aligned - start <= arena.capacity - arena.size
          /\ size <= arena.capacity - arena.size - (aligned - start)
        <3>. HIDE DEF aligned
        <3>. QED  BY <1>1, <1>2, <1>6, <1>7, <1>8 DEF Word
    <2>2. arena.buffer # NullAddress
        BY <1>1 DEF NullAddress
    <2>. HIDE DEF aligned, start
    <2>. QED  BY <2>1, <2>2, <1>1, <1>9 DEF CanAlloc
<1>. QED  BY <1>5, <1>8, <1>10

-----------------------------------------------------------------------------
(* Arithmetic modulo the word size                                         *)

\* A sum or difference that overflows at most once.
LEMMA WrapEither ==
    ASSUME NEW n \in Int, -WordMod <= n, n < 2 * WordMod
    PROVE  n % WordMod = IF n < 0 THEN n + WordMod
                         ELSE IF n < WordMod THEN n ELSE n - WordMod
BY WordAssumption, Z3

\* Counting one more in a minuend or in a subtrahend.
LEMMA DifferenceOfTotals ==
    ASSUME NEW a \in Word, NEW f \in Word, NEW live \in Word, (a - f) % WordMod = live
    PROVE  /\ live + 1 \in Word => (((a + 1) % WordMod) - f) % WordMod = live + 1
           /\ live # 0 => (a - ((f + 1) % WordMod)) % WordMod = live - 1
<1>. WordMod \in Nat /\ WordMod > 1
    BY WordAssumption
<1>1. live = IF a - f < 0 THEN a - f + WordMod ELSE a - f
    BY WrapEither DEF Word
<1>2. ASSUME live + 1 \in Word PROVE (((a + 1) % WordMod) - f) % WordMod = live + 1
    <2>. DEFINE n == (a + 1) % WordMod
    <2>1. n = IF a + 1 < WordMod THEN a + 1 ELSE a + 1 - WordMod
        BY WrapEither DEF Word
    <2>. HIDE DEF n
    <2>2. n - f \in Int /\ -WordMod <= n - f /\ n - f < 2 * WordMod
        BY <2>1 DEF Word
    <2>3. (n - f) % WordMod = IF n - f < 0 THEN n - f + WordMod
                              ELSE IF n - f < WordMod THEN n - f ELSE n - f - WordMod
        BY <2>2, WrapEither
    <2>4. (n - f) % WordMod = live + 1
        BY <1>1, <1>2, <2>1, <2>3 DEF Word
    <2>. QED  BY <2>4 DEF n
<1>3. ASSUME live # 0 PROVE (a - ((f + 1) % WordMod)) % WordMod = live - 1
    <2>. DEFINE n == (f + 1) % WordMod
    <2>1. n = IF f + 1 < WordMod THEN f + 1 ELSE f + 1 - WordMod
        BY WrapEither DEF Word
    <2>. HIDE DEF n
    <2>2. a - n \in Int /\ -WordMod <= a - n /\ a - n < 2 * WordMod
        BY <2>1 DEF Word
    <2>3. (a - n) % WordMod = IF a - n < 0 THEN a - n + WordMod
                              ELSE IF a - n < WordMod THEN a - n ELSE a - n - WordMod
        BY <2>2, WrapEither
    <2>4. (a - n) % WordMod = live - 1
        BY <1>1, <1>3, <2>1, <2>3 DEF Word
    <2>. QED  BY <2>4 DEF n
<1>. QED  BY <1>2, <1>3

-----------------------------------------------------------------------------
(* The bytes that are outstanding                                          *)

Info == [live_bytes : Word, live_allocations : Word, peak_bytes : Word,
         total_allocations : Word, total_deallocations : Word]

BlockTable == [Blocks -> [size : Word, alignment : Word]]

Heaps == [blocks : BlockTable, info : Info, observed : Info, misused : BOOLEAN]

\* The bytes of the blocks of a set.
BytesIn(heap, S) == UNION {BytesOf(heap, block) : block \in S}

\* A block has as many bytes as its size says.
LEMMA BytesOfBlock ==
    ASSUME NEW heap, heap.blocks \in BlockTable, NEW block \in Blocks
    PROVE  /\ IsFiniteSet(BytesOf(heap, block))
           /\ Cardinality(BytesOf(heap, block)) = heap.blocks[block].size
<1>. DEFINE size == heap.blocks[block].size
<1>1. size \in Nat
    BY WordAssumption DEF BlockTable, Word
<1>. HIDE DEF size
<1>2. IsFiniteSet({block}) /\ Cardinality({block}) = 1
    BY FS_Singleton
<1>3. IsFiniteSet(1 .. size) /\ Cardinality(1 .. size) = size
    BY <1>1, FS_Interval
<1>4. /\ IsFiniteSet({block} \X (1 .. size))
      /\ Cardinality({block} \X (1 .. size)) = Cardinality({block}) * Cardinality(1 .. size)
    BY <1>2, <1>3, FS_Product, Zenon
<1>5. Cardinality({block} \X (1 .. size)) = size
    BY <1>1, <1>2, <1>3, <1>4
<1>. QED  BY <1>4, <1>5 DEF BytesOf, size

\* There are finitely many outstanding bytes.
LEMMA BytesAreFinite ==
    ASSUME NEW heap, heap.blocks \in BlockTable, NEW S \in SUBSET Blocks
    PROVE  IsFiniteSet(BytesIn(heap, S))
<1>1. IsFiniteSet(Blocks) /\ IsFiniteSet(1 .. WordMod)
    BY HeapAssumption, WordAssumption, FS_Interval
<1>2. IsFiniteSet(Blocks \X (1 .. WordMod))
    BY <1>1, FS_Product
<1>3. BytesIn(heap, S) \subseteq Blocks \X (1 .. WordMod)
    BY WordAssumption DEF BytesIn, BytesOf, BlockTable, Word
<1>. QED  BY <1>2, <1>3, FS_Subset

\* The outstanding bytes are those of a block and those of the others.
LEMMA OutstandingSplit ==
    ASSUME NEW heap, heap.blocks \in BlockTable, NEW block \in Blocks
    PROVE  /\ OutstandingBytes(heap) \in Nat
           /\ Cardinality(BytesIn(heap, Blocks \ {block})) \in Nat
           /\ OutstandingBytes(heap) = heap.blocks[block].size
                                        + Cardinality(BytesIn(heap, Blocks \ {block}))
<1>. DEFINE own    == BytesOf(heap, block)
            others == BytesIn(heap, Blocks \ {block})
<1>1. IsFiniteSet(own) /\ Cardinality(own) = heap.blocks[block].size
    BY BytesOfBlock
<1>2. IsFiniteSet(others) /\ Cardinality(others) \in Nat
    BY BytesAreFinite, FS_CardinalityType
<1>3. own \cap others = {}
    BY DEF BytesOf, BytesIn
<1>4. UNION {BytesOf(heap, b) : b \in Blocks} = own \cup others
    BY DEF BytesIn
<1>5. Cardinality(own \cup others) = Cardinality(own) + Cardinality(others) - Cardinality({})
    <2>. HIDE DEF own, others
    <2>1. Cardinality(own \cup others) = Cardinality(own) + Cardinality(others)
                                            - Cardinality(own \cap others)
        BY <1>1, <1>2, FS_Union
    <2>. QED  BY <2>1, <1>3
<1>6. Cardinality({}) = 0
    BY FS_EmptySet
<1>7. heap.blocks[block].size \in Nat
    BY WordAssumption DEF BlockTable, Word
<1>8. OutstandingBytes(heap) = Cardinality(own \cup others)
    BY <1>4 DEF OutstandingBytes
<1>. HIDE DEF own
<1>9. OutstandingBytes(heap) = heap.blocks[block].size + Cardinality(others)
    BY <1>1, <1>2, <1>5, <1>6, <1>7, <1>8
<1>. QED  BY <1>2, <1>7, <1>9

\* What another entry for one block changes.
LEMMA OutstandingChanges ==
    ASSUME NEW heap, NEW other, heap.blocks \in BlockTable, other.blocks \in BlockTable,
           NEW block \in Blocks, NEW entry,
           other.blocks = [heap.blocks EXCEPT ![block] = entry]
    PROVE  /\ OutstandingBytes(heap) \in Nat
           /\ OutstandingBytes(other) \in Nat
           /\ OutstandingBytes(heap) >= heap.blocks[block].size
           /\ OutstandingBytes(other) = OutstandingBytes(heap) - heap.blocks[block].size
                                            + entry.size
<1>1. BytesIn(other, Blocks \ {block}) = BytesIn(heap, Blocks \ {block})
    <2>1. \A b \in Blocks \ {block} : other.blocks[b] = heap.blocks[b]
        BY DEF BlockTable
    <2>. QED  BY <2>1 DEF BytesIn, BytesOf
<1>2. other.blocks[block] = entry
    BY DEF BlockTable
<1>3. heap.blocks[block].size \in Nat /\ other.blocks[block].size \in Nat
    BY WordAssumption DEF BlockTable, Word
<1>4. /\ OutstandingBytes(heap) \in Nat
      /\ Cardinality(BytesIn(heap, Blocks \ {block})) \in Nat
      /\ OutstandingBytes(heap) = heap.blocks[block].size
                                    + Cardinality(BytesIn(heap, Blocks \ {block}))
    BY OutstandingSplit
<1>5. /\ OutstandingBytes(other) \in Nat
      /\ OutstandingBytes(other) = other.blocks[block].size
                                    + Cardinality(BytesIn(other, Blocks \ {block}))
    BY OutstandingSplit
<1>. QED  BY <1>1, <1>2, <1>3, <1>4, <1>5

\* Where every block in use has a byte, there are not more blocks than bytes.
LEMMA BlocksHaveBytes ==
    ASSUME NEW heap, heap.blocks \in BlockTable,
           \A block \in Allocated(heap) : heap.blocks[block].size # 0
    PROVE  /\ IsFiniteSet(Allocated(heap))
           /\ Cardinality(Allocated(heap)) \in Nat
           /\ Cardinality(Allocated(heap)) <= OutstandingBytes(heap)
<1>. DEFINE bytes == UNION {BytesOf(heap, block) : block \in Blocks}
            first == [block \in Allocated(heap) |-> <<block, 1>>]
<1>1. IsFiniteSet(bytes)
    BY BytesAreFinite DEF BytesIn
<1>2. \A block \in Allocated(heap) : <<block, 1>> \in bytes
    <2>. SUFFICES ASSUME NEW block \in Allocated(heap) PROVE <<block, 1>> \in bytes
        OBVIOUS
    <2>1. heap.blocks[block].size \in Nat \ {0} /\ block \in Blocks
        BY WordAssumption DEF BlockTable, Word, Allocated
    <2>2. <<block, 1>> \in BytesOf(heap, block)
        BY <2>1 DEF BytesOf
    <2>. QED  BY <2>1, <2>2
<1>3. first \in Injection(Allocated(heap), bytes)
    BY <1>2 DEF Injection, IsInjective
<1>4. /\ IsFiniteSet(Allocated(heap))
      /\ Cardinality(Allocated(heap)) <= Cardinality(bytes)
    BY <1>1, <1>3, FS_Injection
<1>. QED  BY <1>4, FS_CardinalityType DEF OutstandingBytes

\* Where nothing is allocated, no byte is outstanding.
LEMMA NothingOutstanding ==
    ASSUME NEW heap, Allocated(heap) = {}
    PROVE  OutstandingBytes(heap) = 0
<1>1. \A block \in Blocks : BytesOf(heap, block) = {}
    <2>1. \A block \in Blocks : heap.blocks[block] = NotAllocated
        BY DEF Allocated
    <2>. QED  BY <2>1 DEF BytesOf, NotAllocated
<1>2. UNION {BytesOf(heap, block) : block \in Blocks} = {}
    BY <1>1
<1>. QED  BY <1>2, FS_EmptySet DEF OutstandingBytes

-----------------------------------------------------------------------------
(* Allocating and freeing                                                  *)

\* The counter is exact and nothing was misused; what is in use has a size.
HeapSound(heap) ==
    /\ heap \in Heaps
    /\ ~heap.misused
    /\ \A block \in Allocated(heap) : heap.blocks[block].size # 0
    /\ CountsExactly(heap)

\* A new counter.
LEMMA EmptyHeapIsSound ==
    /\ HeapSound(EmptyHeap)
    /\ Allocated(EmptyHeap) = {}
<1>1. EmptyHeap \in Heaps
    BY WordAssumption DEF EmptyHeap, Heaps, BlockTable, Info, ZeroInfo, NotAllocated, Word
<1>2. Allocated(EmptyHeap) = {}
    BY DEF EmptyHeap, Allocated
<1>3. OutstandingBytes(EmptyHeap) = 0
    BY <1>2, NothingOutstanding
<1>4. CountsExactly(EmptyHeap)
    <2>1. EmptyHeap.info = ZeroInfo /\ EmptyHeap.observed = ZeroInfo
        BY DEF EmptyHeap
    <2>2. (0 - 0) % WordMod = 0
        BY WordAssumption, WrapEither
    <2>. QED  BY <1>2, <1>3, <2>1, <2>2, FS_EmptySet DEF CountsExactly, ZeroInfo
<1>. QED  BY <1>1, <1>2, <1>4 DEF HeapSound, EmptyHeap

\* An allocation adds a block.
LEMMA AllocIsSound ==
    ASSUME NEW heap, HeapSound(heap), NEW size \in Word, size # 0, NEW alignment \in Word,
           NEW block \in Available(heap, size)
    PROVE  LET after == AfterCounterAlloc(heap, block, size, alignment)
           IN  /\ HeapSound(after)
               /\ after.blocks = [heap.blocks EXCEPT ![block] =
                                    [size |-> size, alignment |-> alignment]]
               /\ Allocated(after) = Allocated(heap) \cup {block}
<1>. DEFINE after == AfterCounterAlloc(heap, block, size, alignment)
            entry == [size |-> size, alignment |-> alignment]
<1>. WordMod \in Nat /\ WordMod > 1
    BY WordAssumption
<1>1. /\ block \in Blocks
      /\ block \notin Allocated(heap)
      /\ OutstandingBytes(heap) + size <= WordMax
    BY DEF Available
<1>2. /\ heap \in Heaps
      /\ heap.blocks \in BlockTable
      /\ heap.info \in Info
    BY DEF HeapSound, Heaps
<1>3. heap.blocks[block] = NotAllocated
    BY <1>1 DEF Allocated
<1>4. /\ after.blocks = [heap.blocks EXCEPT ![block] = entry]
      /\ after.info = CountAlloc(heap.info, size)
      /\ after.observed = after.info
      /\ after.misused = heap.misused
      /\ after = [blocks |-> after.blocks, info |-> after.info,
                  observed |-> after.observed, misused |-> after.misused]
    <2>. DEFINE counted == [heap EXCEPT !.blocks[block] = entry,
                                       !.info = CountAlloc(@, size)]
    <2>1. /\ counted.blocks = [heap.blocks EXCEPT ![block] = entry]
          /\ counted.info = CountAlloc(heap.info, size)
          /\ counted.misused = heap.misused
          /\ counted = [blocks |-> counted.blocks, info |-> counted.info,
                        observed |-> heap.observed, misused |-> counted.misused]
        <3>. DEFINE info == CountAlloc(heap.info, size)
        <3>1. counted = [heap EXCEPT !.blocks = [heap.blocks EXCEPT ![block] = entry],
                                     !.info = info]
            BY <1>2 DEF Heaps
        <3>. HIDE DEF entry, info, counted
        <3>2. counted = [blocks |-> [heap.blocks EXCEPT ![block] = entry], info |-> info,
                         observed |-> heap.observed, misused |-> heap.misused]
            BY <1>2, <3>1 DEF Heaps
        <3>. QED  BY <3>2 DEF info
    <2>2. after = [counted EXCEPT !.observed = counted.info]
        BY DEF AfterCounterAlloc, Notified
    <2>. HIDE DEF counted, after, entry
    <2>. QED  BY <2>1, <2>2
<1>5. after.blocks \in BlockTable
    BY <1>1, <1>2, <1>4 DEF BlockTable
<1>6. entry # NotAllocated
    BY DEF NotAllocated
<1>7. Allocated(after) = Allocated(heap) \cup {block}
    BY <1>1, <1>2, <1>4, <1>6 DEF Allocated, BlockTable
<1>. HIDE DEF after
<1>8. /\ OutstandingBytes(heap) \in Nat
      /\ OutstandingBytes(after) = OutstandingBytes(heap) + size
    <2>1. heap.blocks[block].size = 0 /\ entry.size = size
        BY <1>3 DEF NotAllocated
    <2>2. /\ OutstandingBytes(heap) \in Nat
          /\ OutstandingBytes(after) \in Nat
          /\ OutstandingBytes(after) = OutstandingBytes(heap) - heap.blocks[block].size
                                            + entry.size
        <3>. HIDE DEF entry
        <3>. QED  BY <1>1, <1>2, <1>4, <1>5, OutstandingChanges
    <2>. QED  BY <2>1, <2>2 DEF Word
<1>9. \A b \in Allocated(after) : after.blocks[b].size # 0
    BY <1>1, <1>2, <1>4, <1>7 DEF HeapSound, BlockTable, Allocated
<1>10. /\ Cardinality(Allocated(after)) = Cardinality(Allocated(heap)) + 1
       /\ Cardinality(Allocated(heap)) \in Nat
       /\ Cardinality(Allocated(heap)) + 1 <= OutstandingBytes(after)
    <2>1. IsFiniteSet(Allocated(heap)) /\ Cardinality(Allocated(heap)) \in Nat
        BY <1>2, BlocksHaveBytes DEF HeapSound
    <2>2. Cardinality(Allocated(after)) = Cardinality(Allocated(heap)) + 1
        BY <1>1, <1>7, <2>1, FS_AddElement
    <2>3. Cardinality(Allocated(after)) <= OutstandingBytes(after)
        BY <1>5, <1>9, BlocksHaveBytes
    <2>. QED  BY <2>1, <2>2, <2>3
<1>11. /\ heap.info.live_bytes = OutstandingBytes(heap)
       /\ heap.info.live_allocations = Cardinality(Allocated(heap))
       /\ heap.info.peak_bytes >= heap.info.live_bytes
       /\ (heap.info.total_allocations - heap.info.total_deallocations) % WordMod =
                heap.info.live_allocations
    BY DEF HeapSound, CountsExactly
<1>12. /\ heap.info.live_bytes + size \in Word
       /\ heap.info.live_allocations + 1 \in Word
    BY <1>1, <1>8, <1>10, <1>11 DEF Word, WordMax
<1>13. /\ (heap.info.live_bytes + size) % WordMod = heap.info.live_bytes + size
       /\ (heap.info.live_allocations + 1) % WordMod = heap.info.live_allocations + 1
    BY <1>2, <1>12, WrapEither DEF Word, Info
<1>14. (heap.info.total_allocations + 1) % WordMod \in Word
    <2>. DEFINE n == heap.info.total_allocations
    <2>1. n \in Word
        BY <1>2 DEF Info
    <2>. HIDE DEF n
    <2>2. (n + 1) % WordMod = IF n + 1 < WordMod THEN n + 1 ELSE n + 1 - WordMod
        BY <2>1, WrapEither DEF Word
    <2>. QED  BY <2>1, <2>2 DEF n, Word
<1>15. /\ after.info \in Info
       /\ after.info.live_bytes = heap.info.live_bytes + size
       /\ after.info.live_allocations = heap.info.live_allocations + 1
       /\ after.info.peak_bytes >= after.info.live_bytes
       /\ after.info.total_allocations = (heap.info.total_allocations + 1) % WordMod
       /\ after.info.total_deallocations = heap.info.total_deallocations
    <2>. DEFINE live_bytes == (heap.info.live_bytes + size) % WordMod
    <2>1. /\ after.info = [live_bytes |-> live_bytes,
                           live_allocations |-> (heap.info.live_allocations + 1) % WordMod,
                           peak_bytes |-> IF heap.info.peak_bytes < live_bytes
                                          THEN live_bytes ELSE heap.info.peak_bytes,
                           total_allocations |-> (heap.info.total_allocations + 1) % WordMod,
                           total_deallocations |-> heap.info.total_deallocations]
        <3>. HIDE DEF live_bytes
        <3>. QED  BY <1>2, <1>4 DEF CountAlloc, Info, live_bytes
    <2>2. live_bytes = heap.info.live_bytes + size /\ live_bytes \in Word
        BY <1>12, <1>13
    <2>3. heap.info.peak_bytes \in Word /\ heap.info.total_deallocations \in Word
        BY <1>2 DEF Info
    <2>. HIDE DEF live_bytes
    <2>. QED  BY <1>12, <1>13, <1>14, <2>1, <2>2, <2>3 DEF Info, Word
<1>16. (after.info.total_allocations - after.info.total_deallocations) % WordMod =
            after.info.live_allocations
    BY <1>2, <1>11, <1>12, <1>15, DifferenceOfTotals DEF Info
<1>17. CountsExactly(after)
    BY <1>4, <1>8, <1>10, <1>11, <1>15, <1>16 DEF CountsExactly
<1>18. after \in Heaps
    BY <1>2, <1>4, <1>5, <1>15 DEF Heaps
<1>19. HeapSound(after)
    BY <1>4, <1>9, <1>17, <1>18 DEF HeapSound
<1>. QED  BY <1>4, <1>7, <1>19 DEF after

\* A free with the size and alignment of the allocation takes the block away.
LEMMA FreeIsSound ==
    ASSUME NEW heap, HeapSound(heap), NEW size \in Word, NEW alignment \in Word,
           Forwards(size, alignment), NEW block \in Blocks,
           heap.blocks[block] = [size |-> size, alignment |-> alignment]
    PROVE  LET after == AfterCounterFree(heap, block, size, alignment)
           IN  /\ HeapSound(after)
               /\ after.blocks = [heap.blocks EXCEPT ![block] = NotAllocated]
               /\ Allocated(after) = Allocated(heap) \ {block}
<1>. DEFINE after == AfterCounterFree(heap, block, size, alignment)
<1>. WordMod \in Nat /\ WordMod > 1
    BY WordAssumption
<1>1. /\ size # 0
      /\ block # NullBlock
    BY HeapAssumption DEF Forwards
<1>2. /\ heap \in Heaps
      /\ heap.blocks \in BlockTable
      /\ heap.info \in Info
      /\ size \in Word
    BY DEF HeapSound, Heaps, BlockTable
<1>3. block \in Allocated(heap)
    BY <1>1 DEF Allocated, NotAllocated
<1>4. /\ after.blocks = [heap.blocks EXCEPT ![block] = NotAllocated]
      /\ after.info = CountFree(heap.info, size)
      /\ after.observed = after.info
      /\ after.misused = heap.misused
      /\ after = [blocks |-> after.blocks, info |-> after.info,
                  observed |-> after.observed, misused |-> after.misused]
    BY <1>1, <1>2 DEF AfterCounterFree, Notified, Heaps, HeapSound
<1>5. after.blocks \in BlockTable
    BY <1>2, <1>4, WordAssumption DEF BlockTable, NotAllocated, Word
<1>6. Allocated(after) = Allocated(heap) \ {block}
    BY <1>2, <1>4 DEF Allocated, BlockTable
<1>. HIDE DEF after
<1>7. /\ OutstandingBytes(heap) \in Nat
      /\ OutstandingBytes(heap) >= size
      /\ OutstandingBytes(after) \in Nat
      /\ OutstandingBytes(after) = OutstandingBytes(heap) - size
    <2>1. NotAllocated.size = 0 /\ heap.blocks[block].size = size
        BY DEF NotAllocated
    <2>2. /\ OutstandingBytes(heap) \in Nat
          /\ OutstandingBytes(after) \in Nat
          /\ OutstandingBytes(heap) >= heap.blocks[block].size
          /\ OutstandingBytes(after) = OutstandingBytes(heap) - heap.blocks[block].size
                                            + NotAllocated.size
        BY <1>2, <1>4, <1>5, OutstandingChanges
    <2>. QED  BY <2>1, <2>2, <1>2 DEF Word
<1>8. \A b \in Allocated(after) : after.blocks[b].size # 0
    BY <1>2, <1>4, <1>6 DEF HeapSound, BlockTable, Allocated
<1>9. /\ Cardinality(Allocated(heap)) \in Nat \ {0}
      /\ Cardinality(Allocated(after)) = Cardinality(Allocated(heap)) - 1
    <2>1. IsFiniteSet(Allocated(heap)) /\ Cardinality(Allocated(heap)) \in Nat
        BY <1>2, BlocksHaveBytes DEF HeapSound
    <2>2. Cardinality(Allocated(heap)) # 0
        BY <1>3, <2>1, FS_EmptySet
    <2>3. Cardinality(Allocated(heap) \ {block}) = Cardinality(Allocated(heap)) - 1
        BY <1>3, <2>1, FS_RemoveElement
    <2>. QED  BY <1>6, <2>1, <2>2, <2>3
<1>10. /\ heap.info.live_bytes = OutstandingBytes(heap)
       /\ heap.info.live_allocations = Cardinality(Allocated(heap))
       /\ heap.info.peak_bytes >= heap.info.live_bytes
       /\ (heap.info.total_allocations - heap.info.total_deallocations) % WordMod =
                heap.info.live_allocations
    BY DEF HeapSound, CountsExactly
<1>11. /\ (heap.info.live_bytes - size) % WordMod = heap.info.live_bytes - size
       /\ (heap.info.live_allocations - 1) % WordMod = heap.info.live_allocations - 1
    BY <1>2, <1>7, <1>9, <1>10, WrapEither DEF Word, Info
<1>12. (heap.info.total_deallocations + 1) % WordMod \in Word
    <2>. DEFINE n == heap.info.total_deallocations
    <2>1. n \in Word
        BY <1>2 DEF Info
    <2>. HIDE DEF n
    <2>2. (n + 1) % WordMod = IF n + 1 < WordMod THEN n + 1 ELSE n + 1 - WordMod
        BY <2>1, WrapEither DEF Word
    <2>. QED  BY <2>1, <2>2 DEF n, Word
<1>13. /\ heap.info.live_bytes - size \in Word
       /\ heap.info.live_allocations - 1 \in Word
    BY <1>2, <1>7, <1>9, <1>10 DEF Word, Info
<1>14. /\ after.info \in Info
       /\ after.info.live_bytes = heap.info.live_bytes - size
       /\ after.info.live_allocations = heap.info.live_allocations - 1
       /\ after.info.peak_bytes = heap.info.peak_bytes
       /\ after.info.total_allocations = heap.info.total_allocations
       /\ after.info.total_deallocations = (heap.info.total_deallocations + 1) % WordMod
    <2>. DEFINE deallocations == (heap.info.total_deallocations + 1) % WordMod
    <2>1. after.info =
            [heap.info EXCEPT !.live_allocations = heap.info.live_allocations - 1,
                              !.live_bytes = heap.info.live_bytes - size,
                              !.total_deallocations = deallocations]
        BY <1>4, <1>11 DEF CountFree
    <2>. HIDE DEF deallocations
    <2>2. heap.info \in Info
        BY <1>2
    <2>. QED  BY <1>12, <1>13, <2>1, <2>2 DEF Info, deallocations
<1>15. (after.info.total_allocations - after.info.total_deallocations) % WordMod =
            after.info.live_allocations
    BY <1>2, <1>9, <1>10, <1>14, DifferenceOfTotals DEF Info
<1>16. after.info.peak_bytes >= after.info.live_bytes
    BY <1>2, <1>10, <1>14 DEF Info, Word
<1>17. CountsExactly(after)
    BY <1>4, <1>7, <1>9, <1>10, <1>14, <1>15, <1>16 DEF CountsExactly
<1>18. after \in Heaps
    BY <1>2, <1>4, <1>5, <1>14 DEF Heaps
<1>19. HeapSound(after)
    BY <1>4, <1>8, <1>17, <1>18 DEF HeapSound
<1>. QED  BY <1>4, <1>6, <1>19 DEF after

=============================================================================
