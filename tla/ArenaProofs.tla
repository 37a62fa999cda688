----------------------------- MODULE ArenaProofs -----------------------------
(***************************************************************************)
(* The properties of module Arena, for every word size and every buffer,   *)
(* capacity, size and alignment.  Type correctness and the soundness of    *)
(* the blocks are inductive together; the exactness of an allocation       *)
(* follows from the type invariant and the arithmetic of MemoryProofs.   *)
(***************************************************************************)
EXTENDS Arena, MemoryProofs

\* The inductive invariant; type correctness needs the soundness of the blocks
\* no more than it needs the emptiness, but a new arena must have no blocks.
IInv == TypeOK /\ BlocksSound /\ EmptyIsEmpty

\* An empty arena without blocks, such as every call but an allocation leaves.
LEMMA NoBlocks ==
    ASSUME blocks' = {}, arena'.size = 0
    PROVE  BlocksSound' /\ EmptyIsEmpty'
BY DEF BlocksSound, EmptyIsEmpty, IsEmpty

\* The empty arena satisfies the invariant.
LEMMA InitIInv == Init => IInv
<1>. SUFFICES ASSUME Init PROVE IInv
    OBVIOUS
<1>1. arena = [buffer |-> 0, capacity |-> 0, size |-> 0] /\ handle = FALSE /\ blocks = {}
    BY DEF Init, ZeroArena, NullAddress
<1>2. 0 \in Word
    BY WordAssumption DEF Word
<1>3. TypeOK
    BY <1>1, <1>2 DEF TypeOK, NullAddress
<1>4. BlocksSound /\ EmptyIsEmpty
    BY <1>1 DEF BlocksSound, EmptyIsEmpty, IsEmpty
<1>. QED  BY <1>3, <1>4 DEF IInv

\* A new arena has no blocks: an arena without a buffer has handed out none.
LEMMA CreateStep ==
    ASSUME IInv, NEW buffer \in Buffers, NEW capacity \in Capacities,
           Create(buffer, capacity)
    PROVE  IInv'
<1>1. /\ arena' = [buffer |-> buffer, capacity |-> capacity, size |-> 0]
      /\ blocks' = blocks /\ handle' = handle
      /\ IsObject(buffer, capacity)
    BY DEF Create
<1>2. blocks = {}
    BY DEF IInv, TypeOK, EmptyIsEmpty, IsEmpty, Create
<1>3. TypeOK'
    <2>1. IsArena(arena')
        BY <1>1, WordAssumption, ArenaAssumption DEF IsArena, IsObject, Word
    <2>2. arena'.buffer # NullAddress
        BY <1>1 DEF IsObject
    <2>. QED  BY <1>1, <1>2, <2>1, <2>2 DEF IInv, TypeOK, IsArena
<1>4. BlocksSound' /\ EmptyIsEmpty'
    BY <1>1, <1>2, NoBlocks
<1>. QED  BY <1>3, <1>4 DEF IInv

\* A creation that fails leaves no buffer, whatever capacity it stores.
LEMMA CreateFailsStep ==
    ASSUME IInv, NEW capacity \in Capacities, CreateFails(capacity)
    PROVE  IInv'
<1>1. /\ arena' = [buffer |-> NullAddress, capacity |-> capacity, size |-> 0]
      /\ blocks' = blocks /\ handle' = handle
    BY DEF CreateFails
<1>2. blocks = {}
    BY DEF IInv, TypeOK, EmptyIsEmpty, IsEmpty, CreateFails
<1>3. TypeOK'
    BY <1>1, <1>2, WordAssumption, ArenaAssumption DEF IInv, TypeOK, Word, NullAddress
<1>4. BlocksSound' /\ EmptyIsEmpty'
    BY <1>1, <1>2, NoBlocks
<1>. QED  BY <1>3, <1>4 DEF IInv

\* Clearing and destroying take all blocks back.
LEMMA EmptyingStep ==
    ASSUME IInv, Destroy \/ Clear
    PROVE  IInv'
<1>1. /\ blocks' = {} /\ handle' = handle
      /\ arena'.size = 0
    BY DEF Destroy, Clear, Rewind, ZeroArena, IInv, TypeOK
<1>2. TypeOK'
    <2>1. CASE Destroy
        BY <2>1, <1>1, WordAssumption
        DEF Destroy, ZeroArena, IInv, TypeOK, Word, NullAddress
    <2>2. CASE Clear
        <3>1. arena' = [buffer |-> arena.buffer, capacity |-> arena.capacity, size |-> 0]
            BY <2>2 DEF Clear, Rewind, IInv, TypeOK
        <3>2. /\ arena' \in [buffer : Word, capacity : Word, size : Word]
              /\ arena.buffer # NullAddress => IsArena(arena')
            BY <3>1, WordAssumption DEF IInv, TypeOK, IsArena, IsObject, Word
        <3>. QED  BY <3>1, <3>2, <1>1 DEF IInv, TypeOK
    <2>. QED  BY <2>1, <2>2
<1>. QED  BY <1>1, <1>2, NoBlocks DEF IInv

\* A block lies above all that were handed out before it, and below the new
\* size of the arena.
LEMMA AllocStep ==
    ASSUME IInv, NEW size \in Sizes, NEW alignment \in Alignments, Alloc(size, alignment)
    PROVE  IInv'
<1>. DEFINE address == BlockAddress(arena, alignment)
            block   == [address |-> address, size |-> size, alignment |-> alignment]
<1>1. /\ CanAlloc(arena, size, alignment)
      /\ arena' = AfterAlloc(arena, size, alignment)
      /\ blocks' = blocks \cup {block}
      /\ handle' = handle
    BY DEF Alloc
<1>2. /\ size \in Nat /\ size \in Word /\ size > 0
      /\ alignment \in Word /\ alignment > 0
    <2>1. size \in Word /\ alignment \in Word
        BY ArenaAssumption
    <2>. QED  BY <2>1, <1>1, WordAssumption DEF CanAlloc, Forwards, IsPowerOfTwo, Word
<1>3. IsArena(arena)
    BY <1>1 DEF CanAlloc, IInv, TypeOK
<1>4. /\ address \in Word
      /\ address % alignment = 0
      /\ address >= arena.buffer + arena.size
    BY <1>1, <1>2, <1>3, AlignedAddress
<1>5. /\ IsArena(arena')
      /\ arena'.buffer = arena.buffer
      /\ arena'.size >= arena.size
      /\ address + size = arena'.buffer + arena'.size
    BY <1>1, <1>2, <1>3, AllocatedBlock
<1>6. /\ arena.buffer \in Nat /\ arena.size \in Nat /\ arena'.size \in Nat
      /\ arena'.size > 0
    <2>1. arena.buffer \in Nat /\ arena.size \in Nat /\ arena'.size \in Nat
        BY <1>3, <1>5, WordAssumption DEF IsArena, Word
    <2>. HIDE DEF address
    <2>. QED  BY <2>1, <1>2, <1>4, <1>5, WordAssumption DEF Word
<1>7. \A b \in blocks :
        /\ b.address \in Nat /\ b.size \in Nat
        /\ b.address % b.alignment = 0
        /\ arena.buffer <= b.address
        /\ BlockEnd(b) <= arena.buffer + arena.size
    BY WordAssumption DEF IInv, TypeOK, BlocksSound, Word
<1>8. TypeOK'
    <2>1. block \in [address : Word, size : Word \ {0}, alignment : Word \ {0}]
        <3>. HIDE DEF address
        <3>. QED  BY <1>2, <1>4
    <2>2. blocks' \subseteq [address : Word, size : Word \ {0}, alignment : Word \ {0}]
        <3>. HIDE DEF block
        <3>. QED  BY <2>1, <1>1 DEF IInv, TypeOK
    <2>3. /\ arena' \in [buffer : Word, capacity : Word, size : Word]
          /\ arena'.buffer # NullAddress
        BY <1>5 DEF IsArena, IsObject
    <2>. QED  BY <1>1, <1>5, <2>2, <2>3 DEF IInv, TypeOK
<1>9. \A b \in blocks' :
        /\ b.address % b.alignment = 0
        /\ arena'.buffer <= b.address
        /\ BlockEnd(b) <= arena'.buffer + arena'.size
    <2>1. SUFFICES ASSUME NEW b \in blocks'
                   PROVE  /\ b.address % b.alignment = 0
                          /\ arena'.buffer <= b.address
                          /\ BlockEnd(b) <= arena'.buffer + arena'.size
        OBVIOUS
    <2>2. CASE b \in blocks
        BY <2>2, <1>5, <1>6, <1>7 DEF BlockEnd
    <2>3. CASE b = block
        <3>1. b.address = address /\ b.size = size /\ b.alignment = alignment
            BY <2>3
        <3>. HIDE DEF address, block
        <3>. QED  BY <3>1, <1>2, <1>4, <1>5, <1>6, WordAssumption DEF BlockEnd, Word
    <2>. QED  BY <2>1, <2>2, <2>3, <1>1
<1>10. \A b, c \in blocks' :
        b # c => BlockEnd(b) <= c.address \/ BlockEnd(c) <= b.address
    <2>1. \A b \in blocks : BlockEnd(b) <= block.address
        <3>1. block.address = address
            OBVIOUS
        <3>. HIDE DEF address, block
        <3>. QED  BY <3>1, <1>4, <1>6, <1>7, WordAssumption DEF BlockEnd, Word
    <2>2. \A b, c \in blocks :
            b # c => BlockEnd(b) <= c.address \/ BlockEnd(c) <= b.address
        BY DEF IInv, BlocksSound
    <2>. HIDE DEF block
    <2>. QED  BY <2>1, <2>2, <1>1
<1>11. BlocksSound'
    BY <1>9, <1>10 DEF BlocksSound, BlockEnd
<1>12. EmptyIsEmpty'
    <2>1. blocks' # {}
        <3>. HIDE DEF block
        <3>. QED  BY <1>1
    <2>2. arena'.size # 0
        BY <1>6
    <2>. QED  BY <2>1, <2>2 DEF EmptyIsEmpty, IsEmpty
<1>. QED  BY <1>8, <1>11, <1>12 DEF IInv

\* Every step keeps the invariant.
LEMMA NextIInv == IInv /\ [Next]_vars => IInv'
<1>. SUFFICES ASSUME IInv, [Next]_vars PROVE IInv'
    OBVIOUS
<1>1. ASSUME NEW buffer \in Buffers, NEW capacity \in Capacities, Create(buffer, capacity)
      PROVE  IInv'
    BY <1>1, CreateStep
<1>2. ASSUME NEW capacity \in Capacities, CreateFails(capacity)
      PROVE  IInv'
    BY <1>2, CreateFailsStep
<1>3. CASE Destroy \/ Clear
    BY <1>3, EmptyingStep
<1>4. ASSUME GetAllocator \/ UNCHANGED <<arena, blocks>>, handle' \in BOOLEAN
      PROVE  IInv'
    BY <1>4
    DEF GetAllocator, IInv, TypeOK, BlocksSound, BlockEnd, EmptyIsEmpty, IsEmpty
<1>5. ASSUME NEW size \in Sizes, NEW alignment \in Alignments, Alloc(size, alignment)
      PROVE  IInv'
    BY <1>5, AllocStep
<1>6. CASE GetAllocator
    BY <1>6, <1>4 DEF GetAllocator
<1>7. CASE UNCHANGED vars
    BY <1>7, <1>4 DEF vars, IInv, TypeOK
<1>. QED  BY <1>1, <1>2, <1>3, <1>5, <1>6, <1>7 DEF Next

\* The invariant holds in every reachable state.
THEOREM Invariance == Spec => []IInv
<1>1. Init => IInv
    BY InitIInv
<1>2. IInv /\ [Next]_vars => IInv'
    BY NextIInv
<1>. QED  BY <1>1, <1>2, PTL DEF Spec

\* The fields of an arena (arena.h) keep their types, and the size in use never
\* exceeds the capacity, whatever calls are made.
THEOREM TypeCorrect == Spec => []TypeOK
<1>1. IInv => TypeOK
    BY DEF IInv
<1>. QED  BY <1>1, Invariance, PTL

\* The blocks that _arena_alloc returns are aligned, inside the buffer and
\* disjoint, until arena_clear or arena_destroy takes them back.
THEOREM BlocksAreSound == Spec => []BlocksSound
<1>1. IInv => BlocksSound
    BY DEF IInv
<1>. QED  BY <1>1, Invariance, PTL

\* arena_is_empty answers for the blocks that are out.
THEOREM EmptinessIsTold == Spec => []EmptyIsEmpty
<1>1. IInv => EmptyIsEmpty
    BY DEF IInv
<1>. QED  BY <1>1, Invariance, PTL

\* _arena_alloc refuses a request only if no address in the arena would do, and
\* wastes no byte otherwise.
THEOREM AllocationIsExact == Spec => []AllocIsExact
<1>1. IInv => AllocIsExact
    <2>. SUFFICES ASSUME IInv, NEW size \in Sizes, NEW alignment \in Alignments,
                         Forwards(size, alignment)
                  PROVE  IF CanAlloc(arena, size, alignment)
                         THEN /\ FitsAt(BlockAddress(arena, alignment), size, alignment)
                              /\ \A address \in Word :
                                    FitsAt(address, size, alignment) =>
                                        BlockAddress(arena, alignment) <= address
                         ELSE \A address \in Word : ~FitsAt(address, size, alignment)
        BY DEF AllocIsExact
    <2>1. /\ size \in Nat
          /\ alignment \in Word
          /\ WordMod % alignment = 0
        BY ArenaAssumption, AlignmentAssumption, WordAssumption DEF Forwards, Word
    <2>2. ASSUME NEW address \in Word, FitsAt(address, size, alignment)
          PROVE  /\ CanAlloc(arena, size, alignment)
                 /\ BlockAddress(arena, alignment) <= address
        <3>1. IsArena(arena)
            BY <2>2 DEF FitsAt, IInv, TypeOK
        <3>2. /\ address % alignment = 0
              /\ address >= arena.buffer + arena.size
              /\ address + size <= arena.buffer + arena.capacity
            BY <2>2 DEF FitsAt
        <3>. QED  BY <2>1, <3>1, <3>2, AllocatesLowest
    <2>3. ASSUME CanAlloc(arena, size, alignment)
          PROVE  FitsAt(BlockAddress(arena, alignment), size, alignment)
        <3>1. arena.buffer # NullAddress /\ IsArena(arena)
            BY <2>3 DEF CanAlloc, IInv, TypeOK
        <3>. QED  BY <2>1, <2>3, <3>1, AlignedAddress DEF FitsAt
    <2>. QED  BY <2>2, <2>3
<1>. QED  BY <1>1, Invariance, PTL

\* The block of an allocation is usable and apart from those that are out.
LEMMA AllocIsAllocate ==
    ASSUME IInv, NEW size \in Sizes, NEW alignment \in Alignments, Alloc(size, alignment)
    PROVE  Promise!Next
<1>. DEFINE address == BlockAddress(arena, alignment)
            block   == [address |-> address, size |-> size, alignment |-> alignment]
<1>1. CanAlloc(arena, size, alignment) /\ blocks' = blocks \cup {block}
    BY DEF Alloc
<1>2. /\ size \in Nat /\ size \in Word /\ size > 0
      /\ alignment \in Word /\ alignment # 0
      /\ WordMod \in Nat
    <2>1. size \in Word /\ alignment \in Word
        BY ArenaAssumption
    <2>. QED  BY <2>1, <1>1, WordAssumption DEF CanAlloc, Forwards, IsPowerOfTwo, Word
<1>3. IsArena(arena)
    BY <1>1 DEF CanAlloc, IInv, TypeOK
<1>4. /\ arena.buffer \in Nat /\ arena.buffer > 0
      /\ arena.capacity \in Nat /\ arena.size \in Nat
      /\ arena.buffer + arena.capacity <= WordMod
    BY <1>2, <1>3 DEF IsArena, IsObject, Word, NullAddress
<1>5. /\ address \in Word /\ address \in Nat
      /\ address % alignment = 0
      /\ address >= arena.buffer + arena.size
      /\ address + size <= arena.buffer + arena.capacity
    <2>1. /\ address \in Word
          /\ address % alignment = 0
          /\ address >= arena.buffer + arena.size
          /\ address + size <= arena.buffer + arena.capacity
        BY <1>1, <1>2, <1>3, AlignedAddress
    <2>. HIDE DEF address
    <2>. QED  BY <2>1, <1>2 DEF Word
<1>6. block.address = address /\ block.size = size /\ block.alignment = alignment
    OBVIOUS
<1>7. block \in Promise!Block
    <2>. HIDE DEF address
    <2>. QED  BY <1>2, <1>5 DEF Promise!Block, Promise!Word, Word
<1>. HIDE DEF address, block
<1>8. Promise!Usable(block)
    <2>1. Promise!IsObject(block.address, block.size)
        BY <1>2, <1>4, <1>5, <1>6
        DEF Promise!IsObject, Promise!NullAddress, Promise!Word, Word
    <2>. QED  BY <2>1, <1>2, <1>5, <1>6, <1>7 DEF Promise!Usable
<1>9. ASSUME NEW b \in blocks
      PROVE  b.address \in Nat /\ b.size \in Nat /\ b.size > 0 /\ b.address + b.size <= address
    <2>1. /\ b.address \in Nat /\ b.size \in Nat /\ b.size > 0
        BY <1>2 DEF IInv, TypeOK, Word
    <2>2. b.address + b.size <= arena.buffer + arena.size
        BY DEF IInv, BlocksSound, BlockEnd
    <2>. QED  BY <2>1, <2>2, <1>4, <1>5
<1>10. block \notin blocks
    BY <1>5, <1>6, <1>9
<1>11. Promise!Allocate(block)
    BY <1>1, <1>6, <1>8, <1>9
    DEF Promise!Allocate, Promise!Apart, Promise!BlockEnd
<1>. QED  BY <1>1, <1>10, <1>11 DEF Promise!Next

\* To the holder of its allocator an arena (arena.c) is an allocator that keeps
\* the promise of the allocation interface, whatever becomes of the arena.
THEOREM ArenaImplementsHeap == Spec => ImplementsHeap
<1>1. Init => Promise!Init
    BY DEF Init, Promise!Init
<1>2. IInv /\ [Next]_vars => [Promise!Next]_blocks
    <2>. SUFFICES ASSUME IInv, [Next]_vars PROVE [Promise!Next]_blocks
        OBVIOUS
    <2>1. ASSUME NEW size \in Sizes, NEW alignment \in Alignments, Alloc(size, alignment)
          PROVE  Promise!Next
        BY <2>1, AllocIsAllocate
    <2>2. CASE Destroy \/ Clear
        BY <2>2 DEF Destroy, Clear, Promise!Next, Promise!Release
    <2>3. ASSUME \/ GetAllocator
                 \/ UNCHANGED vars
                 \/ \E buffer \in Buffers, capacity \in Capacities : Create(buffer, capacity)
                 \/ \E capacity \in Capacities : CreateFails(capacity)
          PROVE  UNCHANGED blocks
        BY <2>3 DEF GetAllocator, vars, Create, CreateFails
    <2>. QED  BY <2>1, <2>2, <2>3 DEF Next
<1>. QED  BY <1>1, <1>2, Invariance, PTL DEF Spec, ImplementsHeap, Promise!Spec

=============================================================================
