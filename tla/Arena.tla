-------------------------------- MODULE Arena --------------------------------
(***************************************************************************)
(* An arena (memory/arena.c) and the allocator that arena_get_allocator    *)
(* makes of it.  That allocator is a copy of three pointers: it outlives   *)
(* arena_clear, arena_destroy and a second arena_create, and an allocation *)
(* through it works on the arena as it is then.                            *)
(***************************************************************************)
EXTENDS ArenaOps, FiniteSets

CONSTANTS
    Buffers,    \* addresses the backing allocator may return
    Capacities, \* capacities, sizes and alignments
    Sizes,      \*   that the application
    Alignments  \*   asks for

ASSUME ArenaAssumption ==
    /\ Buffers \subseteq Word \ {NullAddress}
    /\ Capacities \subseteq Word
    /\ Sizes \subseteq Word
    /\ Alignments \subseteq Word

\* A word has a power of two of values, so that a sum that wraps around keeps
\* its remainder by any alignment.
ASSUME AlignmentAssumption ==
    \A alignment \in Word : IsPowerOfTwo(alignment) => WordMod % alignment = 0

VARIABLES
    arena,      \* the Arena struct
    handle,     \* the application has an Allocator with the arena's callbacks
    blocks      \* history: the blocks handed out since the arena was last empty

vars == <<arena, handle, blocks>>

-----------------------------------------------------------------------------

Init ==
    /\ arena = ZeroArena
    /\ handle = FALSE
    /\ blocks = {}

\* arena_create on a struct without a buffer; the backing allocator returns a
\* block that lies inside the address space.
Create(buffer, capacity) ==
    /\ arena.buffer = NullAddress
    /\ Forwards(capacity, 1)
    /\ IsObject(buffer, capacity)
    /\ arena' = [buffer |-> buffer, capacity |-> capacity, size |-> 0]
    /\ UNCHANGED <<handle, blocks>>

\* It fills in the struct before it knows.
CreateFails(capacity) ==
    /\ arena.buffer = NullAddress
    /\ arena' = [buffer |-> NullAddress, capacity |-> capacity, size |-> 0]
    /\ UNCHANGED <<handle, blocks>>

\* Mutation of Destroy: the struct is not zeroed.
DestroyBufferOnly ==
    /\ arena' = [arena EXCEPT !.buffer = NullAddress]
    /\ blocks' = {}
    /\ UNCHANGED handle

\* arena_destroy
Destroy ==
    /\ arena' = ZeroArena
    /\ blocks' = {}
    /\ UNCHANGED handle

\* arena_clear
Clear ==
    /\ arena' = Rewind(arena, 0)
    /\ blocks' = {}
    /\ UNCHANGED handle

\* arena_get_allocator; without a buffer it returns an allocator that refuses.
GetAllocator ==
    /\ arena.buffer # NullAddress
    /\ handle' = TRUE
    /\ UNCHANGED <<arena, blocks>>

\* allocator_alloc, where it does not return NULL.  (Where it does, and in
\* allocator_free over an arena, nothing changes.)
Alloc(size, alignment) ==
    /\ handle
    /\ CanAlloc(arena, size, alignment)
    /\ arena' = AfterAlloc(arena, size, alignment)
    /\ blocks' = blocks \cup {[address   |-> BlockAddress(arena, alignment),
                               size      |-> size,
                               alignment |-> alignment]}
    /\ UNCHANGED handle

\* arena_is_empty
IsEmpty == arena.size = 0

-----------------------------------------------------------------------------

Next ==
    \/ \E buffer \in Buffers, capacity \in Capacities : Create(buffer, capacity)
    \/ \E capacity \in Capacities : CreateFails(capacity)
    \/ Destroy
    \/ Clear
    \/ GetAllocator
    \/ \E size \in Sizes, alignment \in Alignments : Alloc(size, alignment)

Spec == Init /\ [][Next]_vars

-----------------------------------------------------------------------------
(* Properties                                                              *)

\* The arena uses no more than it has, and what it has is an object.
TypeOK ==
    /\ arena \in [buffer : Word, capacity : Word, size : Word]
    /\ arena.buffer # NullAddress => IsArena(arena)
    /\ arena.buffer = NullAddress => arena.size = 0
    /\ handle \in BOOLEAN
    /\ blocks \subseteq [address : Word, size : Word \ {0}, alignment : Word \ {0}]

BlockEnd(block) == block.address + block.size

\* The blocks handed out since the last clear are aligned, lie in the part of
\* the buffer that is in use, and share no byte, although the code computes
\* their addresses with arithmetic that wraps around.
BlocksSound ==
    /\ \A block \in blocks :
          /\ block.address % block.alignment = 0
          /\ arena.buffer <= block.address
          /\ BlockEnd(block) <= arena.buffer + arena.size
    /\ \A b, c \in blocks :
          b # c => BlockEnd(b) <= c.address \/ BlockEnd(c) <= b.address

\* A block of that size and alignment fits at the address, above the blocks
\* there are.
FitsAt(address, size, alignment) ==
    /\ arena.buffer # NullAddress
    /\ address >= arena.buffer + arena.size
    /\ address + size <= arena.buffer + arena.capacity
    /\ address % alignment = 0

\* An allocation is refused only if no address would do, and returns the lowest
\* one that does: the padding is least, and neither the end of the buffer nor
\* the end of the address space costs a byte.
AllocIsExact ==
    \A size \in Sizes, alignment \in Alignments :
        Forwards(size, alignment) =>
            IF CanAlloc(arena, size, alignment)
            THEN /\ FitsAt(BlockAddress(arena, alignment), size, alignment)
                 /\ \A address \in Word :
                       FitsAt(address, size, alignment) =>
                            BlockAddress(arena, alignment) <= address
            ELSE \A address \in Word : ~FitsAt(address, size, alignment)

\* arena_is_empty says whether a block is out: nothing is left of the blocks
\* that were out when the arena was cleared or destroyed, and each block counts.
EmptyIsEmpty == IsEmpty <=> blocks = {}

Promise == INSTANCE Heap

\* To its users an arena is an allocator like those of the systems, except that
\* the blocks are given back all at once.
ImplementsHeap == Promise!Spec

=============================================================================
