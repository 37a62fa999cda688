------------------------------- MODULE ArenaOps -------------------------------
(***************************************************************************)
(* The linear allocator (memory/arena.c) as operators on the Arena struct, *)
(* a record of buffer (an address), capacity and size (both usz).  The     *)
(* state machine of an arena is in module Arena; the event bus keeps its   *)
(* payload copies in an arena of its own and uses these operators.         *)
(***************************************************************************)
EXTENDS Allocator

\* The struct that arena_destroy leaves behind, and that a zeroed Arena is.
ZeroArena == [buffer |-> NullAddress, capacity |-> 0, size |-> 0]

\* A block of capacity bytes that starts at buffer lies inside the address
\* space: what every backing allocator must ensure.
IsObject(buffer, capacity) ==
    /\ buffer \in Word \ {NullAddress}
    /\ capacity \in Word
    /\ buffer + capacity <= WordMod

\* An arena whose buffer is an object, size bytes of which are handed out.
IsArena(arena) ==
    /\ arena \in [buffer : Word, capacity : Word, size : Word]
    /\ IsObject(arena.buffer, arena.capacity)
    /\ arena.size <= arena.capacity

-----------------------------------------------------------------------------

\* (ptr + mask) & ~mask with mask = alignment - 1: the addition wraps around,
\* the conjunction clears the bits below the alignment.
AlignForward(ptr, alignment) ==
    LET bumped == (ptr + (alignment - 1)) % WordMod
    IN  bumped - (bumped % alignment)

\* (uptr)arena->buffer + arena->size
Position(arena) == (arena.buffer + arena.size) % WordMod

\* Mutation of BlockAddress: the offset in the buffer is aligned, not the address.
BlockAddressFromBuffer(arena, alignment) ==
    (arena.buffer + AlignForward(arena.size, alignment)) % WordMod

\* The address of the block that the next allocation returns.
BlockAddress(arena, alignment) == AlignForward(Position(arena), alignment)

\* (usz)(aligned - current_pos): the subtraction wraps around.
Padding(arena, alignment) ==
    (BlockAddress(arena, alignment) - Position(arena)) % WordMod

\* Mutation of CanAlloc: the padding and the size are each compared with the
\* room there is, not their sum.
CanAllocApart(arena, size, alignment) ==
    /\ Forwards(size, alignment)
    /\ arena.buffer # NullAddress
    /\ arena.size <= arena.capacity
    /\ Padding(arena, alignment) <= arena.capacity - arena.size
    /\ size <= arena.capacity - arena.size

\* Mutation of CanAlloc: the last byte of the buffer is never used.
CanAllocStrictly(arena, size, alignment) ==
    /\ Forwards(size, alignment)
    /\ arena.buffer # NullAddress
    /\ arena.size <= arena.capacity
    /\ Padding(arena, alignment) <= arena.capacity - arena.size
    /\ size < arena.capacity - arena.size - Padding(arena, alignment)

\* allocator_alloc over the arena's allocator returns a block and not NULL.
CanAlloc(arena, size, alignment) ==
    /\ Forwards(size, alignment)
    /\ arena.buffer # NullAddress
    /\ arena.size <= arena.capacity
    /\ Padding(arena, alignment) <= arena.capacity - arena.size
    /\ size <= arena.capacity - arena.size - Padding(arena, alignment)

\* Mutation of AfterAlloc: the padding is not counted.
AfterAllocUnpadded(arena, size, alignment) ==
    [arena EXCEPT !.size = @ + size + 0 * alignment]

\* The arena after an allocation that CanAlloc admits.
AfterAlloc(arena, size, alignment) ==
    [arena EXCEPT !.size = @ + Padding(arena, alignment) + size]

\* arena_clear; also the rollback of a failed event_bus_publish, which stores
\* a checkpoint in the size field.
Rewind(arena, checkpoint) == [arena EXCEPT !.size = checkpoint]

=============================================================================
