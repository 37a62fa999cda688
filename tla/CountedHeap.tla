----------------------------- MODULE CountedHeap -----------------------------
(***************************************************************************)
(* A heap behind an AllocatorCounter (memory/allocator_counter.c): the     *)
(* blocks the backing allocator has handed out, and the statistics that    *)
(* the counter keeps of them.  The heap is a record                        *)
(*                                                                         *)
(*   blocks    the size and alignment each block was allocated with        *)
(*   info      the AllocatorCounterInfo                                    *)
(*   observed  history: the statistics that the callback of the counter    *)
(*             was last called with                                        *)
(*   misused   history: a block was freed that was not allocated, or with  *)
(*             another size or alignment than it was allocated with, which *)
(*             the interface forbids (memory/allocator.h)                  *)
(*                                                                         *)
(* The module declares no variables; DArray and EventBusMemory have a heap *)
(* and use these operators, one for each call of the counter's callbacks.  *)
(***************************************************************************)
EXTENDS Allocator, FiniteSets

CONSTANTS
    NullBlock,      \* the null pointer
    Blocks,         \* the addresses the backing allocator hands out
    MaxAllocations  \* bound of the model: allocations in a behaviour

ASSUME HeapAssumption ==
    /\ NullBlock \notin Blocks
    /\ IsFiniteSet(Blocks)
    /\ MaxAllocations \in Nat

-----------------------------------------------------------------------------

ZeroInfo ==
    [live_bytes |-> 0, live_allocations |-> 0, total_allocations |-> 0,
     total_deallocations |-> 0, peak_bytes |-> 0]

NotAllocated == [size |-> 0, alignment |-> 0]

\* allocator_counter_create over a backing allocator nobody has used.
EmptyHeap ==
    [blocks   |-> [block \in Blocks |-> NotAllocated],
     info     |-> ZeroInfo,
     observed |-> ZeroInfo,
     misused  |-> FALSE]

Allocated(heap) == {block \in Blocks : heap.blocks[block] # NotAllocated}

\* The bytes of a block, each with its number in it.
BytesOf(heap, block) == {block} \X (1 .. heap.blocks[block].size)

\* How many bytes there are in blocks not freed yet.
OutstandingBytes(heap) == Cardinality(UNION {BytesOf(heap, block) : block \in Blocks})

\* The blocks that a successful allocation of size bytes may return (it may
\* also fail).  Blocks share one address space; a freed address may be handed
\* out again.
Available(heap, size) ==
    IF /\ heap.info.total_allocations < MaxAllocations
       /\ OutstandingBytes(heap) + size <= WordMax
    THEN Blocks \ Allocated(heap)
    ELSE {}

\* Mutation of CountAlloc: the peak is taken before the new block counts.
CountAllocLatePeak(info, size) ==
    [info EXCEPT
        !.live_allocations  = (@ + 1) % WordMod,
        !.live_bytes        = (@ + size) % WordMod,
        !.total_allocations = (@ + 1) % WordMod,
        !.peak_bytes        = IF @ < info.live_bytes THEN info.live_bytes ELSE @]

CountAlloc(info, size) ==
    LET live_bytes == (info.live_bytes + size) % WordMod
    IN  [info EXCEPT
            !.live_allocations  = (@ + 1) % WordMod,
            !.live_bytes        = live_bytes,
            !.total_allocations = (@ + 1) % WordMod,
            !.peak_bytes        = IF @ < live_bytes THEN live_bytes ELSE @]

CountFree(info, size) ==
    [info EXCEPT
        !.live_allocations    = (@ - 1) % WordMod,
        !.live_bytes          = (@ - size) % WordMod,
        !.total_deallocations = (@ + 1) % WordMod]

\* The callback is called with the statistics, once they are counted.
Notified(heap) == [heap EXCEPT !.observed = heap.info]

\* counter_alloc, when the backing allocator returns block.
AfterCounterAlloc(heap, block, size, alignment) ==
    Notified([heap EXCEPT
        !.blocks[block] = [size |-> size, alignment |-> alignment],
        !.info          = CountAlloc(@, size)])

\* counter_free, as allocator_free calls it: a null block and a request that
\* is not forwarded change nothing.
AfterCounterFree(heap, block, size, alignment) ==
    IF block = NullBlock \/ ~Forwards(size, alignment)
    THEN heap
    ELSE Notified([heap EXCEPT
            !.blocks[block] = NotAllocated,
            !.info          = CountFree(@, size),
            !.misused       = \/ @
                              \/ heap.blocks[block] # [size |-> size, alignment |-> alignment]])

\* allocator_free_array
AfterCounterFreeArray(heap, block, element_size, alignment, count) ==
    IF ArrayFits(element_size, count)
    THEN AfterCounterFree(heap, block, element_size * count, alignment)
    ELSE heap

-----------------------------------------------------------------------------

\* The counter tells the truth about the heap, also to its callback.  (The
\* totals only grow, so that each may come round to 0 before the other.)
CountsExactly(heap) ==
    /\ heap.observed.live_bytes = OutstandingBytes(heap)
    /\ heap.info.live_allocations = Cardinality(Allocated(heap))
    /\ heap.info.live_bytes = OutstandingBytes(heap)
    /\ heap.info.peak_bytes >= heap.info.live_bytes
    /\ (heap.info.total_allocations - heap.info.total_deallocations) % WordMod =
            heap.info.live_allocations

=============================================================================
