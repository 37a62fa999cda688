-------------------------------- MODULE DArray --------------------------------
(***************************************************************************)
(* The growing array (containers/darray.c) on a counted heap, whose        *)
(* allocations may fail.  The elements are opaque: a buffer is a block of  *)
(* the heap and a function from element indices to values.  The buffer has *)
(* to be found again in the heap when it is freed, with the size it was    *)
(* allocated with, whatever growths, failures and callbacks came between.  *)
(*                                                                         *)
(* darray_for_each calls the application back, and the callback may push,  *)
(* clear, destroy and create: pc is "app" outside and "callback" inside.   *)
(***************************************************************************)
EXTENDS CountedHeap, Sequences

CONSTANTS
    Values,         \* what the application stores in an element
    Zero,           \* an element of zero bytes
    ElementSizes,   \* element sizes and
    Alignments,     \*   alignments that the application asks for
    Capacities      \* initial capacities that it asks for

ASSUME DArrayAssumption ==
    /\ ElementSizes \subseteq Word
    /\ Alignments \subseteq Word
    /\ Capacities \subseteq Word

VARIABLES
    darray,     \* the DArray struct
    heap,       \* see CountedHeap
    cells,      \* the elements of each block
    pc,
    index,      \* darray_for_each: its index i
    element,    \*   the element it hands to the callback: <<block, index>>
    result      \* what the last completed call returned

vars == <<darray, heap, cells, pc, index, element, result>>

\* The contents of memory nobody has written to.
Junk == NullBlock

ZeroDArray ==
    [buffer |-> NullBlock, element_size |-> 0, element_alignment |-> 0,
     size |-> 0, capacity |-> 0]

NoCells == <<>>

ElementsOf(block) == DOMAIN cells[block]

-----------------------------------------------------------------------------

Init ==
    /\ darray = ZeroDArray
    /\ heap = EmptyHeap
    /\ cells = [block \in Blocks |-> NoCells]
    /\ pc = "app"
    /\ index = 0
    /\ element = NullBlock
    /\ result = FALSE

\* darray_check
IsCreated ==
    /\ darray.buffer # NullBlock
    /\ darray.element_size # 0
    /\ darray.element_alignment # 0

LoopUnchanged == UNCHANGED <<pc, index, element>>

Refused ==
    /\ result' = FALSE
    /\ UNCHANGED <<darray, heap, cells>>
    /\ LoopUnchanged

\* The blocks that darray_resize and darray_create can obtain.
Obtainable(element_size, element_alignment, count) ==
    IF ForwardsArray(element_size, element_alignment, count)
    THEN Available(heap, element_size * count)
    ELSE {}

\* Mutation of ActualCapacity: an array may be created without room.
ActualCapacityAsAsked(capacity) == capacity

\* An array has room for one element at least.
ActualCapacity(capacity) == IF capacity = 0 THEN 1 ELSE capacity

\* The struct after darray_create, which fills it in before it allocates.
Initialised(element_size, element_alignment, capacity, buffer) ==
    [buffer            |-> buffer,
     element_size      |-> element_size,
     element_alignment |-> element_alignment,
     size              |-> 0,
     capacity          |-> ActualCapacity(capacity)]

\* Elements start at multiples of the size, so they must keep the alignment.
ValidLayout(element_size, element_alignment) ==
    /\ element_size # 0
    /\ element_alignment # 0
    /\ element_size % element_alignment = 0

\* darray_create, on a struct that owns no buffer.
Create(element_size, element_alignment, capacity) ==
    /\ darray.buffer = NullBlock
    /\ ValidLayout(element_size, element_alignment)
    /\ LET count == ActualCapacity(capacity)
       IN  \E block \in Obtainable(element_size, element_alignment, count) :
              /\ darray' = Initialised(element_size, element_alignment, capacity, block)
              /\ heap' = AfterCounterAlloc(heap, block, element_size * count,
                                           element_alignment)
              /\ cells' = [cells EXCEPT ![block] = [k \in 0 .. count - 1 |-> Junk]]
    /\ result' = TRUE
    /\ LoopUnchanged

CreateFails(element_size, element_alignment, capacity) ==
    /\ darray.buffer = NullBlock
    /\ darray' = IF ValidLayout(element_size, element_alignment)
                 THEN Initialised(element_size, element_alignment, capacity, NullBlock)
                 ELSE darray
    /\ result' = FALSE
    /\ UNCHANGED <<heap, cells>>
    /\ LoopUnchanged

\* darray_destroy
Destroy ==
    /\ darray' = ZeroDArray
    /\ heap' = AfterCounterFreeArray(heap, darray.buffer, darray.element_size,
                                     darray.element_alignment, darray.capacity)
    /\ cells' = [block \in Blocks |-> IF block = darray.buffer THEN NoCells ELSE cells[block]]
    /\ LoopUnchanged
    /\ UNCHANGED result

\* darray_clear
Clear ==
    /\ darray' = [darray EXCEPT !.size = 0]
    /\ UNCHANGED <<heap, cells, result>>
    /\ LoopUnchanged

-----------------------------------------------------------------------------
(* darray_push and darray_push_zeroed; value is what the caller stores in  *)
(* the element that it gets (push), or zero bytes (push_zeroed).           *)

MaxCapacity == WordMax \div darray.element_size

CanPush ==
    /\ IsCreated
    /\ darray.capacity # 0
    /\ darray.size <= darray.capacity
    /\ darray.capacity <= MaxCapacity

\* Mutation of IsFull: the array grows one element early.
IsFullEarly == darray.size + 1 >= darray.capacity

IsFull == darray.size = darray.capacity

\* Doubling, up to the largest capacity whose size in bytes is a usz.
NewCapacity ==
    IF darray.capacity > MaxCapacity \div 2 THEN MaxCapacity ELSE darray.capacity * 2

Push(value) ==
    /\ CanPush
    /\ ~IsFull
    /\ cells' = [cells EXCEPT ![darray.buffer][darray.size] = value]
    /\ darray' = [darray EXCEPT !.size = @ + 1]
    /\ result' = TRUE
    /\ UNCHANGED heap
    /\ LoopUnchanged

\* Mutation of ResizedHeap: the old buffer is freed with the new capacity.
ResizedHeapNewCapacity(block) ==
    AfterCounterFreeArray(
        AfterCounterAlloc(heap, block, darray.element_size * NewCapacity,
                          darray.element_alignment),
        darray.buffer, darray.element_size, darray.element_alignment, NewCapacity)

\* The heap after darray_resize: the new buffer is allocated before the old
\* one is freed.
ResizedHeap(block) ==
    AfterCounterFreeArray(
        AfterCounterAlloc(heap, block, darray.element_size * NewCapacity,
                          darray.element_alignment),
        darray.buffer, darray.element_size, darray.element_alignment, darray.capacity)

\* Mutation of Moved: the last element is not copied.
MovedShort == [k \in 0 .. NewCapacity - 1 |->
                IF k + 1 < darray.size THEN cells[darray.buffer][k] ELSE Junk]

\* The elements of the new buffer.
Moved == [k \in 0 .. NewCapacity - 1 |->
            IF k < darray.size THEN cells[darray.buffer][k] ELSE Junk]

PushGrows(value) ==
    /\ CanPush
    /\ IsFull
    /\ darray.capacity # MaxCapacity
    /\ \E block \in Obtainable(darray.element_size, darray.element_alignment, NewCapacity) :
          /\ heap' = ResizedHeap(block)
          /\ cells' = [cells EXCEPT ![block] = [Moved EXCEPT ![darray.size] = value],
                                    ![darray.buffer] = NoCells]
          /\ darray' = [darray EXCEPT !.buffer = block, !.capacity = NewCapacity, !.size = @ + 1]
    /\ result' = TRUE
    /\ LoopUnchanged

\* Mutation of PushFails: the element counts although the array did not grow.
PushFailsCounted ==
    /\ ~CanPush \/ IsFull
    /\ result' = FALSE
    /\ darray' = IF CanPush THEN [darray EXCEPT !.size = @ + 1] ELSE darray
    /\ UNCHANGED <<heap, cells>>
    /\ LoopUnchanged

\* Mutation of PushFails: a growth that fails leaves the array empty.
PushFailsEmptied ==
    /\ ~CanPush \/ IsFull
    /\ result' = FALSE
    /\ darray' = [darray EXCEPT !.size = 0]
    /\ UNCHANGED <<heap, cells>>
    /\ LoopUnchanged

\* The array cannot be pushed to, or it is full and cannot grow: its capacity
\* is the largest, or the allocation fails.
PushFails ==
    /\ ~CanPush \/ IsFull
    /\ Refused

\* Mutation of GetAt: the last element is out of bounds.
GetAtShort(k) ==
    IF IsCreated /\ darray.size <= darray.capacity /\ k + 1 < darray.size
                 /\ darray.capacity <= MaxCapacity
    THEN <<darray.buffer, k>>
    ELSE NullBlock

\* darray_get_at: the address of an element, or NULL.
GetAt(k) ==
    IF IsCreated /\ darray.size <= darray.capacity /\ k < darray.size
                 /\ darray.capacity <= MaxCapacity
    THEN <<darray.buffer, k>>
    ELSE NullBlock

-----------------------------------------------------------------------------
(* darray_for_each                                                         *)

ForEachRefused ==
    /\ pc = "app"
    /\ ~IsCreated
    /\ UNCHANGED vars

\* Mutation of CallOrEnd: the loop keeps the buffer it began with.
CallOrEndStale(k) ==
    IF k < darray.size
    THEN /\ pc' = "callback"
         /\ index' = k
         /\ element' = <<IF element = NullBlock THEN darray.buffer ELSE element[1], k>>
    ELSE /\ pc' = "app"
         /\ index' = 0
         /\ element' = NullBlock

\* The loop's condition, and the call for the element at k.
CallOrEnd(k) ==
    IF k < darray.size
    THEN /\ pc' = "callback"
         /\ index' = k
         /\ element' = <<darray.buffer, k>>
    ELSE /\ pc' = "app"
         /\ index' = 0
         /\ element' = NullBlock

ForEach ==
    /\ pc = "app"
    /\ IsCreated
    /\ CallOrEnd(0)
    /\ UNCHANGED <<darray, heap, cells, result>>

CallbackReturns ==
    /\ pc = "callback"
    /\ CallOrEnd(index + 1)
    /\ UNCHANGED <<darray, heap, cells, result>>

-----------------------------------------------------------------------------

Next ==
    \/ \E element_size \in ElementSizes, element_alignment \in Alignments,
          capacity \in Capacities : Create(element_size, element_alignment, capacity)
    \/ \E element_size \in ElementSizes, element_alignment \in Alignments,
          capacity \in Capacities : CreateFails(element_size, element_alignment, capacity)
    \/ Destroy
    \/ Clear
    \/ \E value \in Values \cup {Zero} : Push(value)
    \/ \E value \in Values \cup {Zero} : PushGrows(value)
    \/ PushFails
    \/ ForEachRefused
    \/ ForEach
    \/ CallbackReturns

Spec == Init /\ [][Next]_vars

-----------------------------------------------------------------------------
(* Properties                                                              *)

\* Every field is a word, and an array that was created has room.
TypeOK ==
    /\ darray \in [buffer : Blocks \cup {NullBlock}, element_size : Word,
                   element_alignment : Word, size : Word, capacity : Word]
    /\ darray.element_size # 0 => darray.capacity # 0
    /\ heap.blocks \in [Blocks -> [size : Word, alignment : Word]]
    /\ heap.info \in [live_bytes : Word, live_allocations : Word, peak_bytes : Word,
                      total_allocations : Word, total_deallocations : Word]
    /\ pc \in {"app", "callback"}
    /\ index \in Word
    /\ result \in BOOLEAN

\* The array owns exactly the block its buffer points to, allocated with the
\* size and alignment that the array will free it with; its size in bytes is a
\* usz.  So nothing leaks, whatever growths and failures came before.
OwnsItsBuffer ==
    IF darray.buffer = NullBlock
    THEN Allocated(heap) = {}
    ELSE /\ Allocated(heap) = {darray.buffer}
         /\ darray.size <= darray.capacity
         /\ heap.blocks[darray.buffer] =
                [size      |-> darray.element_size * darray.capacity,
                 alignment |-> darray.element_alignment]
         /\ ElementsOf(darray.buffer) = 0 .. darray.capacity - 1

\* Every block is freed once, with the size and alignment it was allocated with.
FreesWhatItAllocated == ~heap.misused

\* The AllocatorCounter's statistics agree with the heap.
CounterIsExact == CountsExactly(heap)

\* What the application stored, in order.
Contents == [k \in 1 .. darray.size |-> cells[darray.buffer][k - 1]]

\* A push that succeeds appends its value and keeps all others, also where the
\* array grows and its values move; a push that fails, whatever the reason, keeps
\* them all; and nothing but a push adds an element, nothing but darray_clear and
\* darray_destroy, which leave none, takes one away or changes one.
KeepsContents ==
    [][/\ \A value \in Values \cup {Zero} :
              Push(value) \/ PushGrows(value) => Contents' = Append(Contents, value)
       /\ PushFails => Contents' = Contents
       /\ Contents' # Contents =>
              \/ \E value \in Values \cup {Zero} : Push(value) \/ PushGrows(value)
              \/ (Clear \/ Destroy) /\ Contents' = <<>>]_vars

\* The elements of the array are readable where darray_get_at says, and the
\* callback of darray_for_each is called with an element of the array as it is
\* then: a buffer that an earlier callback made the array leave is not used.
ElementsReadable ==
    \A k \in 0 .. darray.size - 1 :
        /\ GetAt(k) = <<darray.buffer, k>>
        /\ cells[darray.buffer][k] \in Values \cup {Zero}

CallsWithLiveElement ==
    [][pc' = "callback" /\ <<pc, index>>' # <<pc, index>> =>
          \E k \in 0 .. darray.size - 1 : element' = GetAt(k)]_vars

\* Pointers to elements stay good until the array is full: the buffer moves
\* only in a push to a full array (and goes only when it is destroyed).
MovesOnlyWhenFull ==
    [][darray'.buffer # darray.buffer /\ NullBlock \notin {darray.buffer, darray'.buffer} =>
          /\ darray.size = darray.capacity
          /\ darray'.capacity > darray.capacity]_vars

=============================================================================
