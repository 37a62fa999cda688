----------------------------- MODULE DArrayProofs -----------------------------
(***************************************************************************)
(* What the growing array (containers/darray.c) keeps, for every word      *)
(* size, all element sizes, alignments and initial capacities, and however *)
(* growths, failures and callbacks follow each other.                      *)
(***************************************************************************)
EXTENDS DArray, MemoryProofs, SequenceTheorems

-----------------------------------------------------------------------------
(* The inductive invariant                                                 *)

\* The size of the buffer in bytes is a usz, and the request that frees the
\* buffer is forwarded; an array without a buffer has no elements.
BufferIsFreeable ==
    IF darray.buffer = NullBlock
    THEN darray.size = 0
    ELSE ForwardsArray(darray.element_size, darray.element_alignment, darray.capacity)

\* The elements of the array have been written.
ElementsWritten ==
    \A k \in 0 .. darray.size - 1 : cells[darray.buffer][k] \in Values \cup {Zero}

IInv ==
    /\ HeapSound(heap)
    /\ TypeOK
    /\ OwnsItsBuffer
    /\ BufferIsFreeable
    /\ ElementsWritten
    /\ DOMAIN cells = Blocks

-----------------------------------------------------------------------------
(* Sizes and capacities                                                    *)

\* A quotient is the largest number whose product with the divisor fits.
LEMMA QuotientFits ==
    ASSUME NEW n \in Nat, NEW d \in Nat \ {0}
    PROVE  /\ n \div d \in 0 .. n
           /\ \A c \in Nat : c <= n \div d => d * c <= n
<1>1. /\ n \div d \in Nat
      /\ n % d \in 0 .. d - 1
      /\ n = d * (n \div d) + (n % d)
    BY Z3
<1>. DEFINE q == n \div d
            r == n % d
<1>. HIDE DEF q, r
<1>2. q \in Nat /\ r \in Nat /\ n = d * q + r
    BY <1>1 DEF q, r
<1>3. d * q >= q
    BY <1>2, Z3
<1>4. ASSUME NEW c \in Nat, c <= q PROVE d * c <= d * q
    BY <1>2, <1>4, Z3
<1>5. q \in 0 .. n
    BY <1>2, <1>3
<1>6. \A c \in Nat : c <= q => d * c <= n
    <2>. SUFFICES ASSUME NEW c \in Nat, c <= q PROVE d * c <= n
        OBVIOUS
    <2>1. d * c <= d * q
        BY <1>4
    <2>2. d * c \in Nat /\ d * q \in Nat
        BY <1>2
    <2>. QED  BY <1>2, <2>1, <2>2
<1>. QED  BY <1>5, <1>6 DEF q

\* The size in bytes of an array that fits is a usz.
LEMMA ArrayBytes ==
    ASSUME NEW element_size \in Word, NEW count \in Word, ArrayFits(element_size, count)
    PROVE  /\ element_size * count \in Word
           /\ element_size * count # 0
<1>1. /\ element_size \in Nat \ {0}
      /\ count \in Nat \ {0}
      /\ count <= WordMax \div element_size
      /\ WordMax \in Nat
    BY WordAssumption DEF ArrayFits, Word, WordMax
<1>2. element_size * count <= WordMax
    BY <1>1, QuotientFits
<1>3. element_size * count \in Nat /\ element_size * count # 0
    BY <1>1, Z3
<1>. QED  BY <1>1, <1>2, <1>3, WordAssumption DEF Word, WordMax

\* A growth makes the array larger, and its capacity is still a usz.
LEMMA CapacityGrows ==
    ASSUME TypeOK, CanPush, darray.capacity # MaxCapacity
    PROVE  /\ NewCapacity \in Word
           /\ NewCapacity > darray.capacity
<1>1. /\ darray.element_size \in Nat \ {0}
      /\ darray.capacity \in Nat \ {0}
      /\ WordMax \in Nat
    BY WordAssumption DEF TypeOK, CanPush, IsCreated, Word, WordMax
<1>. DEFINE most == WordMax \div darray.element_size
            half == most \div 2
<1>2. most \in 0 .. WordMax
    BY <1>1, QuotientFits
<1>. HIDE DEF most
<1>3. half \in 0 .. most /\ \A c \in Nat : c <= half => 2 * c <= most
    BY <1>1, <1>2, QuotientFits
<1>. HIDE DEF half
<1>4. MaxCapacity = most
    BY DEF MaxCapacity, most
<1>5. darray.capacity < most
    BY <1>1, <1>2, <1>4 DEF CanPush
<1>6. NewCapacity = IF darray.capacity > half THEN most ELSE darray.capacity * 2
    BY <1>4 DEF NewCapacity, half
<1>7. NewCapacity \in 0 .. most /\ NewCapacity > darray.capacity
    BY <1>1, <1>2, <1>3, <1>5, <1>6
<1>. QED  BY <1>1, <1>2, <1>7, WordAssumption DEF Word, WordMax

-----------------------------------------------------------------------------
(* The steps                                                               *)

\* A new array.
LEMMA CreateKeepsIInv ==
    ASSUME IInv, NEW element_size \in Word, NEW element_alignment \in Word,
           NEW capacity \in Word, Create(element_size, element_alignment, capacity)
    PROVE  IInv'
<1>. DEFINE count == ActualCapacity(capacity)
            size  == element_size * count
<1>1. count \in Word
    BY WordAssumption DEF ActualCapacity, Word
<1>2. PICK block \in Obtainable(element_size, element_alignment, count) :
            /\ darray' = Initialised(element_size, element_alignment, capacity, block)
            /\ heap' = AfterCounterAlloc(heap, block, size, element_alignment)
            /\ cells' = [cells EXCEPT ![block] = [k \in 0 .. count - 1 |-> Junk]]
    BY DEF Create
<1>3. /\ ForwardsArray(element_size, element_alignment, count)
      /\ block \in Available(heap, size)
    BY <1>2 DEF Obtainable
<1>4. size \in Word /\ size # 0
    BY <1>1, <1>3, ArrayBytes DEF ForwardsArray
<1>5. /\ darray' = [buffer |-> block, element_size |-> element_size,
                    element_alignment |-> element_alignment, size |-> 0, capacity |-> count]
      /\ block \in Blocks
      /\ block # NullBlock
    BY <1>2, <1>3, HeapAssumption DEF Initialised, Available
<1>. HIDE DEF count, size
<1>6. /\ HeapSound(heap')
      /\ heap'.blocks = [heap.blocks EXCEPT ![block] =
                            [size |-> size, alignment |-> element_alignment]]
      /\ Allocated(heap') = Allocated(heap) \cup {block}
    BY SMTT(30), <1>2, <1>3, <1>4, AllocIsSound DEF IInv
<1>7. Allocated(heap') = {block}
    BY <1>6 DEF IInv, OwnsItsBuffer, Create
<1>8. heap'.blocks[block] = [size |-> size, alignment |-> element_alignment]
    BY <1>5, <1>6 DEF IInv, HeapSound, Heaps, BlockTable
<1>9. /\ DOMAIN cells' = Blocks
      /\ cells'[block] = [k \in 0 .. count - 1 |-> Junk]
    BY <1>2, <1>5 DEF IInv
<1>10. count # 0
    BY <1>3 DEF ForwardsArray, ArrayFits
<1>11. TypeOK'
    <2>1. darray' \in [buffer : Blocks \cup {NullBlock}, element_size : Word,
                       element_alignment : Word, size : Word, capacity : Word]
        BY <1>1, <1>5, WordAssumption DEF Word
    <2>2. pc' = pc /\ index' = index /\ result' = TRUE
        BY DEF Create, LoopUnchanged
    <2>. QED  BY <1>5, <1>6, <1>10, <2>1, <2>2
              DEF TypeOK, IInv, HeapSound, Heaps, BlockTable, Info
<1>12. OwnsItsBuffer'
    BY <1>1, <1>5, <1>7, <1>8, <1>9, WordAssumption DEF OwnsItsBuffer, ElementsOf, size, Word
<1>13. BufferIsFreeable'
    BY <1>3, <1>5 DEF BufferIsFreeable
<1>14. ElementsWritten'
    BY <1>5 DEF ElementsWritten
<1>. QED  BY <1>6, <1>9, <1>11, <1>12, <1>13, <1>14 DEF IInv

\* An array that could not be created.
LEMMA CreateFailsKeepsIInv ==
    ASSUME IInv, NEW element_size \in Word, NEW element_alignment \in Word,
           NEW capacity \in Word, CreateFails(element_size, element_alignment, capacity)
    PROVE  IInv'
<1>1. /\ darray.buffer = NullBlock
      /\ darray' = IF ValidLayout(element_size, element_alignment)
                   THEN Initialised(element_size, element_alignment, capacity, NullBlock)
                   ELSE darray
      /\ UNCHANGED <<heap, cells, pc, index>>
      /\ result' = FALSE
    BY DEF CreateFails, LoopUnchanged
<1>2. ActualCapacity(capacity) \in Word \ {0}
    BY WordAssumption DEF ActualCapacity, Word
<1>3. /\ darray' \in [buffer : {NullBlock}, element_size : Word,
                      element_alignment : Word, size : {0}, capacity : Word]
      /\ darray'.element_size # 0 => darray'.capacity # 0
    <2>1. CASE ValidLayout(element_size, element_alignment)
        BY <1>1, <1>2, <2>1 DEF Initialised
    <2>2. CASE ~ValidLayout(element_size, element_alignment)
        BY <1>1, <2>2 DEF IInv, TypeOK, BufferIsFreeable
    <2>. QED  BY <2>1, <2>2
<1>4. darray'.buffer = NullBlock /\ darray'.size = 0 /\ 0 \in Word
    BY <1>3, WordAssumption DEF Word
<1>5. TypeOK'
    BY <1>1, <1>3, <1>4 DEF IInv, TypeOK
<1>6. OwnsItsBuffer' /\ BufferIsFreeable' /\ ElementsWritten'
    BY <1>1, <1>4 DEF IInv, OwnsItsBuffer, BufferIsFreeable, ElementsWritten
<1>. QED  BY <1>1, <1>5, <1>6 DEF IInv

\* The end of an array, which frees its buffer as it was allocated.
LEMMA DestroyKeepsIInv ==
    ASSUME IInv, Destroy
    PROVE  IInv'
<1>1. /\ darray' = ZeroDArray
      /\ heap' = AfterCounterFreeArray(heap, darray.buffer, darray.element_size,
                                       darray.element_alignment, darray.capacity)
      /\ DOMAIN cells' = Blocks
      /\ UNCHANGED <<pc, index, result>>
    BY DEF Destroy, LoopUnchanged
<1>2. HeapSound(heap') /\ Allocated(heap') = {}
    <2>1. CASE darray.buffer = NullBlock
        <3>1. heap' = heap
            BY <1>1, <2>1 DEF AfterCounterFreeArray, AfterCounterFree
        <3>. QED  BY <2>1, <3>1 DEF IInv, OwnsItsBuffer
    <2>2. CASE darray.buffer # NullBlock
        <3>1. /\ ArrayFits(darray.element_size, darray.capacity)
              /\ Forwards(darray.element_size * darray.capacity, darray.element_alignment)
            BY <2>2 DEF IInv, BufferIsFreeable, ForwardsArray
        <3>2. heap' = AfterCounterFree(heap, darray.buffer,
                                       darray.element_size * darray.capacity,
                                       darray.element_alignment)
            BY <1>1, <3>1 DEF AfterCounterFreeArray
        <3>3. /\ darray.buffer \in Blocks
              /\ Allocated(heap) = {darray.buffer}
              /\ heap.blocks[darray.buffer] =
                    [size      |-> darray.element_size * darray.capacity,
                     alignment |-> darray.element_alignment]
            BY <2>2 DEF IInv, TypeOK, OwnsItsBuffer
        <3>4. HeapSound(heap') /\ Allocated(heap') = Allocated(heap) \ {darray.buffer}
            <4>. DEFINE size == darray.element_size * darray.capacity
            <4>. HIDE DEF size
            <4>1. HeapSound(heap) /\ Forwards(size, darray.element_alignment)
                BY <3>1 DEF IInv, size
            <4>3. size \in Word /\ darray.element_alignment \in Word
                BY <3>1, ArrayBytes DEF IInv, TypeOK, size
            <4>2. /\ heap' = AfterCounterFree(heap, darray.buffer, size, darray.element_alignment)
                  /\ heap.blocks[darray.buffer] =
                        [size |-> size, alignment |-> darray.element_alignment]
                BY <3>2, <3>3 DEF size
            <4>4. LET after == AfterCounterFree(heap, darray.buffer, size, darray.element_alignment)
                  IN  /\ HeapSound(after)
                      /\ after.blocks = [heap.blocks EXCEPT ![darray.buffer] = NotAllocated]
                      /\ Allocated(after) = Allocated(heap) \ {darray.buffer}
                BY <3>3, <4>1, <4>2, <4>3, FreeIsSound
            <4>. QED  BY <4>2, <4>4
        <3>. QED  BY <3>3, <3>4
    <2>. QED  BY <2>1, <2>2
<1>3. TypeOK'
    BY SMTT(30), <1>1, <1>2, WordAssumption
    DEF TypeOK, IInv, ZeroDArray, Word, HeapSound, Heaps, BlockTable, Info
<1>4. OwnsItsBuffer' /\ BufferIsFreeable' /\ ElementsWritten'
    BY <1>1, <1>2 DEF OwnsItsBuffer, BufferIsFreeable, ElementsWritten, ZeroDArray
<1>. QED  BY <1>1, <1>2, <1>3, <1>4 DEF IInv

\* An array without its elements.
LEMMA ClearKeepsIInv ==
    ASSUME IInv, Clear
    PROVE  IInv'
<1>1. /\ darray' = [darray EXCEPT !.size = 0]
      /\ UNCHANGED <<heap, cells, pc, index, result>>
    BY DEF Clear, LoopUnchanged
<1>2. darray' = [buffer |-> darray.buffer, element_size |-> darray.element_size,
                 element_alignment |-> darray.element_alignment, size |-> 0,
                 capacity |-> darray.capacity]
    BY <1>1 DEF IInv, TypeOK
<1>3. TypeOK'
    BY <1>1, <1>2, WordAssumption DEF IInv, TypeOK, Word
<1>4. OwnsItsBuffer' /\ BufferIsFreeable' /\ ElementsWritten'
    BY <1>1, <1>2, WordAssumption
    DEF IInv, TypeOK, OwnsItsBuffer, ElementsOf, BufferIsFreeable, ElementsWritten, Word
<1>. QED  BY <1>1, <1>3, <1>4 DEF IInv

\* A value written to an array that has room.
LEMMA PushKeepsIInv ==
    ASSUME IInv, NEW value \in Values \cup {Zero}, Push(value)
    PROVE  IInv'
<1>1. /\ cells' = [cells EXCEPT ![darray.buffer][darray.size] = value]
      /\ darray' = [darray EXCEPT !.size = @ + 1]
      /\ result' = TRUE
      /\ UNCHANGED <<heap, pc, index>>
    BY DEF Push, LoopUnchanged
<1>2. /\ darray.buffer \in Blocks
      /\ darray.buffer # NullBlock
      /\ darray.size \in Nat
      /\ darray.capacity \in Nat
      /\ darray.size < darray.capacity
    <2>1. /\ darray.buffer # NullBlock
          /\ darray.size <= darray.capacity
          /\ darray.size # darray.capacity
        BY DEF Push, CanPush, IsCreated, IsFull
    <2>2. /\ darray.buffer \in Blocks \cup {NullBlock}
          /\ darray.size \in Word
          /\ darray.capacity \in Word
        BY DEF IInv, TypeOK
    <2>3. darray.size \in Nat /\ darray.capacity \in Nat
        BY <2>2, WordAssumption DEF Word
    <2>. QED  BY <2>1, <2>2, <2>3
<1>3. darray' = [buffer |-> darray.buffer, element_size |-> darray.element_size,
                 element_alignment |-> darray.element_alignment, size |-> darray.size + 1,
                 capacity |-> darray.capacity]
    BY <1>1 DEF IInv, TypeOK
<1>4. DOMAIN cells[darray.buffer] = 0 .. darray.capacity - 1
    BY <1>2 DEF IInv, OwnsItsBuffer, ElementsOf
<1>5. /\ DOMAIN cells' = Blocks
      /\ DOMAIN cells'[darray.buffer] = 0 .. darray.capacity - 1
      /\ \A k \in 0 .. darray.capacity - 1 :
            cells'[darray.buffer][k] =
                IF k = darray.size THEN value ELSE cells[darray.buffer][k]
    BY <1>1, <1>2, <1>4 DEF IInv
<1>6. TypeOK'
    BY <1>1, <1>2, <1>3, WordAssumption DEF IInv, TypeOK, Word
<1>7. OwnsItsBuffer' /\ BufferIsFreeable'
    BY <1>1, <1>2, <1>3, <1>5 DEF IInv, OwnsItsBuffer, BufferIsFreeable, ElementsOf
<1>8. ElementsWritten'
    <2>. SUFFICES ASSUME NEW k \in 0 .. darray.size
                  PROVE  cells'[darray.buffer][k] \in Values \cup {Zero}
        BY <1>2, <1>3 DEF ElementsWritten
    <2>1. cells'[darray.buffer][k] = IF k = darray.size THEN value ELSE cells[darray.buffer][k]
        BY <1>2, <1>5
    <2>2. CASE k = darray.size
        BY <2>1, <2>2
    <2>3. CASE k # darray.size
        <3>1. k \in 0 .. darray.size - 1
            BY <1>2, <2>3
        <3>. QED  BY <2>1, <2>3, <3>1 DEF IInv, ElementsWritten
    <2>. QED  BY <2>2, <2>3
<1>. QED  BY <1>1, <1>5, <1>6, <1>7, <1>8 DEF IInv

\* What a push to a full array does: a larger buffer takes over the elements,
\* and the old one is freed as it was allocated.
LEMMA GrowthMoves ==
    ASSUME IInv, NEW value \in Values \cup {Zero}, PushGrows(value)
    PROVE  \E block \in Blocks \ {NullBlock} :
                /\ block # darray.buffer
                /\ darray' = [buffer |-> block, element_size |-> darray.element_size,
                              element_alignment |-> darray.element_alignment,
                              size |-> darray.size + 1, capacity |-> NewCapacity]
                /\ DOMAIN cells' = Blocks
                /\ DOMAIN cells'[block] = 0 .. NewCapacity - 1
                /\ \A k \in 0 .. darray.size - 1 : cells'[block][k] = cells[darray.buffer][k]
                /\ cells'[block][darray.size] = value
                /\ HeapSound(heap')
                /\ Allocated(heap') = {block}
                /\ heap'.blocks[block] = [size      |-> darray.element_size * NewCapacity,
                                          alignment |-> darray.element_alignment]
                /\ ForwardsArray(darray.element_size, darray.element_alignment, NewCapacity)
<1>. DEFINE old  == darray.element_size * darray.capacity
            new  == darray.element_size * NewCapacity
            alignment == darray.element_alignment
<1>1. PICK block \in Obtainable(darray.element_size, alignment, NewCapacity) :
            /\ heap' = ResizedHeap(block)
            /\ cells' = [cells EXCEPT ![block] = [Moved EXCEPT ![darray.size] = value],
                                      ![darray.buffer] = NoCells]
            /\ darray' = [darray EXCEPT !.buffer = block, !.capacity = NewCapacity,
                                        !.size = @ + 1]
    BY DEF PushGrows
<1>2. /\ ForwardsArray(darray.element_size, alignment, NewCapacity)
      /\ block \in Available(heap, new)
      /\ block \in Blocks
      /\ block \notin Allocated(heap)
      /\ block # NullBlock
    BY <1>1, HeapAssumption DEF Obtainable, Available
<1>3. /\ darray.buffer \in Blocks
      /\ Allocated(heap) = {darray.buffer}
      /\ heap.blocks[darray.buffer] = [size |-> old, alignment |-> alignment]
      /\ ArrayFits(darray.element_size, darray.capacity)
      /\ Forwards(old, alignment)
      /\ alignment \in Word
    BY DEF IInv, TypeOK, OwnsItsBuffer, BufferIsFreeable, ForwardsArray, PushGrows, CanPush,
           IsCreated
<1>4. block # darray.buffer
    BY <1>2, <1>3
<1>5. darray' = [buffer |-> block, element_size |-> darray.element_size,
                 element_alignment |-> alignment, size |-> darray.size + 1,
                 capacity |-> NewCapacity]
    <2>. DEFINE capacity == NewCapacity
    <2>1. darray' = [darray EXCEPT !.buffer = block, !.capacity = capacity, !.size = @ + 1]
        BY <1>1
    <2>. HIDE DEF capacity
    <2>2. darray' = [buffer |-> block, element_size |-> darray.element_size,
                     element_alignment |-> alignment, size |-> darray.size + 1,
                     capacity |-> capacity]
        BY <2>1 DEF IInv, TypeOK
    <2>. QED  BY <2>2 DEF capacity
<1>6. DOMAIN cells' = Blocks /\ cells'[block] = [Moved EXCEPT ![darray.size] = value]
    <2>. DEFINE moved == [Moved EXCEPT ![darray.size] = value]
    <2>1. cells' = [cells EXCEPT ![block] = moved, ![darray.buffer] = NoCells]
        BY <1>1
    <2>. HIDE DEF moved
    <2>2. DOMAIN cells' = Blocks /\ cells'[block] = moved
        BY <1>2, <1>4, <2>1 DEF IInv
    <2>. QED  BY <2>2 DEF moved
<1>7. new \in Word /\ new # 0
    BY <1>2, ArrayBytes, CapacityGrows DEF IInv, TypeOK, PushGrows, ForwardsArray
<1>14. old \in Word
    BY <1>3, ArrayBytes DEF IInv, TypeOK
<1>. DEFINE grown == AfterCounterAlloc(heap, block, new, alignment)
<1>. HIDE DEF old, new
<1>8. /\ HeapSound(grown)
      /\ grown.blocks = [heap.blocks EXCEPT ![block] = [size |-> new, alignment |-> alignment]]
      /\ Allocated(grown) = {darray.buffer, block}
    BY SMTT(30), <1>2, <1>3, <1>7, AllocIsSound DEF IInv
<1>9. heap' = AfterCounterFree(grown, darray.buffer, old, alignment)
    BY <1>1, <1>3 DEF ResizedHeap, AfterCounterFreeArray, old, new
<1>. HIDE DEF grown
<1>10. /\ grown.blocks[darray.buffer] = [size |-> old, alignment |-> alignment]
       /\ grown.blocks[block] = [size |-> new, alignment |-> alignment]
       /\ grown.blocks \in BlockTable
    BY <1>2, <1>3, <1>4, <1>8 DEF HeapSound, Heaps, BlockTable
<1>11. /\ HeapSound(heap')
       /\ heap'.blocks = [grown.blocks EXCEPT ![darray.buffer] = NotAllocated]
       /\ Allocated(heap') = Allocated(grown) \ {darray.buffer}
    <2>. DEFINE align == alignment
    <2>. HIDE DEF align
    <2>1. /\ Forwards(old, align)
          /\ grown.blocks[darray.buffer] = [size |-> old, alignment |-> align]
          /\ heap' = AfterCounterFree(grown, darray.buffer, old, align)
          /\ align \in Word
          /\ darray.buffer \in Blocks
          /\ HeapSound(grown)
        BY <1>3, <1>8, <1>9, <1>10 DEF align
    <2>2. LET after == AfterCounterFree(grown, darray.buffer, old, align)
          IN  /\ HeapSound(after)
              /\ after.blocks = [grown.blocks EXCEPT ![darray.buffer] = NotAllocated]
              /\ Allocated(after) = Allocated(grown) \ {darray.buffer}
        BY <1>14, <2>1, FreeIsSound
    <2>. QED  BY <2>1, <2>2
<1>12. Allocated(heap') = {block}
    BY <1>4, <1>8, <1>11
<1>13. heap'.blocks[block] = [size |-> new, alignment |-> alignment]
    BY <1>2, <1>4, <1>10, <1>11 DEF BlockTable
<1>15. /\ DOMAIN cells'[block] = 0 .. NewCapacity - 1
       /\ \A k \in 0 .. darray.size - 1 : cells'[block][k] = cells[darray.buffer][k]
       /\ cells'[block][darray.size] = value
    <2>. DEFINE capacity == NewCapacity
    <2>1. /\ darray.size = darray.capacity
          /\ darray.size \in Nat
          /\ capacity \in Nat
          /\ capacity > darray.capacity
        BY CapacityGrows, WordAssumption DEF PushGrows, IsFull, IInv, TypeOK, Word
    <2>. HIDE DEF capacity
    <2>2. Moved = [k \in 0 .. capacity - 1 |->
                    IF k < darray.size THEN cells[darray.buffer][k] ELSE Junk]
        BY DEF Moved, capacity
    <2>3. /\ DOMAIN cells'[block] = 0 .. capacity - 1
          /\ \A k \in 0 .. darray.size - 1 : cells'[block][k] = cells[darray.buffer][k]
          /\ cells'[block][darray.size] = value
        BY <1>6, <2>1, <2>2
    <2>. QED  BY <2>3 DEF capacity
<1>. QED  BY <1>2, <1>4, <1>5, <1>6, <1>11, <1>12, <1>13, <1>15 DEF new

\* A value pushed to a full array.
LEMMA PushGrowsKeepsIInv ==
    ASSUME IInv, NEW value \in Values \cup {Zero}, PushGrows(value)
    PROVE  IInv'
<1>1. PICK block \in Blocks \ {NullBlock} :
                /\ block # darray.buffer
                /\ darray' = [buffer |-> block, element_size |-> darray.element_size,
                              element_alignment |-> darray.element_alignment,
                              size |-> darray.size + 1, capacity |-> NewCapacity]
                /\ DOMAIN cells' = Blocks
                /\ DOMAIN cells'[block] = 0 .. NewCapacity - 1
                /\ \A k \in 0 .. darray.size - 1 : cells'[block][k] = cells[darray.buffer][k]
                /\ cells'[block][darray.size] = value
                /\ HeapSound(heap')
                /\ Allocated(heap') = {block}
                /\ heap'.blocks[block] = [size      |-> darray.element_size * NewCapacity,
                                          alignment |-> darray.element_alignment]
                /\ ForwardsArray(darray.element_size, darray.element_alignment, NewCapacity)
    BY GrowthMoves
<1>2. /\ NewCapacity \in Word
      /\ NewCapacity > darray.capacity
    BY CapacityGrows DEF IInv, PushGrows
<1>3. /\ darray.size = darray.capacity
      /\ darray.size \in Nat
      /\ darray.size + 1 \in Word
      /\ darray.size + 1 <= NewCapacity
    BY <1>2, WordAssumption DEF PushGrows, IsFull, IInv, TypeOK, Word
<1>4. /\ result' = TRUE
      /\ UNCHANGED <<pc, index>>
    BY DEF PushGrows, LoopUnchanged
<1>. DEFINE capacity == NewCapacity
<1>5. /\ DOMAIN cells'[block] = 0 .. capacity - 1
      /\ \A k \in 0 .. darray.size - 1 : cells'[block][k] = cells[darray.buffer][k]
      /\ cells'[block][darray.size] = value
    BY <1>1
<1>. HIDE DEF capacity
<1>6. /\ darray'.buffer = block
      /\ darray'.size = darray.size + 1
      /\ darray'.capacity = capacity
      /\ darray'.element_size = darray.element_size
      /\ darray'.element_alignment = darray.element_alignment
    BY <1>1 DEF capacity
<1>7. TypeOK'
    <2>1. darray' \in [buffer : Blocks \cup {NullBlock}, element_size : Word,
                       element_alignment : Word, size : Word, capacity : Word]
        BY <1>1, <1>2, <1>3 DEF IInv, TypeOK
    <2>2. darray'.capacity # 0
        BY <1>2, <1>3, <1>6 DEF capacity
    <2>. QED  BY <1>1, <1>4, <2>1, <2>2 DEF IInv, TypeOK, HeapSound, Heaps, BlockTable, Info
<1>8. OwnsItsBuffer'
    <2>1. darray'.size <= darray'.capacity
        BY <1>3, <1>6 DEF capacity
    <2>2. heap'.blocks[block] = [size |-> darray.element_size * capacity,
                                 alignment |-> darray.element_alignment]
        BY <1>1 DEF capacity
    <2>. QED  BY <1>1, <1>5, <1>6, <2>1, <2>2 DEF OwnsItsBuffer, ElementsOf
<1>9. BufferIsFreeable'
    BY <1>1, <1>6 DEF BufferIsFreeable, capacity
<1>10. ElementsWritten'
    <2>. SUFFICES ASSUME NEW k \in 0 .. darray.size
                  PROVE  cells'[block][k] \in Values \cup {Zero}
        BY <1>3, <1>6 DEF ElementsWritten
    <2>1. CASE k = darray.size
        BY <1>5, <2>1
    <2>2. CASE k # darray.size
        BY <1>3, <1>5, <2>2 DEF IInv, ElementsWritten
    <2>. QED  BY <2>1, <2>2
<1>. QED  BY <1>1, <1>7, <1>8, <1>9, <1>10 DEF IInv

\* A step that changes only the loop or the result.
LEMMA LoopKeepsIInv ==
    ASSUME IInv, UNCHANGED <<darray, heap, cells>>,
           pc' \in {"app", "callback"}, index' \in Word, result' \in BOOLEAN
    PROVE  IInv'
<1>1. TypeOK'
    BY DEF IInv, TypeOK
<1>2. OwnsItsBuffer' /\ BufferIsFreeable' /\ ElementsWritten'
    BY DEF IInv, OwnsItsBuffer, ElementsOf, BufferIsFreeable, ElementsWritten
<1>. QED  BY <1>1, <1>2 DEF IInv

-----------------------------------------------------------------------------
(* The theorems                                                            *)

\* The invariant holds initially.
LEMMA InitIInv ==
    ASSUME Init
    PROVE  IInv
<1>1. HeapSound(heap) /\ Allocated(heap) = {}
    BY EmptyHeapIsSound DEF Init
<1>2. TypeOK
    <2>1. darray = ZeroDArray /\ pc = "app" /\ index = 0 /\ result = FALSE
        BY DEF Init
    <2>2. 0 \in Word
        BY WordAssumption DEF Word
    <2>. QED  BY <1>1, <2>1, <2>2
              DEF TypeOK, ZeroDArray, HeapSound, Heaps, BlockTable, Info
<1>3. OwnsItsBuffer /\ BufferIsFreeable /\ ElementsWritten
    BY <1>1 DEF Init, OwnsItsBuffer, BufferIsFreeable, ElementsWritten, ZeroDArray
<1>4. DOMAIN cells = Blocks
    BY DEF Init
<1>. QED  BY <1>1, <1>2, <1>3, <1>4 DEF IInv

\* Every step keeps it.
LEMMA NextIInv ==
    ASSUME IInv, [Next]_vars
    PROVE  IInv'
<1>1. ASSUME NEW element_size \in ElementSizes, NEW element_alignment \in Alignments,
             NEW capacity \in Capacities,
             \/ Create(element_size, element_alignment, capacity)
             \/ CreateFails(element_size, element_alignment, capacity)
      PROVE  IInv'
    BY <1>1, CreateKeepsIInv, CreateFailsKeepsIInv, DArrayAssumption
<1>2. CASE Destroy
    BY <1>2, DestroyKeepsIInv
<1>3. CASE Clear
    BY <1>3, ClearKeepsIInv
<1>4. ASSUME NEW value \in Values \cup {Zero}, Push(value) \/ PushGrows(value)
      PROVE  IInv'
    BY <1>4, PushKeepsIInv, PushGrowsKeepsIInv
<1>5. CASE PushFails \/ ForEachRefused \/ UNCHANGED vars
    BY <1>5, LoopKeepsIInv
    DEF PushFails, Refused, LoopUnchanged, ForEachRefused, vars, IInv, TypeOK
<1>6. CASE ForEach \/ CallbackReturns
    <2>1. PICK k \in Nat : CallOrEnd(k) /\ UNCHANGED <<darray, heap, cells, result>>
        BY <1>6, WordAssumption DEF ForEach, CallbackReturns, IInv, TypeOK, Word
    <2>2. pc' \in {"app", "callback"} /\ index' \in Word
        BY <2>1, WordAssumption DEF CallOrEnd, IInv, TypeOK, Word
    <2>. QED  BY <2>1, <2>2, LoopKeepsIInv DEF IInv, TypeOK
<1>. QED  BY <1>1, <1>2, <1>3, <1>4, <1>5, <1>6 DEF Next

\* The invariant holds in every behaviour.
THEOREM Invariance == Spec => []IInv
<1>1. Init => IInv
    BY InitIInv
<1>2. IInv /\ [Next]_vars => IInv'
    BY NextIInv
<1>. QED  BY <1>1, <1>2, PTL DEF Spec

\* Every field is a usz, whatever was asked for.
THEOREM TypeCorrect == Spec => []TypeOK
<1>1. IInv => TypeOK
    BY DEF IInv
<1>. QED  BY <1>1, Invariance, PTL

\* The array owns exactly the block its buffer points to, with the size and
\* alignment it will be freed with: nothing leaks, also when a growth fails.
THEOREM BufferIsOwned == Spec => []OwnsItsBuffer
<1>1. IInv => OwnsItsBuffer
    BY DEF IInv
<1>. QED  BY <1>1, Invariance, PTL

\* Nothing is freed twice, nor with another size than it was allocated with:
\* a growth frees the old buffer with the old capacity.
THEOREM FreesMatchAllocations == Spec => []FreesWhatItAllocated
<1>1. IInv => FreesWhatItAllocated
    BY DEF IInv, HeapSound, FreesWhatItAllocated
<1>. QED  BY <1>1, Invariance, PTL

\* The statistics of the counter are those of the heap, and so are those that
\* its callback was told, although the counter computes modulo the word size.
THEOREM CounterStaysExact == Spec => []CounterIsExact
<1>1. IInv => CounterIsExact
    BY DEF IInv, HeapSound, CounterIsExact
<1>. QED  BY <1>1, Invariance, PTL

\* An element is readable where darray_get_at says.
LEMMA GetAtFinds ==
    ASSUME IInv, NEW k \in 0 .. darray.size - 1
    PROVE  GetAt(k) = <<darray.buffer, k>>
<1>1. /\ darray.size \in Nat
      /\ darray.size > 0
    BY WordAssumption DEF IInv, TypeOK, Word
<1>2. /\ darray.buffer # NullBlock
      /\ darray.size <= darray.capacity
      /\ ForwardsArray(darray.element_size, darray.element_alignment, darray.capacity)
    BY <1>1 DEF IInv, OwnsItsBuffer, BufferIsFreeable
<1>3. IsCreated /\ darray.capacity <= MaxCapacity
    BY <1>2 DEF ForwardsArray, ArrayFits, Forwards, IsPowerOfTwo, IsCreated, MaxCapacity
<1>. QED  BY <1>1, <1>2, <1>3 DEF GetAt

\* No element is lost to a growth, and none is junk.
THEOREM ElementsStayReadable == Spec => []ElementsReadable
<1>1. IInv => ElementsReadable
    BY GetAtFinds DEF IInv, ElementsReadable, ElementsWritten
<1>. QED  BY <1>1, Invariance, PTL

\* The callback of darray_for_each gets an element of the array as it is then,
\* also after a callback that made the array move.
THEOREM CallsGetLiveElements == Spec => CallsWithLiveElement
<1>. DEFINE Called == pc' = "callback" /\ <<pc, index>>' # <<pc, index>> =>
                        \E k \in 0 .. darray.size - 1 : element' = GetAt(k)
<1>1. ASSUME IInv, [Next]_vars PROVE [Called]_vars
    <2>1. ASSUME NEW k \in Nat, CallOrEnd(k) PROVE Called
        BY <1>1, <2>1, GetAtFinds DEF CallOrEnd, IInv, TypeOK, Word
    <2>2. CASE ForEach \/ CallbackReturns
        <3>1. PICK k \in Nat : CallOrEnd(k)
            BY <1>1, <2>2, WordAssumption DEF ForEach, CallbackReturns, IInv, TypeOK, Word
        <3>. QED  BY <2>1, <3>1
    <2>3. CASE UNCHANGED <<pc, index>>
        BY <2>3
    <2>. QED  BY <1>1, <2>2, <2>3
              DEF Next, Create, CreateFails, Destroy, Clear, Push, PushGrows, PushFails,
                  Refused, ForEachRefused, LoopUnchanged, vars
<1>. QED  BY <1>1, Invariance, PTL DEF Spec, CallsWithLiveElement

\* The elements of an array are a sequence.
LEMMA ElementsAreASequence ==
    ASSUME NEW S, NEW n \in Nat, NEW f, \A k \in 0 .. n - 1 : f[k] \in S
    PROVE  LET s == [k \in 1 .. n |-> f[k - 1]]
           IN  s \in Seq(S) /\ Len(s) = n
<1>. DEFINE s == [k \in 1 .. n |-> f[k - 1]]
<1>1. s \in [1 .. n -> S]
    <2>1. \A k \in 1 .. n : k - 1 \in 0 .. n - 1
        OBVIOUS
    <2>. QED  BY <2>1
<1>2. s \in Seq(S)
    BY <1>1, SeqDef
<1>3. DOMAIN s = 1 .. n
    OBVIOUS
<1>. HIDE DEF s
<1>4. Len(s) = n
    BY <1>2, <1>3, LenProperties
<1>. QED  BY <1>2, <1>4 DEF s

\* One element more is one element appended.
LEMMA OneElementMore ==
    ASSUME NEW S, NEW n \in Nat, NEW f, NEW g, NEW e \in S,
           \A k \in 0 .. n - 1 : f[k] \in S /\ g[k] = f[k],
           g[n] = e
    PROVE  [k \in 1 .. n + 1 |-> g[k - 1]] = Append([k \in 1 .. n |-> f[k - 1]], e)
<1>. DEFINE s == [k \in 1 .. n |-> f[k - 1]]
            t == [k \in 1 .. n + 1 |-> g[k - 1]]
<1>1. s \in Seq(S) /\ Len(s) = n
    BY ElementsAreASequence
<1>2. t \in Seq(S) /\ Len(t) = n + 1
    <2>1. \A k \in 0 .. (n + 1) - 1 : g[k] \in S
        OBVIOUS
    <2>. QED  BY <2>1, ElementsAreASequence
<1>3. /\ \A k \in 1 .. n : s[k] = f[k - 1]
      /\ \A k \in 1 .. n : k - 1 \in 0 .. n - 1
      /\ \A k \in 1 .. n + 1 : t[k] = g[k - 1]
    OBVIOUS
<1>. HIDE DEF s, t
<1>4. /\ Append(s, e) \in Seq(S)
      /\ Len(Append(s, e)) = n + 1
      /\ \A k \in 1 .. n : Append(s, e)[k] = s[k]
      /\ Append(s, e)[n + 1] = e
    BY <1>1
<1>5. \A k \in 1 .. n + 1 : t[k] = Append(s, e)[k]
    <2>. SUFFICES ASSUME NEW k \in 1 .. n + 1 PROVE t[k] = Append(s, e)[k]
        OBVIOUS
    <2>1. CASE k = n + 1
        BY <1>3, <1>4, <2>1
    <2>2. CASE k # n + 1
        BY <1>3, <1>4, <2>2
    <2>. QED  BY <2>1, <2>2
<1>6. t = Append(s, e)
    BY <1>2, <1>4, <1>5, SeqEqual
<1>. QED  BY <1>6 DEF s, t

\* A push that succeeds appends its value, also where the array grows.
LEMMA PushAppends ==
    ASSUME IInv, NEW value \in Values \cup {Zero}, Push(value) \/ PushGrows(value)
    PROVE  Contents' = Append(Contents, value)
<1>1. darray.size \in Nat
    BY WordAssumption DEF IInv, TypeOK, Word
<1>. DEFINE f == cells[darray.buffer]
            g == cells'[darray'.buffer]
<1>2. /\ darray'.size = darray.size + 1
      /\ \A k \in 0 .. darray.size - 1 : g[k] = f[k]
      /\ g[darray.size] = value
    <2>1. CASE Push(value)
        <3>1. /\ darray'.buffer = darray.buffer
              /\ darray'.size = darray.size + 1
              /\ darray.buffer \in Blocks
              /\ darray.size \in 0 .. darray.capacity - 1
            <4>1. /\ darray'.buffer = darray.buffer /\ darray'.size = darray.size + 1
                  /\ darray.buffer \in Blocks
                BY <2>1 DEF Push, CanPush, IsCreated, IInv, TypeOK
            <4>2. darray.size \in Nat /\ darray.capacity \in Nat
                BY WordAssumption DEF IInv, TypeOK, Word
            <4>3. darray.size <= darray.capacity /\ darray.size # darray.capacity
                BY <2>1 DEF Push, CanPush, IsFull
            <4>. QED  BY <4>1, <4>2, <4>3
        <3>2. DOMAIN cells[darray.buffer] = 0 .. darray.capacity - 1
            BY <2>1
            DEF IInv, OwnsItsBuffer, ElementsOf, Push, CanPush, IsCreated
        <3>3. cells' = [cells EXCEPT ![darray.buffer][darray.size] = value]
            BY <2>1 DEF Push
        <3>4. /\ cells'[darray.buffer] =
                    [cells[darray.buffer] EXCEPT ![darray.size] = value]
              /\ darray.size \in DOMAIN cells[darray.buffer]
            BY <3>1, <3>2, <3>3 DEF IInv
        <3>5. \A k \in 0 .. darray.size - 1 :
                    k \in DOMAIN cells[darray.buffer] /\ k # darray.size
            <4>1. darray.size \in Nat /\ darray.capacity \in Nat
                BY WordAssumption DEF IInv, TypeOK, Word
            <4>. QED  BY <3>1, <3>2, <4>1
        <3>6. g = [f EXCEPT ![darray.size] = value]
            BY <3>1, <3>4
        <3>. HIDE DEF g
        <3>. QED  BY <3>1, <3>4, <3>5, <3>6
    <2>2. CASE PushGrows(value)
        <3>1. PICK block \in Blocks :
                /\ darray' = [buffer |-> block, element_size |-> darray.element_size,
                              element_alignment |-> darray.element_alignment,
                              size |-> darray.size + 1, capacity |-> NewCapacity]
                /\ \A k \in 0 .. darray.size - 1 : cells'[block][k] = f[k]
                /\ cells'[block][darray.size] = value
            BY <2>2, GrowthMoves
        <3>. QED  BY <3>1
    <2>. QED  BY <2>1, <2>2
<1>3. \A k \in 0 .. darray.size - 1 : f[k] \in Values \cup {Zero}
    BY DEF IInv, ElementsWritten
<1>4. /\ Contents  = [k \in 1 .. darray.size |-> f[k - 1]]
      /\ Contents' = [k \in 1 .. darray.size + 1 |-> g[k - 1]]
    BY <1>2 DEF Contents
<1>. HIDE DEF f, g
<1>5. Contents' = Append(Contents, value)
    BY SMTT(30), <1>1, <1>2, <1>3, <1>4, OneElementMore
<1>. QED  BY <1>5

\* An array of size 0 has no contents.
LEMMA NoElements == /\ darray.size = 0 => Contents = <<>>
                    /\ darray'.size = 0 => Contents' = <<>>
<1>1. 1 .. 0 = {}
    OBVIOUS
<1>. QED  BY <1>1 DEF Contents

\* A push appends its value or, if it fails, changes no element, and only
\* darray_clear and darray_destroy take elements away: what was pushed stays in
\* the array, in order, through growths, growths that fail and callbacks.
THEOREM ContentsAreKept == Spec => KeepsContents
<1>. DEFINE Pushes == \E value \in Values \cup {Zero} : Push(value) \/ PushGrows(value)
            Kept   == /\ \A value \in Values \cup {Zero} :
                             Push(value) \/ PushGrows(value) => Contents' = Append(Contents, value)
                      /\ PushFails => Contents' = Contents
                      /\ Contents' # Contents =>
                             \/ Pushes
                             \/ (Clear \/ Destroy) /\ Contents' = <<>>
<1>1. UNCHANGED <<darray, cells>> => Contents' = Contents
    BY DEF Contents
<1>2. ASSUME IInv, Next PROVE Kept
    <2>1. ASSUME NEW value \in Values \cup {Zero}, Push(value) \/ PushGrows(value)
          PROVE  Contents' = Append(Contents, value)
        BY <1>2, <2>1, PushAppends
    <2>2. PushFails => Contents' = Contents
        BY <1>1 DEF PushFails, Refused
    <2>3. ASSUME Contents' # Contents, ~Pushes
          PROVE  (Clear \/ Destroy) /\ Contents' = <<>>
        <3>1. CASE Clear \/ Destroy
            <4>1. darray'.size = 0
                BY <1>2, <3>1 DEF Clear, Destroy, ZeroDArray, IInv, TypeOK
            <4>. QED  BY <3>1, <4>1, NoElements
        <3>2. ASSUME NEW element_size \in ElementSizes, NEW element_alignment \in Alignments,
                     NEW capacity \in Capacities,
                     \/ Create(element_size, element_alignment, capacity)
                     \/ CreateFails(element_size, element_alignment, capacity)
              PROVE  Contents' = Contents
            <4>1. darray.size = 0
                BY <1>2, <3>2 DEF Create, CreateFails, IInv, BufferIsFreeable
            <4>2. darray'.size = 0
                BY <3>2, <4>1 DEF Create, CreateFails, Initialised
            <4>. QED  BY <4>1, <4>2, NoElements
        <3>3. CASE PushFails \/ ForEachRefused \/ ForEach \/ CallbackReturns
            <4>1. UNCHANGED <<darray, cells>>
                BY <3>3 DEF PushFails, Refused, ForEachRefused, ForEach, CallbackReturns, vars
            <4>. QED  BY <1>1, <2>3, <4>1
        <3>. QED  BY <1>2, <2>3, <3>1, <3>2, <3>3 DEF Next
    <2>4. \A value \in Values \cup {Zero} :
              Push(value) \/ PushGrows(value) => Contents' = Append(Contents, value)
        BY <2>1
    <2>5. Contents' # Contents =>
              \/ Pushes
              \/ (Clear \/ Destroy) /\ Contents' = <<>>
        <3>. HIDE DEF Pushes
        <3>. QED  BY <2>3
    <2>. QED  BY <2>2, <2>4, <2>5
<1>3. ASSUME IInv, [Next]_vars PROVE [Kept]_vars
    BY <1>2, <1>3
<1>. QED  BY <1>3, Invariance, PTL DEF Spec, KeepsContents

\* Pointers to elements stay good until a push to a full array.
THEOREM MovesWhenFull == Spec => MovesOnlyWhenFull
<1>. DEFINE Moves == darray'.buffer # darray.buffer
                        /\ NullBlock \notin {darray.buffer, darray'.buffer} =>
                            /\ darray.size = darray.capacity
                            /\ darray'.capacity > darray.capacity
<1>1. ASSUME IInv, [Next]_vars PROVE [Moves]_vars
    <2>1. CASE darray.buffer = NullBlock \/ UNCHANGED darray \/ Destroy \/ Clear
        BY <1>1, <2>1 DEF Destroy, ZeroDArray, Clear, IInv, TypeOK
    <2>2. ASSUME NEW value \in Values \cup {Zero}, Push(value) PROVE Moves
        BY <1>1, <2>2 DEF Push, IInv, TypeOK
    <2>3. ASSUME NEW value \in Values \cup {Zero}, PushGrows(value) PROVE Moves
        <3>1. darray'.capacity = NewCapacity
            <4>1. PICK block \in Blocks :
                    darray' = [buffer |-> block, element_size |-> darray.element_size,
                               element_alignment |-> darray.element_alignment,
                               size |-> darray.size + 1, capacity |-> NewCapacity]
                BY <1>1, <2>3, GrowthMoves
            <4>. QED  BY <4>1
        <3>2. NewCapacity > darray.capacity
            BY <1>1, <2>3, CapacityGrows DEF IInv, PushGrows
        <3>3. darray.size = darray.capacity
            BY <2>3 DEF PushGrows, IsFull
        <3>. QED  BY <3>1, <3>2, <3>3
    <2>. QED  BY <1>1, <2>1, <2>2, <2>3
              DEF Next, Create, CreateFails, PushFails, Refused, ForEachRefused, ForEach,
                  CallbackReturns, vars
<1>. QED  BY <1>1, Invariance, PTL DEF Spec, MovesOnlyWhenFull

=============================================================================
