------------------------- MODULE EventBusMemoryProofs -------------------------
(***************************************************************************)
(* The memory of an event bus (core/event_bus.c), for every word size, all *)
(* block sizes, every alignment and every queue limit, whichever of the    *)
(* allocations fail and whatever the callbacks do to the bus that called   *)
(* them.                                                                   *)
(*                                                                         *)
(* The first part holds also where a callback creates the bus anew after   *)
(* it destroyed it: nothing is freed twice, and no call goes on with an    *)
(* implementation that was freed.  Such a callback makes the code lose     *)
(* blocks (see EventBusRecreate.cfg); the second part is about the others, *)
(* with whom nothing is lost.                                              *)
(***************************************************************************)
EXTENDS EventBusMemory, MemoryProofs, SequenceTheorems

-----------------------------------------------------------------------------
(* The inductive invariant                                                 *)

\* What a block may hold where it is an EventBusImpl, and a call in progress.
Impls == [registry : Pointers, queue : Pointers, arena : Pointers,
          deliveries : 0 .. MaxQueuedDeliveries,
          processing : BOOLEAN, destroy_requested : BOOLEAN]

Frames == [impl : Blocks, cursor : 0 .. MaxQueuedDeliveries]

\* What the heap knows of the block allocated for a field.
Entry(field) == [size |-> Sizes[field], alignment |-> Alignment]

Holds(h, block, field) ==
    /\ block \in Blocks
    /\ h.blocks[block] = Entry(field)

\* The allocations that are done where pc is.
HasRegistry == pc # "registry"
HasQueue    == HasRegistry /\ pc # "queue"
HasArena    == HasQueue /\ pc # "arena"

\* Each block of the bus was allocated for what it is used for, and they are
\* all different.
PartsHeld ==
    bus # NullBlock =>
        /\ Holds(heap, bus, "impl")
        /\ IF HasRegistry THEN Holds(heap, Impl.registry, "registry")
                          ELSE Impl.registry = NullBlock
        /\ IF HasQueue THEN Holds(heap, Impl.queue, "queue") ELSE Impl.queue = NullBlock
        /\ IF HasArena THEN Holds(heap, Impl.arena, "arena") ELSE Impl.arena = NullBlock
        /\ bus \notin {Impl.registry, Impl.queue, Impl.arena}
        /\ HasRegistry => Impl.registry \notin {Impl.queue, Impl.arena}
        /\ HasQueue => Impl.queue # Impl.arena

\* A call in progress is the only one on its implementation, which is in use
\* and marked as processing.  It may have been replaced by another bus, but a
\* call that waits for an inner one is not on the bus that can be destroyed.
FrameSound(k) ==
    LET impl == frames[k].impl
    IN  /\ impl \in Allocated(heap)
        /\ impls[impl].processing
        /\ frames[k].cursor <= impls[impl].deliveries
        /\ k < Len(frames) \/ pc # "loop" => frames[k].cursor < impls[impl].deliveries
        /\ bus # NullBlock => impl \notin {Impl.registry, Impl.queue, Impl.arena}
        /\ impl = bus => k = Len(frames)
        /\ \A j \in 1 .. Len(frames) : frames[j].impl = impl => j = k

FramesSound == \A k \in 1 .. Len(frames) : FrameSound(k)

\* There is a bus while it is being created.
WhileCreating ==
    pc \in {"registry", "queue", "arena"} => bus # NullBlock /\ ~Impl.processing

IInv ==
    /\ HeapSound(heap)
    /\ TypeOK
    /\ frames \in Seq(Frames)
    /\ pc = "loop" => frames # <<>>
    /\ PartsHeld
    /\ FramesSound
    /\ WhileCreating

-----------------------------------------------------------------------------
(* Allocating and freeing the parts of a bus                               *)

\* The sizes and the alignment are such as the interface forwards.
LEMMA SizesAreForwarded ==
    ASSUME NEW field \in Fields
    PROVE  /\ Sizes[field] \in Word
           /\ Sizes[field] # 0
           /\ Alignment \in Word
           /\ Forwards(Sizes[field], Alignment)
BY MemoryAssumption DEF Forwards

\* The fields have a name each.
LEMMA FieldNames ==
    /\ "impl" \in Fields /\ "registry" \in Fields
    /\ "queue" \in Fields /\ "arena" \in Fields
BY DEF Fields

\* An allocation for a field.
LEMMA AllocPart ==
    ASSUME NEW h, HeapSound(h), NEW field \in Fields,
           NEW block \in Available(h, Sizes[field])
    PROVE  LET after == AfterCounterAlloc(h, block, Sizes[field], Alignment)
           IN  /\ HeapSound(after)
               /\ block \notin Allocated(h)
               /\ block # NullBlock
               /\ Holds(after, block, field)
               /\ Allocated(after) = Allocated(h) \cup {block}
               /\ \A b \in Blocks \ {block} : after.blocks[b] = h.blocks[b]
<1>. DEFINE after == AfterCounterAlloc(h, block, Sizes[field], Alignment)
            size == Sizes[field]
<1>1. size \in Word /\ size # 0 /\ Alignment \in Word
    BY SizesAreForwarded
<1>2. block \in Blocks /\ block \notin Allocated(h) /\ block # NullBlock
    BY HeapAssumption DEF Available
<1>. HIDE DEF size
<1>3. block \in Available(h, size)
    BY DEF size
<1>4. /\ HeapSound(AfterCounterAlloc(h, block, size, Alignment))
      /\ AfterCounterAlloc(h, block, size, Alignment).blocks =
            [h.blocks EXCEPT ![block] = [size |-> size, alignment |-> Alignment]]
      /\ Allocated(AfterCounterAlloc(h, block, size, Alignment)) = Allocated(h) \cup {block}
    BY <1>1, <1>3, AllocIsSound
<1>5. /\ HeapSound(after)
      /\ after.blocks = [h.blocks EXCEPT ![block] = Entry(field)]
      /\ Allocated(after) = Allocated(h) \cup {block}
    BY <1>4 DEF size, Entry
<1>6. h.blocks \in BlockTable
    BY DEF HeapSound, Heaps
<1>. HIDE DEF after
<1>7. /\ after.blocks[block] = Entry(field)
      /\ \A b \in Blocks \ {block} : after.blocks[b] = h.blocks[b]
    BY <1>2, <1>5, <1>6 DEF BlockTable
<1>. QED  BY <1>2, <1>5, <1>7 DEF Holds, after

\* A free of what was allocated for a field, or of nothing.
LEMMA FreePart ==
    ASSUME NEW h, HeapSound(h), NEW field \in Fields,
           NEW block, block = NullBlock \/ Holds(h, block, field)
    PROVE  LET after == Without(h, field, block)
           IN  /\ HeapSound(after)
               /\ Allocated(after) = Allocated(h) \ {block}
               /\ \A b \in Blocks \ {block} : after.blocks[b] = h.blocks[b]
<1>. DEFINE size == Sizes[field]
            after == AfterCounterFree(h, block, size, Alignment)
<1>1. size \in Word /\ Alignment \in Word /\ Forwards(size, Alignment)
    BY SizesAreForwarded
<1>2. after = Without(h, field, block)
    BY DEF Without
<1>. HIDE DEF size
<1>3. CASE block = NullBlock
    <2>1. after = h
        BY <1>3 DEF AfterCounterFree
    <2>2. block \notin Allocated(h)
        BY <1>3, HeapAssumption DEF Allocated
    <2>. QED  BY <1>2, <2>1, <2>2
<1>4. CASE Holds(h, block, field)
    <2>1. /\ block \in Blocks
          /\ h.blocks[block] = [size |-> size, alignment |-> Alignment]
        BY <1>4 DEF Holds, Entry, size
    <2>2. /\ HeapSound(after)
          /\ after.blocks = [h.blocks EXCEPT ![block] = NotAllocated]
          /\ Allocated(after) = Allocated(h) \ {block}
        BY <1>1, <2>1, FreeIsSound
    <2>3. h.blocks \in BlockTable
        BY DEF HeapSound, Heaps
    <2>. HIDE DEF after
    <2>4. \A b \in Blocks \ {block} : after.blocks[b] = h.blocks[b]
        BY <2>2, <2>3 DEF BlockTable
    <2>. QED  BY <1>2, <2>2, <2>4
<1>. QED  BY <1>3, <1>4

\* event_bus_destroy_now frees the blocks of the bus, however far the creation
\* had come.
LEMMA DestructionFreesParts ==
    ASSUME HeapSound(heap), PartsHeld, bus # NullBlock
    PROVE  /\ HeapSound(HeapWithoutBus)
           /\ Allocated(HeapWithoutBus) =
                Allocated(heap) \ {bus, Impl.registry, Impl.queue, Impl.arena}
<1>. DEFINE r == Impl.registry
            q == Impl.queue
            a == Impl.arena
            h1 == Without(heap, "registry", r)
            h2 == Without(h1, "arena", a)
            h3 == Without(h2, "queue", q)
            h4 == Without(h3, "impl", bus)
<1>1. /\ Holds(heap, bus, "impl")
      /\ r = NullBlock \/ Holds(heap, r, "registry")
      /\ q = NullBlock \/ Holds(heap, q, "queue")
      /\ a = NullBlock \/ Holds(heap, a, "arena")
      /\ bus \notin {r, q, a}
      /\ r # NullBlock => r \notin {q, a}
      /\ q # NullBlock => q # a
    BY DEF PartsHeld, HasRegistry, HasQueue, HasArena
<1>2. HeapWithoutBus = h4
    BY DEF HeapWithoutBus
<1>. HIDE DEF r, q, a
<1>3. /\ HeapSound(h1)
      /\ Allocated(h1) = Allocated(heap) \ {r}
      /\ \A b \in Blocks \ {r} : h1.blocks[b] = heap.blocks[b]
    BY <1>1, FieldNames, FreePart
<1>. HIDE DEF h1
<1>4. a = NullBlock \/ Holds(h1, a, "arena")
    BY <1>1, <1>3 DEF Holds
<1>5. /\ HeapSound(h2)
      /\ Allocated(h2) = Allocated(h1) \ {a}
      /\ \A b \in Blocks \ {a} : h2.blocks[b] = h1.blocks[b]
    BY <1>3, <1>4, FieldNames, FreePart
<1>. HIDE DEF h2
<1>6. q = NullBlock \/ Holds(h2, q, "queue")
    BY <1>1, <1>3, <1>5 DEF Holds
<1>7. /\ HeapSound(h3)
      /\ Allocated(h3) = Allocated(h2) \ {q}
      /\ \A b \in Blocks \ {q} : h3.blocks[b] = h2.blocks[b]
    BY <1>5, <1>6, FieldNames, FreePart
<1>. HIDE DEF h3
<1>8. Holds(h3, bus, "impl")
    BY <1>1, <1>3, <1>5, <1>7 DEF Holds
<1>9. HeapSound(h4) /\ Allocated(h4) = Allocated(h3) \ {bus}
    BY <1>7, <1>8, FieldNames, FreePart
<1>. HIDE DEF h4
<1>10. Allocated(h4) = Allocated(heap) \ {bus, r, q, a}
    BY <1>3, <1>5, <1>7, <1>9
<1>. QED  BY <1>2, <1>9, <1>10 DEF r, q, a

-----------------------------------------------------------------------------
(* What the steps have in common                                           *)

\* An implementation with nothing in it.
LEMMA ZeroImplIsImpl == ZeroImpl \in Impls
BY MemoryAssumption DEF ZeroImpl, Impls, Pointers

\* The types of what is reached through pointers.
LEMMA Types ==
    ASSUME IInv
    PROVE  /\ impls \in [Blocks -> Impls]
           /\ bus # NullBlock => bus \in Blocks /\ Impl \in Impls
           /\ Len(frames) \in Nat
           /\ \A k \in 1 .. Len(frames) :
                /\ frames[k] \in Frames
                /\ frames[k].impl \in Blocks
                /\ impls[frames[k].impl] \in Impls
                /\ FrameSound(k)
<1>1. impls \in [Blocks -> Impls]
    BY DEF IInv, TypeOK, Impls
<1>2. bus # NullBlock => bus \in Blocks
    BY DEF IInv, TypeOK, Pointers
<1>3. Len(frames) \in Nat /\ \A k \in 1 .. Len(frames) : frames[k] \in Frames
    BY DEF IInv
<1>4. \A k \in 1 .. Len(frames) : frames[k].impl \in Blocks
    BY <1>3 DEF Frames
<1>. HIDE DEF Impls
<1>. QED  BY <1>1, <1>2, <1>3, <1>4 DEF IInv, FramesSound, Impl

\* The types after a step that leaves the heap sound.
LEMMA TypesAfter ==
    ASSUME HeapSound(heap'), bus' \in Pointers, impls' \in [Blocks -> Impls],
           frames' \in Seq(Frames),
           pc' \in {"app", "loop", "registry", "queue", "arena"}, owned' \in BOOLEAN
    PROVE  TypeOK'
<1>1. \A k \in DOMAIN frames' : frames'[k] \in Frames
    OBVIOUS
<1>. QED  BY <1>1 DEF TypeOK, HeapSound, Heaps, BlockTable, Info, Impls, Frames

\* A step that changes what one block holds.
LEMMA ImplChanges ==
    ASSUME IInv, NEW block \in Blocks, NEW impl \in Impls,
           impls' = [impls EXCEPT ![block] = impl]
    PROVE  /\ impls' \in [Blocks -> Impls]
           /\ impls'[block] = impl
           /\ \A b \in Blocks \ {block} : impls'[b] = impls[b]
<1>1. impls \in [Blocks -> Impls]
    BY DEF IInv, TypeOK, Impls
<1>. HIDE DEF Impls
<1>. QED  BY <1>1

\* The calls in progress stay sound where a step of the application keeps their
\* implementations, and takes no new bus in their place.
LEMMA FramesStay ==
    ASSUME IInv, pc = "app" \/ pc \in {"registry", "queue", "arena"}, pc' # "loop",
           UNCHANGED frames, impls' \in [Blocks -> Impls],
           \A k \in 1 .. Len(frames) :
                /\ frames[k].impl \in Allocated(heap')
                /\ impls'[frames[k].impl].processing
                /\ impls[frames[k].impl].deliveries <= impls'[frames[k].impl].deliveries
                /\ bus' # NullBlock =>
                        frames[k].impl \notin {Impl'.registry, Impl'.queue, Impl'.arena}
                /\ frames[k].impl = bus' => frames[k].impl = bus
    PROVE  FramesSound'
<1>. SUFFICES ASSUME NEW k \in 1 .. Len(frames) PROVE FrameSound(k)'
    BY DEF FramesSound
<1>. DEFINE b == frames[k].impl
<1>1. /\ b \in Blocks
      /\ frames[k].cursor \in Nat
      /\ impls[b].deliveries \in Nat
      /\ FrameSound(k)
    BY Types, MemoryAssumption DEF Frames, Impls
<1>2. impls'[b].deliveries \in Nat
    BY <1>1, MemoryAssumption DEF Impls
<1>3. /\ frames[k].cursor < impls[b].deliveries
      /\ b = bus => k = Len(frames)
      /\ \A j \in 1 .. Len(frames) : frames[j].impl = b => j = k
    BY <1>1 DEF FrameSound
<1>4. frames[k].cursor < impls'[b].deliveries
    BY <1>1, <1>2, <1>3
<1>5. frames[k].cursor <= impls'[b].deliveries
    BY <1>1, <1>2, <1>4
<1>. QED  BY <1>3, <1>4, <1>5 DEF FrameSound

\* What is allocated for a field of the bus that is being created, or first.
LEMMA NewPart ==
    ASSUME IInv, NEW field \in Fields, NEW block \in Available(heap, Sizes[field]),
           heap' = HeapWith(field, block)
    PROVE  /\ HeapSound(heap')
           /\ block \in Blocks
           /\ block \notin Allocated(heap)
           /\ block # NullBlock
           /\ Holds(heap', block, field)
           /\ Allocated(heap') = Allocated(heap) \cup {block}
           /\ \A b \in Blocks \ {block} : heap'.blocks[b] = heap.blocks[b]
           /\ \A b, f : b # block /\ Holds(heap, b, f) => Holds(heap', b, f)
<1>1. LET after == AfterCounterAlloc(heap, block, Sizes[field], Alignment)
      IN  /\ HeapSound(after)
          /\ block \notin Allocated(heap)
          /\ block # NullBlock
          /\ Holds(after, block, field)
          /\ Allocated(after) = Allocated(heap) \cup {block}
          /\ \A b \in Blocks \ {block} : after.blocks[b] = heap.blocks[b]
    BY AllocPart DEF IInv
<1>. QED  BY <1>1 DEF HeapWith, Holds

\* What holds a part is allocated.
LEMMA HeldIsAllocated ==
    ASSUME NEW block, NEW field \in Fields, Holds(heap, block, field)
    PROVE  block \in Allocated(heap) /\ block # NullBlock
BY MemoryAssumption, HeapAssumption DEF Holds, Entry, Allocated, NotAllocated

-----------------------------------------------------------------------------
(* The steps: creation                                                     *)

\* The first block of a bus.
LEMMA CreateKeepsIInv ==
    ASSUME IInv, Create
    PROVE  IInv'
<1>1. PICK block \in Available(heap, Sizes["impl"]) :
            /\ heap' = HeapWith("impl", block)
            /\ bus' = block
            /\ impls' = [impls EXCEPT ![block] = ZeroImpl]
    BY DEF Create
<1>2. /\ pc = "app" /\ pc' = "registry"
      /\ UNCHANGED <<frames, owned>>
    BY DEF Create, MayCreate
<1>3. /\ HeapSound(heap')
      /\ block \in Blocks
      /\ block \notin Allocated(heap)
      /\ block # NullBlock
      /\ Holds(heap', block, "impl")
      /\ Allocated(heap') = Allocated(heap) \cup {block}
    BY <1>1, FieldNames, NewPart
<1>4. /\ impls' \in [Blocks -> Impls]
      /\ impls'[block] = ZeroImpl
      /\ \A b \in Blocks \ {block} : impls'[b] = impls[b]
    BY <1>1, <1>3, ZeroImplIsImpl, ImplChanges
<1>5. Impl' = ZeroImpl
    BY <1>1, <1>4 DEF Impl
<1>6. TypeOK'
    BY <1>1, <1>2, <1>3, <1>4, TypesAfter DEF IInv, TypeOK, Pointers
<1>7. PartsHeld' /\ WhileCreating'
    BY <1>1, <1>2, <1>3, <1>5
    DEF PartsHeld, WhileCreating, HasRegistry, HasQueue, HasArena, ZeroImpl
<1>8. FramesSound'
    <2>1. ASSUME NEW k \in 1 .. Len(frames)
          PROVE  /\ frames[k].impl \in Blocks \ {block, NullBlock}
                 /\ frames[k].impl \in Allocated(heap)
                 /\ impls[frames[k].impl].processing
                 /\ impls[frames[k].impl].deliveries \in Nat
        BY <1>3, <2>1, Types, MemoryAssumption, HeapAssumption DEF FrameSound, Impls
    <2>2. \A k \in 1 .. Len(frames) :
                /\ frames[k].impl \in Allocated(heap')
                /\ impls'[frames[k].impl].processing
                /\ impls[frames[k].impl].deliveries <= impls'[frames[k].impl].deliveries
                /\ bus' # NullBlock =>
                        frames[k].impl \notin {Impl'.registry, Impl'.queue, Impl'.arena}
                /\ frames[k].impl = bus' => frames[k].impl = bus
        BY <1>1, <1>3, <1>4, <1>5, <2>1 DEF ZeroImpl
    <2>. QED  BY <1>2, <1>4, <2>2, FramesStay
<1>. QED  BY <1>2, <1>3, <1>6, <1>7, <1>8 DEF IInv

\* A creation adds a part to the bus.
LEMMA PartKeepsIInv ==
    ASSUME IInv, pc \in {"registry", "queue", "arena"}, pc' \in {"queue", "arena", "app"},
           NEW field \in Fields, NEW block \in Available(heap, Sizes[field]),
           heap' = HeapWith(field, block),
           NEW impl \in Impls, impls' = [impls EXCEPT ![bus] = impl],
           impl.deliveries = Impl.deliveries, impl.processing = Impl.processing,
           {impl.registry, impl.queue, impl.arena} \subseteq
                {Impl.registry, Impl.queue, Impl.arena, block},
           UNCHANGED <<bus, frames>>, owned' \in BOOLEAN
    PROVE  /\ Impl' = impl
           /\ PartsHeld' => IInv'
<1>1. bus \in Blocks /\ bus # NullBlock /\ ~Impl.processing
    BY Types DEF IInv, WhileCreating
<1>2. /\ impls' \in [Blocks -> Impls]
      /\ impls'[bus] = impl
      /\ \A b \in Blocks \ {bus} : impls'[b] = impls[b]
    BY <1>1, ImplChanges
<1>3. Impl' = impl
    BY <1>2 DEF Impl
<1>4. /\ HeapSound(heap')
      /\ block \notin Allocated(heap)
      /\ Allocated(heap') = Allocated(heap) \cup {block}
    BY NewPart
<1>5. TypeOK'
    BY <1>1, <1>2, <1>4, TypesAfter DEF IInv, TypeOK
<1>6. FramesSound'
    <2>1. ASSUME NEW k \in 1 .. Len(frames)
          PROVE  /\ frames[k].impl \in Blocks
                 /\ frames[k].impl \in Allocated(heap)
                 /\ impls[frames[k].impl].processing
                 /\ impls[frames[k].impl].deliveries \in Nat
                 /\ frames[k].impl \notin {Impl.registry, Impl.queue, Impl.arena}
        BY <1>1, <2>1, Types, MemoryAssumption DEF FrameSound, Impls
    <2>2. \A k \in 1 .. Len(frames) : frames[k].impl \notin {bus, block}
        BY <1>1, <1>4, <2>1 DEF Impl
    <2>3. \A k \in 1 .. Len(frames) :
                /\ frames[k].impl \in Allocated(heap')
                /\ impls'[frames[k].impl].processing
                /\ impls[frames[k].impl].deliveries <= impls'[frames[k].impl].deliveries
                /\ bus' # NullBlock =>
                        frames[k].impl \notin {Impl'.registry, Impl'.queue, Impl'.arena}
                /\ frames[k].impl = bus' => frames[k].impl = bus
        BY <1>2, <1>3, <1>4, <2>1, <2>2
    <2>. QED  BY <1>2, <2>3, FramesStay
<1>7. WhileCreating'
    BY <1>1, <1>3 DEF WhileCreating
<1>. QED  BY <1>3, <1>4, <1>5, <1>6, <1>7 DEF IInv

\* The second block.
LEMMA CreateRegistryKeepsIInv ==
    ASSUME IInv, CreateRegistry
    PROVE  IInv'
<1>1. PICK block \in Available(heap, Sizes["registry"]) :
            /\ heap' = HeapWith("registry", block)
            /\ impls' = [impls EXCEPT ![bus].registry = block]
    BY DEF CreateRegistry
<1>2. /\ pc = "registry" /\ pc' = "queue"
      /\ UNCHANGED <<bus, frames>>
      /\ owned' \in BOOLEAN
    BY DEF CreateRegistry, IInv, TypeOK
<1>3. bus # NullBlock /\ bus \in Blocks /\ Impl \in Impls
    BY <1>2, Types DEF IInv, WhileCreating
<1>. DEFINE i    == Impl
            impl == [i EXCEPT !.registry = block]
<1>4. /\ HeapSound(heap')
      /\ block \in Blocks
      /\ block \notin Allocated(heap)
      /\ block # NullBlock
      /\ Holds(heap', block, "registry")
      /\ \A b, f : b # block /\ Holds(heap, b, f) => Holds(heap', b, f)
    BY <1>1, FieldNames, NewPart
<1>5. /\ Holds(heap, bus, "impl")
      /\ i.registry = NullBlock /\ i.queue = NullBlock /\ i.arena = NullBlock
    BY <1>2, <1>3 DEF IInv, PartsHeld, HasRegistry, HasQueue, HasArena
<1>6. impls' = [impls EXCEPT ![bus] = impl]
    BY <1>1 DEF Impl
<1>. HIDE DEF i
<1>7. /\ impl \in Impls
      /\ impl.deliveries = i.deliveries /\ impl.processing = i.processing
      /\ impl.registry = block /\ impl.queue = i.queue /\ impl.arena = i.arena
    BY <1>3, <1>4 DEF Impls, Pointers, i
<1>. HIDE DEF impl
<1>8. /\ Impl' = impl
      /\ PartsHeld' => IInv'
    <2>1. {impl.registry, impl.queue, impl.arena} \subseteq
                {i.registry, i.queue, i.arena, block}
        BY <1>7
    <2>2. "registry" \in Fields
        BY FieldNames
    <2>. QED  BY <1>1, <1>2, <1>6, <1>7, <2>1, <2>2, PartKeepsIInv DEF i
<1>9. Holds(heap', bus, "impl") /\ bus # block
    BY <1>4, <1>5, FieldNames, HeldIsAllocated
<1>10. PartsHeld'
    BY <1>2, <1>4, <1>5, <1>7, <1>8, <1>9, HeapAssumption
    DEF PartsHeld, HasRegistry, HasQueue, HasArena, Holds
<1>. QED  BY <1>8, <1>10

\* The third block.
LEMMA CreateQueueKeepsIInv ==
    ASSUME IInv, CreateQueue
    PROVE  IInv'
<1>1. PICK block \in Available(heap, Sizes["queue"]) :
            /\ heap' = HeapWith("queue", block)
            /\ impls' = [impls EXCEPT ![bus].queue = block]
    BY DEF CreateQueue
<1>2. /\ pc = "queue" /\ pc' = "arena"
      /\ UNCHANGED <<bus, frames>>
      /\ owned' \in BOOLEAN
    BY DEF CreateQueue, IInv, TypeOK
<1>3. bus # NullBlock /\ bus \in Blocks /\ Impl \in Impls
    BY <1>2, Types DEF IInv, WhileCreating
<1>. DEFINE i    == Impl
            impl == [i EXCEPT !.queue = block]
<1>4. /\ HeapSound(heap')
      /\ block \in Blocks
      /\ block \notin Allocated(heap)
      /\ block # NullBlock
      /\ Holds(heap', block, "queue")
      /\ \A b, f : b # block /\ Holds(heap, b, f) => Holds(heap', b, f)
    BY <1>1, FieldNames, NewPart
<1>5. /\ Holds(heap, bus, "impl") /\ Holds(heap, i.registry, "registry")
      /\ bus # i.registry
      /\ i.queue = NullBlock /\ i.arena = NullBlock
    BY <1>2, <1>3 DEF IInv, PartsHeld, HasRegistry, HasQueue, HasArena
<1>6. impls' = [impls EXCEPT ![bus] = impl]
    BY <1>1 DEF Impl
<1>. HIDE DEF i
<1>7. /\ impl \in Impls
      /\ impl.deliveries = i.deliveries /\ impl.processing = i.processing
      /\ impl.registry = i.registry /\ impl.queue = block /\ impl.arena = i.arena
    BY <1>3, <1>4 DEF Impls, Pointers, i
<1>. HIDE DEF impl
<1>8. /\ Impl' = impl
      /\ PartsHeld' => IInv'
    <2>1. {impl.registry, impl.queue, impl.arena} \subseteq
                {i.registry, i.queue, i.arena, block}
        BY <1>7
    <2>2. "queue" \in Fields
        BY FieldNames
    <2>. QED  BY <1>1, <1>2, <1>6, <1>7, <2>1, <2>2, PartKeepsIInv DEF i
<1>9. /\ Holds(heap', bus, "impl") /\ bus # block
      /\ Holds(heap', i.registry, "registry") /\ i.registry # block
    BY <1>4, <1>5, FieldNames, HeldIsAllocated
<1>10. PartsHeld'
    BY <1>2, <1>4, <1>5, <1>7, <1>8, <1>9, HeapAssumption
    DEF PartsHeld, HasRegistry, HasQueue, HasArena, Holds
<1>. QED  BY <1>8, <1>10

\* The last block, with which the application has a bus.
LEMMA CreateArenaKeepsIInv ==
    ASSUME IInv, CreateArena
    PROVE  IInv'
<1>1. PICK block \in Available(heap, Sizes["arena"]) :
            /\ heap' = HeapWith("arena", block)
            /\ impls' = [impls EXCEPT ![bus].arena = block]
    BY DEF CreateArena
<1>2. /\ pc = "arena" /\ pc' = "app"
      /\ UNCHANGED <<bus, frames>>
      /\ owned' \in BOOLEAN
    BY DEF CreateArena, IInv, TypeOK
<1>3. bus # NullBlock /\ bus \in Blocks /\ Impl \in Impls
    BY <1>2, Types DEF IInv, WhileCreating
<1>. DEFINE i    == Impl
            impl == [i EXCEPT !.arena = block]
<1>4. /\ HeapSound(heap')
      /\ block \in Blocks
      /\ block \notin Allocated(heap)
      /\ block # NullBlock
      /\ Holds(heap', block, "arena")
      /\ \A b, f : b # block /\ Holds(heap, b, f) => Holds(heap', b, f)
    BY <1>1, FieldNames, NewPart
<1>5. /\ Holds(heap, bus, "impl") /\ Holds(heap, i.registry, "registry")
      /\ Holds(heap, i.queue, "queue")
      /\ bus \notin {i.registry, i.queue} /\ i.registry # i.queue
      /\ i.arena = NullBlock
    BY <1>2, <1>3 DEF IInv, PartsHeld, HasRegistry, HasQueue, HasArena
<1>6. impls' = [impls EXCEPT ![bus] = impl]
    BY <1>1 DEF Impl
<1>. HIDE DEF i
<1>7. /\ impl \in Impls
      /\ impl.deliveries = i.deliveries /\ impl.processing = i.processing
      /\ impl.registry = i.registry /\ impl.queue = i.queue /\ impl.arena = block
    BY <1>3, <1>4 DEF Impls, Pointers, i
<1>. HIDE DEF impl
<1>8. /\ Impl' = impl
      /\ PartsHeld' => IInv'
    <2>1. {impl.registry, impl.queue, impl.arena} \subseteq
                {i.registry, i.queue, i.arena, block}
        BY <1>7
    <2>2. "arena" \in Fields
        BY FieldNames
    <2>. QED  BY <1>1, <1>2, <1>6, <1>7, <2>1, <2>2, PartKeepsIInv DEF i
<1>9. /\ Holds(heap', bus, "impl") /\ bus # block
      /\ Holds(heap', i.registry, "registry") /\ i.registry # block
      /\ Holds(heap', i.queue, "queue") /\ i.queue # block
    BY <1>4, <1>5, FieldNames, HeldIsAllocated
<1>10. PartsHeld'
    BY <1>2, <1>4, <1>5, <1>7, <1>8, <1>9, HeapAssumption
    DEF PartsHeld, HasRegistry, HasQueue, HasArena, Holds
<1>. QED  BY <1>8, <1>10

\* The first allocation fails; a bus that was there is forgotten.
LEMMA CreateFailsKeepsIInv ==
    ASSUME IInv, CreateFails
    PROVE  IInv'
<1>1. /\ pc = "app" /\ pc' = "app" /\ bus' = NullBlock
      /\ UNCHANGED <<heap, impls, frames, owned>>
    BY DEF CreateFails, MayCreate
<1>2. TypeOK'
    BY <1>1 DEF IInv, TypeOK, Pointers
<1>3. PartsHeld' /\ WhileCreating'
    BY <1>1 DEF PartsHeld, WhileCreating
<1>4. FramesSound'
    <2>1. ASSUME NEW k \in 1 .. Len(frames)
          PROVE  /\ frames[k].impl \in Blocks \ {NullBlock}
                 /\ frames[k].impl \in Allocated(heap)
                 /\ impls[frames[k].impl].processing
                 /\ impls[frames[k].impl].deliveries \in Nat
        BY <2>1, Types, HeapAssumption, MemoryAssumption DEF FrameSound, Impls
    <2>2. impls' \in [Blocks -> Impls]
        BY <1>1, Types
    <2>3. \A k \in 1 .. Len(frames) :
                /\ frames[k].impl \in Allocated(heap')
                /\ impls'[frames[k].impl].processing
                /\ impls[frames[k].impl].deliveries <= impls'[frames[k].impl].deliveries
                /\ bus' # NullBlock =>
                        frames[k].impl \notin {Impl'.registry, Impl'.queue, Impl'.arena}
                /\ frames[k].impl = bus' => frames[k].impl = bus
        BY <1>1, <2>1
    <2>. QED  BY <1>1, <2>2, <2>3, FramesStay
<1>. QED  BY <1>1, <1>2, <1>3, <1>4 DEF IInv

-----------------------------------------------------------------------------
(* The steps: destruction                                                  *)

\* A bus that no call is on is destroyed.
LEMMA DestroyNowKeepsIInv ==
    ASSUME IInv, DestroyNow, ~Impl.processing, UNCHANGED frames,
           pc = "app" \/ pc \in {"registry", "queue", "arena"}, pc' = "app",
           owned' \in BOOLEAN
    PROVE  IInv'
<1>1. /\ bus # NullBlock /\ bus \in Blocks
      /\ bus' = NullBlock
      /\ heap' = HeapWithoutBus
      /\ impls' = [impls EXCEPT ![bus] = ZeroImpl]
    BY Types DEF DestroyNow
<1>2. /\ HeapSound(heap')
      /\ Allocated(heap') = Allocated(heap) \ {bus, Impl.registry, Impl.queue, Impl.arena}
    BY <1>1, DestructionFreesParts DEF IInv
<1>3. /\ impls' \in [Blocks -> Impls]
      /\ \A b \in Blocks \ {bus} : impls'[b] = impls[b]
    BY <1>1, ZeroImplIsImpl, ImplChanges
<1>4. TypeOK'
    BY <1>1, <1>2, <1>3, TypesAfter DEF IInv, Pointers
<1>5. PartsHeld' /\ WhileCreating'
    BY <1>1 DEF PartsHeld, WhileCreating
<1>6. FramesSound'
    <2>1. ASSUME NEW k \in 1 .. Len(frames)
          PROVE  /\ frames[k].impl \in Blocks \ {NullBlock}
                 /\ frames[k].impl \in Allocated(heap)
                 /\ impls[frames[k].impl].processing
                 /\ impls[frames[k].impl].deliveries \in Nat
                 /\ frames[k].impl \notin {Impl.registry, Impl.queue, Impl.arena}
        BY <1>1, <2>1, Types, HeapAssumption, MemoryAssumption DEF FrameSound, Impls
    <2>2. \A k \in 1 .. Len(frames) : frames[k].impl # bus
        BY <2>1 DEF Impl
    <2>3. \A k \in 1 .. Len(frames) :
                /\ frames[k].impl \in Allocated(heap')
                /\ impls'[frames[k].impl].processing
                /\ impls[frames[k].impl].deliveries <= impls'[frames[k].impl].deliveries
                /\ bus' # NullBlock =>
                        frames[k].impl \notin {Impl'.registry, Impl'.queue, Impl'.arena}
                /\ frames[k].impl = bus' => frames[k].impl = bus
        BY <1>1, <1>2, <1>3, <2>1, <2>2
    <2>. QED  BY <1>3, <2>3, FramesStay
<1>. QED  BY <1>2, <1>4, <1>5, <1>6 DEF IInv

\* A creation that fails gives back what it had obtained.
LEMMA AllocationFailsKeepsIInv ==
    ASSUME IInv, AllocationFails
    PROVE  IInv'
<1>1. /\ pc \in {"registry", "queue", "arena"} /\ pc' = "app"
      /\ DestroyNow /\ ~Impl.processing
      /\ UNCHANGED frames
      /\ owned' \in BOOLEAN
    BY DEF AllocationFails, IInv, WhileCreating, TypeOK
<1>. QED  BY <1>1, DestroyNowKeepsIInv

\* A destruction at once, or of a null bus.
LEMMA DestroyKeepsIInv ==
    ASSUME IInv, Destroy
    PROVE  IInv'
<1>1. /\ pc = "app" /\ pc' = "app"
      /\ UNCHANGED frames
      /\ owned' \in BOOLEAN
    BY DEF Destroy
<1>2. CASE bus # NullBlock
    BY <1>1, <1>2, DestroyNowKeepsIInv DEF Destroy
<1>3. CASE bus = NullBlock
    <2>1. UNCHANGED <<heap, bus, impls, frames, pc>>
        BY <1>1, <1>3 DEF Destroy
    <2>2. TypeOK'
        BY <1>1, <2>1 DEF IInv, TypeOK
    <2>3. PartsHeld' /\ WhileCreating'
        BY <1>1, <1>3, <2>1 DEF PartsHeld, WhileCreating
    <2>4. FramesSound'
        BY <1>3, <2>1 DEF IInv, FramesSound, FrameSound
    <2>. QED  BY <2>1, <2>2, <2>3, <2>4 DEF IInv
<1>. QED  BY <1>2, <1>3

\* A step of the application that writes to the bus.
LEMMA BusWritten ==
    ASSUME IInv, pc = "app", bus # NullBlock,
           NEW impl \in Impls, impls' = [impls EXCEPT ![bus] = impl],
           impl.registry = Impl.registry, impl.queue = Impl.queue, impl.arena = Impl.arena,
           UNCHANGED <<heap, bus>>, pc' \in {"app", "loop"}, owned' \in BOOLEAN
    PROVE  /\ Impl' = impl
           /\ impls' \in [Blocks -> Impls]
           /\ \A b \in Blocks \ {bus} : impls'[b] = impls[b]
           /\ frames' \in Seq(Frames) => TypeOK'
           /\ PartsHeld'
           /\ WhileCreating'
<1>1. bus \in Blocks
    BY Types
<1>2. /\ impls' \in [Blocks -> Impls]
      /\ impls'[bus] = impl
      /\ \A b \in Blocks \ {bus} : impls'[b] = impls[b]
    BY <1>1, ImplChanges
<1>3. Impl' = impl
    BY <1>2 DEF Impl
<1>4. frames' \in Seq(Frames) => TypeOK'
    BY <1>2, TypesAfter DEF IInv, TypeOK
<1>5. PartsHeld'
    <2>. DEFINE i == Impl
    <2>1. /\ Holds(heap', bus', "impl")
          /\ Holds(heap', i.registry, "registry")
          /\ Holds(heap', i.queue, "queue")
          /\ Holds(heap', i.arena, "arena")
          /\ bus \notin {i.registry, i.queue, i.arena}
          /\ i.registry \notin {i.queue, i.arena}
          /\ i.queue # i.arena
        BY DEF IInv, PartsHeld, HasRegistry, HasQueue, HasArena, Holds
    <2>2. impl.registry = i.registry /\ impl.queue = i.queue /\ impl.arena = i.arena
        OBVIOUS
    <2>. HIDE DEF i
    <2>. QED  BY <1>3, <2>1, <2>2 DEF PartsHeld, HasRegistry, HasQueue, HasArena
<1>. QED  BY <1>2, <1>3, <1>4, <1>5 DEF WhileCreating

\* A step of the application that writes to the bus and leaves it processing or
\* not, as it is, and its deliveries waiting.
LEMMA BusWrittenOnly ==
    ASSUME IInv, pc = "app", bus # NullBlock,
           NEW impl \in Impls, impls' = [impls EXCEPT ![bus] = impl],
           impl.registry = Impl.registry, impl.queue = Impl.queue, impl.arena = Impl.arena,
           impl.processing = Impl.processing, impl.deliveries >= Impl.deliveries,
           UNCHANGED <<heap, bus, frames>>, pc' = "app", owned' \in BOOLEAN
    PROVE  IInv' /\ Impl' = impl
<1>1. /\ Impl' = impl
      /\ impls' \in [Blocks -> Impls]
      /\ \A b \in Blocks \ {bus} : impls'[b] = impls[b]
      /\ TypeOK' /\ PartsHeld' /\ WhileCreating'
    BY BusWritten DEF IInv
<1>2. FramesSound'
    <2>1. ASSUME NEW k \in 1 .. Len(frames)
          PROVE  /\ frames[k].impl \in Blocks
                 /\ frames[k].impl \in Allocated(heap)
                 /\ impls[frames[k].impl].processing
                 /\ impls[frames[k].impl].deliveries \in Nat
                 /\ frames[k].impl \notin {Impl.registry, Impl.queue, Impl.arena}
        BY <2>1, Types, MemoryAssumption DEF FrameSound, Impls
    <2>2. impls[bus] = Impl /\ impls'[bus] = impl
        BY <1>1 DEF Impl
    <2>. DEFINE i == Impl
    <2>3. /\ impls[bus] = i /\ Impl' = impl
          /\ impl.registry = i.registry /\ impl.queue = i.queue /\ impl.arena = i.arena
          /\ impl.processing = i.processing
          /\ i.deliveries \in Nat /\ impl.deliveries \in Nat
          /\ i.deliveries <= impl.deliveries
          /\ \A k \in 1 .. Len(frames) : frames[k].impl \notin {i.registry, i.queue, i.arena}
        BY <1>1, <2>1, <2>2, Types, MemoryAssumption DEF Impls
    <2>. HIDE DEF i
    <2>4. \A k \in 1 .. Len(frames) :
                /\ frames[k].impl \in Allocated(heap')
                /\ impls'[frames[k].impl].processing
                /\ impls[frames[k].impl].deliveries <= impls'[frames[k].impl].deliveries
                /\ bus' # NullBlock =>
                        frames[k].impl \notin {Impl'.registry, Impl'.queue, Impl'.arena}
                /\ frames[k].impl = bus' => frames[k].impl = bus
        BY <1>1, <2>1, <2>2, <2>3
    <2>. QED  BY <1>1, <2>4, FramesStay
<1>. QED  BY <1>1, <1>2 DEF IInv

\* A callback asks for the destruction of the bus that called it.
LEMMA DestroyLaterKeepsIInv ==
    ASSUME IInv, DestroyLater
    PROVE  IInv' /\ Impl' = [Impl EXCEPT !.destroy_requested = TRUE]
<1>. DEFINE i    == Impl
            impl == [i EXCEPT !.destroy_requested = TRUE]
<1>1. /\ pc = "app" /\ pc' = "app"
      /\ UNCHANGED <<heap, bus, frames>>
      /\ owned' \in BOOLEAN
      /\ bus # NullBlock
      /\ impls' = [impls EXCEPT ![bus] = impl]
      /\ i \in Impls
    BY Types DEF DestroyLater, Impl
<1>. HIDE DEF i
<1>2. /\ impl \in Impls
      /\ impl.registry = i.registry /\ impl.queue = i.queue /\ impl.arena = i.arena
      /\ impl.deliveries = i.deliveries /\ impl.processing = i.processing
    BY <1>1 DEF Impls
<1>. HIDE DEF impl
<1>3. impl.deliveries >= i.deliveries
    BY <1>1, <1>2, MemoryAssumption DEF Impls
<1>4. IInv' /\ Impl' = impl
    BY <1>1, <1>2, <1>3, BusWrittenOnly DEF i
<1>. QED  BY <1>4 DEF i, impl

-----------------------------------------------------------------------------
(* The steps: publishing and processing                                    *)

\* Another delivery, also from a callback.
LEMMA PublishKeepsIInv ==
    ASSUME IInv, Publish
    PROVE  IInv' /\ Impl' = [Impl EXCEPT !.deliveries = @ + 1]
<1>. DEFINE i    == Impl
            impl == [i EXCEPT !.deliveries = @ + 1]
<1>1. /\ pc = "app" /\ pc' = "app"
      /\ UNCHANGED <<heap, bus, frames>>
      /\ owned' \in BOOLEAN
      /\ bus # NullBlock
      /\ impls' = [impls EXCEPT ![bus] = impl]
      /\ i \in Impls
      /\ i.deliveries < MaxQueuedDeliveries
    BY Types DEF Publish, Impl, IInv, TypeOK
<1>. HIDE DEF i
<1>2. /\ impl \in Impls
      /\ impl.registry = i.registry /\ impl.queue = i.queue /\ impl.arena = i.arena
      /\ impl.deliveries >= i.deliveries /\ impl.processing = i.processing
    BY <1>1, MemoryAssumption DEF Impls
<1>. HIDE DEF impl
<1>3. IInv' /\ Impl' = impl
    BY <1>1, <1>2, BusWrittenOnly DEF i
<1>. QED  BY <1>3 DEF i, impl

\* A call of event_bus_process begins.
LEMMA ProcessKeepsIInv ==
    ASSUME IInv, Process
    PROVE  IInv' /\ Impl' = [Impl EXCEPT !.processing = TRUE]
<1>. DEFINE i    == Impl
            impl == [i EXCEPT !.processing = TRUE]
            call == [impl |-> bus, cursor |-> 0]
            n    == Len(frames)
<1>1. /\ pc = "app" /\ pc' = "loop"
      /\ UNCHANGED <<heap, bus, owned>>
      /\ bus # NullBlock /\ bus \in Blocks
      /\ impls' = [impls EXCEPT ![bus] = impl]
      /\ i \in Impls
      /\ ~i.processing
      /\ i.deliveries > 0
      /\ frames' = Append(frames, call)
    BY Types DEF Process, Impl
<1>. HIDE DEF i
<1>2. /\ impl \in Impls
      /\ impl.registry = i.registry /\ impl.queue = i.queue /\ impl.arena = i.arena
      /\ impl.deliveries = i.deliveries /\ impl.processing = TRUE
    BY <1>1 DEF Impls
<1>. HIDE DEF impl
<1>3. call \in Frames /\ call.impl = bus /\ call.cursor = 0
    BY <1>1, MemoryAssumption DEF Frames
<1>. HIDE DEF call
<1>4. frames \in Seq(Frames) /\ n \in Nat
    BY DEF IInv
<1>5. /\ frames' \in Seq(Frames)
      /\ Len(frames') = n + 1
      /\ frames'[n + 1] = call
      /\ \A k \in 1 .. n : frames'[k] = frames[k]
      /\ frames' # <<>>
    BY <1>1, <1>3, <1>4
<1>6. /\ Impl' = impl
      /\ impls' \in [Blocks -> Impls]
      /\ \A b \in Blocks \ {bus} : impls'[b] = impls[b]
      /\ TypeOK' /\ PartsHeld' /\ WhileCreating'
    <2>1. owned' \in BOOLEAN
        BY <1>1 DEF IInv, TypeOK
    <2>2. /\ impl.registry = Impl.registry /\ impl.queue = Impl.queue
          /\ impl.arena = Impl.arena
        BY <1>2 DEF i
    <2>. QED  BY <1>1, <1>2, <1>5, <2>1, <2>2, BusWritten
<1>7. ASSUME NEW k \in 1 .. n
      PROVE  /\ frames[k].impl \in Blocks
             /\ frames[k].impl \in Allocated(heap)
             /\ impls[frames[k].impl].processing
             /\ frames[k].impl \notin {i.registry, i.queue, i.arena}
             /\ frames[k].cursor < impls[frames[k].impl].deliveries
             /\ frames[k].cursor <= impls[frames[k].impl].deliveries
             /\ \A j \in 1 .. n : frames[j].impl = frames[k].impl => j = k
    BY <1>1, <1>7, Types, MemoryAssumption DEF FrameSound, i
<1>8. \A k \in 1 .. n : frames[k].impl # bus
    BY <1>1, <1>7 DEF i, Impl
<1>9. /\ bus \in Allocated(heap)
      /\ bus \notin {i.registry, i.queue, i.arena}
    BY <1>1, FieldNames, HeldIsAllocated
    DEF IInv, PartsHeld, HasRegistry, HasQueue, HasArena, i
<1>10. impls'[bus] = impl
    BY <1>6, <1>1 DEF Impl
<1>. HIDE DEF n
<1>11. FramesSound'
    <2>. SUFFICES ASSUME NEW k \in 1 .. n + 1 PROVE FrameSound(k)'
        BY <1>5 DEF FramesSound
    <2>1. CASE k \in 1 .. n
        <3>1. /\ frames'[k] = frames[k]
              /\ impls'[frames[k].impl] = impls[frames[k].impl]
              /\ frames[k].impl # bus
            BY <1>5, <1>6, <1>7, <1>8, <2>1
        <3>2. \A j \in 1 .. n + 1 : frames'[j].impl = frames[k].impl => j = k
            BY <1>3, <1>4, <1>5, <1>7, <2>1, <3>1
        <3>. QED  BY <1>1, <1>2, <1>5, <1>6, <1>7, <2>1, <3>1, <3>2 DEF FrameSound
    <2>2. CASE k = n + 1
        <3>1. frames'[k] = call /\ call.impl = bus
            BY <1>3, <1>5, <2>2
        <3>2. \A j \in 1 .. n + 1 : frames'[j].impl = bus => j = k
            BY <1>4, <1>5, <1>8, <2>2
        <3>3. 0 <= impl.deliveries /\ 0 < impl.deliveries
            BY <1>1, <1>2, MemoryAssumption DEF Impls
        <3>. QED  BY <1>1, <1>2, <1>3, <1>5, <1>6, <1>9, <1>10, <2>2, <3>1, <3>2, <3>3
                  DEF FrameSound
    <2>. QED  BY <1>4, <2>1, <2>2
<1>12. HeapSound(heap')
    BY <1>1 DEF IInv
<1>13. IInv'
    BY <1>5, <1>6, <1>11, <1>12 DEF IInv
<1>. QED  BY <1>6, <1>13 DEF impl, i

\* The innermost call, and the others.
LEMMA TopFrame ==
    ASSUME IInv, frames # <<>>
    PROVE  LET n == Len(frames)
           IN  /\ n \in Nat \ {0}
               /\ Running = frames[n]
               /\ Running \in Frames
               /\ Running.impl \in Blocks
               /\ impls[Running.impl] \in Impls
               /\ FrameSound(n)
               /\ PopFrame \in Seq(Frames)
               /\ Len(PopFrame) = n - 1
               /\ \A k \in 1 .. n - 1 : PopFrame[k] = frames[k]
<1>. DEFINE n == Len(frames)
<1>1. frames \in Seq(Frames) /\ n \in Nat \ {0}
    BY DEF IInv
<1>2. /\ Running = frames[n]
      /\ Running \in Frames
      /\ Running.impl \in Blocks
      /\ impls[Running.impl] \in Impls
      /\ FrameSound(n)
    BY <1>1, Types DEF Running
<1>3. PopFrame = SubSeq(frames, 1, n - 1)
    BY DEF PopFrame
<1>. HIDE DEF n
<1>4. \A k \in 1 .. n - 1 : frames[k] \in Frames
    BY <1>1 DEF n
<1>5. /\ SubSeq(frames, 1, n - 1) \in Seq(Frames)
      /\ Len(SubSeq(frames, 1, n - 1)) = IF 1 <= n - 1 THEN (n - 1) - 1 + 1 ELSE 0
      /\ \A k \in 1 .. (n - 1) - 1 + 1 : SubSeq(frames, 1, n - 1)[k] = frames[1 + k - 1]
    BY <1>1, <1>4, SubSeqProperties
<1>6. /\ PopFrame \in Seq(Frames)
      /\ Len(PopFrame) = n - 1
      /\ \A k \in 1 .. n - 1 : PopFrame[k] = frames[k]
    BY <1>1, <1>3, <1>5
<1>. QED  BY <1>1, <1>2, <1>6 DEF n

\* The calls that wait for the innermost one stay sound when it ends.
LEMMA FramesWithoutTop ==
    ASSUME IInv, frames # <<>>, frames' = PopFrame, pc' = "app",
           \A b \in Blocks \ {Running.impl, bus} : impls'[b] = impls[b],
           \A b \in Blocks : b \in Allocated(heap) /\ b # bus
                                /\ (bus # NullBlock =>
                                        b \notin {Impl.registry, Impl.queue, Impl.arena})
                             => b \in Allocated(heap'),
           bus' # NullBlock => /\ bus' = bus
                               /\ Impl'.registry = Impl.registry
                               /\ Impl'.queue = Impl.queue
                               /\ Impl'.arena = Impl.arena
    PROVE  FramesSound' /\ frames' \in Seq(Frames)
<1>. DEFINE n == Len(frames)
<1>1. /\ n \in Nat \ {0}
      /\ Running = frames[n]
      /\ Running.impl \in Blocks
      /\ FrameSound(n)
      /\ frames' \in Seq(Frames)
      /\ Len(frames') = n - 1
      /\ \A k \in 1 .. n - 1 : frames'[k] = frames[k]
    BY TopFrame
<1>2. ASSUME NEW k \in 1 .. n - 1
      PROVE  /\ frames[k].impl \in Blocks
             /\ frames[k].impl \in Allocated(heap)
             /\ impls[frames[k].impl].processing
             /\ bus # NullBlock =>
                    frames[k].impl \notin {Impl.registry, Impl.queue, Impl.arena}
             /\ frames[k].cursor < impls[frames[k].impl].deliveries
             /\ frames[k].cursor <= impls[frames[k].impl].deliveries
             /\ frames[k].impl # bus
             /\ frames[k].impl # Running.impl
             /\ \A j \in 1 .. n : frames[j].impl = frames[k].impl => j = k
    <2>1. k \in 1 .. n /\ k < n /\ k # n /\ n \in 1 .. n
        BY <1>1, <1>2
    <2>2. FrameSound(k) /\ frames[k].impl \in Blocks
        BY <2>1, Types
    <2>3. \A j \in 1 .. n : frames[j].impl = frames[k].impl => j = k
        BY <2>2 DEF FrameSound
    <2>4. frames[k].impl # Running.impl
        BY <1>1, <2>1, <2>3
    <2>. HIDE DEF n
    <2>5. /\ frames[k].impl \in Allocated(heap)
          /\ impls[frames[k].impl].processing
          /\ bus # NullBlock =>
                    frames[k].impl \notin {Impl.registry, Impl.queue, Impl.arena}
          /\ frames[k].cursor < impls[frames[k].impl].deliveries
          /\ frames[k].cursor <= impls[frames[k].impl].deliveries
          /\ frames[k].impl # bus
        BY <2>1, <2>2 DEF FrameSound, n
    <2>. QED  BY <2>2, <2>3, <2>4, <2>5
<1>. HIDE DEF n
<1>3. FramesSound'
    <2>. SUFFICES ASSUME NEW k \in 1 .. n - 1 PROVE FrameSound(k)'
        BY <1>1 DEF FramesSound
    <2>1. frames'[k] = frames[k] /\ impls'[frames[k].impl] = impls[frames[k].impl]
        BY <1>1, <1>2
    <2>2. \A j \in 1 .. n - 1 : frames'[j].impl = frames[k].impl => j = k
        BY <1>1, <1>2
    <2>3. frames[k].impl \in Allocated(heap')
        BY <1>2
    <2>4. bus' # NullBlock =>
                frames[k].impl \notin {Impl'.registry, Impl'.queue, Impl'.arena}
        BY <1>2
    <2>5. frames[k].impl # bus'
        BY <1>2, HeapAssumption
    <2>. QED  BY <1>1, <1>2, <2>1, <2>2, <2>3, <2>4, <2>5 DEF FrameSound
<1>. QED  BY <1>1, <1>3

\* A callback is called.
LEMMA CallListenerKeepsIInv ==
    ASSUME IInv, CallListener
    PROVE  IInv'
<1>. DEFINE n == Len(frames)
<1>1. /\ pc = "loop" /\ pc' = "app"
      /\ UNCHANGED <<heap, bus, impls, frames, owned>>
      /\ frames # <<>>
    BY DEF CallListener, IInv
<1>2. n \in Nat \ {0} /\ Running = frames[n]
    BY <1>1, TopFrame
<1>3. TypeOK'
    BY <1>1 DEF IInv, TypeOK
<1>4. PartsHeld' /\ WhileCreating'
    BY <1>1 DEF IInv, PartsHeld, WhileCreating, HasRegistry, HasQueue, HasArena, Holds, Impl
<1>. HIDE DEF n
<1>5. FramesSound'
    <2>. SUFFICES ASSUME NEW k \in 1 .. n PROVE FrameSound(k)'
        BY <1>1 DEF FramesSound, n
    <2>1. FrameSound(k)
        BY Types DEF n
    <2>2. frames[k].cursor < impls[frames[k].impl].deliveries
        <3>1. CASE k = n
            BY <1>2, <3>1 DEF CallListener
        <3>2. CASE k # n
            BY <1>2, <2>1, <3>2 DEF FrameSound, n
        <3>. QED  BY <3>1, <3>2
    <2>3. Impl' = Impl
        BY <1>1 DEF Impl
    <2>. QED  BY <1>1, <2>1, <2>2, <2>3 DEF FrameSound
<1>. QED  BY <1>1, <1>3, <1>4, <1>5 DEF IInv

\* A callback returns, and the loop goes on.
LEMMA CallbackReturnsKeepsIInv ==
    ASSUME IInv, CallbackReturns
    PROVE  IInv' /\ Len(frames') = Len(frames) /\ Running'.impl = Running.impl
<1>. DEFINE n    == Len(frames)
            call == [Running EXCEPT !.cursor = @ + 1]
<1>1. /\ pc = "app" /\ pc' = "loop"
      /\ UNCHANGED <<heap, bus, impls, owned>>
      /\ frames # <<>>
      /\ frames' = [frames EXCEPT ![n].cursor = @ + 1]
      /\ Impl' = Impl
    BY DEF CallbackReturns, Impl
<1>2. /\ n \in Nat \ {0} /\ Running = frames[n]
      /\ Running \in Frames
      /\ impls[Running.impl] \in Impls
      /\ FrameSound(n)
      /\ frames \in Seq(Frames)
    BY <1>1, TopFrame DEF IInv
<1>3. frames' = [frames EXCEPT ![n] = call]
    BY <1>1, <1>2
<1>4. Running.cursor < impls[Running.impl].deliveries
    BY <1>1, <1>2 DEF FrameSound
<1>5. /\ call \in Frames
      /\ call.impl = Running.impl
      /\ call.cursor <= impls[Running.impl].deliveries
    BY <1>2, <1>4, MemoryAssumption DEF Frames, Impls
<1>. HIDE DEF call
<1>6. n \in 1 .. n
    BY <1>2
<1>7. /\ frames' \in Seq(Frames)
      /\ Len(frames') = n
      /\ \A k \in 1 .. n : frames'[k] = IF k = n THEN call ELSE frames[k]
    BY <1>2, <1>3, <1>5, <1>6, ExceptSeq
<1>. HIDE DEF n
<1>8. frames' # <<>> /\ Running' = call
    BY <1>2, <1>6, <1>7 DEF Running
<1>9. TypeOK'
    <2>1. bus' \in Pointers /\ impls' \in [Blocks -> Impls] /\ owned' \in BOOLEAN
        BY <1>1, Types DEF IInv, TypeOK
    <2>2. HeapSound(heap')
        BY <1>1 DEF IInv
    <2>. QED  BY <1>1, <1>7, <2>1, <2>2, TypesAfter
<1>10. PartsHeld' /\ WhileCreating'
    BY <1>1 DEF IInv, PartsHeld, WhileCreating, HasRegistry, HasQueue, HasArena, Holds
<1>11. FramesSound'
    <2>1. \A k \in 1 .. n : frames'[k].impl = frames[k].impl
        BY <1>2, <1>5, <1>7
    <2>. SUFFICES ASSUME NEW k \in 1 .. n PROVE FrameSound(k)'
        BY <1>7 DEF FramesSound
    <2>2. FrameSound(k)
        BY Types DEF n
    <2>3. /\ frames'[k].cursor <= impls[frames[k].impl].deliveries
          /\ k < n => frames'[k].cursor < impls[frames[k].impl].deliveries
        <3>1. CASE k = n
            BY <1>2, <1>5, <1>7, <3>1
        <3>2. CASE k # n
            BY <1>7, <2>2, <3>2 DEF FrameSound, n
        <3>. QED  BY <3>1, <3>2
    <2>4. \A j \in 1 .. n : frames'[j].impl = frames'[k].impl => j = k
        BY <2>1, <2>2 DEF FrameSound, n
    <2>5. frames'[k].impl = bus => k = n
        BY <2>1, <2>2 DEF FrameSound, n
    <2>. QED  BY <1>1, <1>7, <2>1, <2>2, <2>3, <2>4, <2>5 DEF FrameSound
<1>12. HeapSound(heap')
    BY <1>1 DEF IInv
<1>13. IInv'
    BY <1>1, <1>7, <1>8, <1>9, <1>10, <1>11, <1>12 DEF IInv
<1>. QED  BY <1>5, <1>7, <1>8, <1>13 DEF n

\* A callback returns that asked for the destruction of the bus that called it;
\* what is destroyed is the bus that the handle refers to now.
LEMMA CallbackReturnsDestroyedKeepsIInv ==
    ASSUME IInv, CallbackReturnsDestroyed
    PROVE  IInv'
<1>. DEFINE running == Running.impl
            i       == impls[running]
<1>1. /\ pc = "app" /\ pc' = "app"
      /\ frames # <<>>
      /\ frames' = PopFrame
      /\ bus' = NullBlock
      /\ UNCHANGED owned
    BY DEF CallbackReturnsDestroyed
<1>2. running \in Blocks /\ i \in Impls
    BY <1>1, TopFrame
<1>3. [i EXCEPT !.processing = FALSE] \in Impls
    BY <1>2 DEF Impls
<1>4. impls \in [Blocks -> Impls] /\ (bus # NullBlock => bus \in Blocks)
    BY Types
<1>5. /\ HeapSound(heap')
      /\ impls' \in [Blocks -> Impls]
      /\ \A b \in Blocks \ {running, bus} : impls'[b] = impls[b]
      /\ \A b \in Blocks : b \in Allocated(heap) /\ b # bus
                                /\ (bus # NullBlock =>
                                        b \notin {Impl.registry, Impl.queue, Impl.arena})
                             => b \in Allocated(heap')
    <2>1. CASE bus = NullBlock
        <3>1. /\ impls' = [impls EXCEPT ![running] = [i EXCEPT !.processing = FALSE]]
              /\ heap' = heap
            BY <2>1 DEF CallbackReturnsDestroyed
        <3>. HIDE DEF running, i, Impls
        <3>. QED  BY <1>2, <1>3, <1>4, <3>1 DEF IInv
    <2>2. CASE bus # NullBlock
        <3>. DEFINE ended == [impls EXCEPT ![running] = [i EXCEPT !.processing = FALSE]]
        <3>1. /\ impls' = [ended EXCEPT ![bus] = ZeroImpl]
              /\ heap' = HeapWithoutBus
            BY <2>2 DEF CallbackReturnsDestroyed
        <3>2. /\ HeapSound(heap')
              /\ Allocated(heap') =
                    Allocated(heap) \ {bus, Impl.registry, Impl.queue, Impl.arena}
            BY <2>2, <3>1, DestructionFreesParts DEF IInv
        <3>. HIDE DEF running, i, Impls
        <3>3. /\ ended \in [Blocks -> Impls]
              /\ \A b \in Blocks \ {running} : ended[b] = impls[b]
            BY <1>2, <1>3, <1>4
        <3>. HIDE DEF ended
        <3>4. /\ impls' \in [Blocks -> Impls]
              /\ \A b \in Blocks \ {bus} : impls'[b] = ended[b]
            BY <1>4, <2>2, <3>1, <3>3, ZeroImplIsImpl
        <3>. QED  BY <2>2, <3>2, <3>3, <3>4
    <2>. QED  BY <2>1, <2>2
<1>6. FramesSound' /\ frames' \in Seq(Frames)
    BY <1>1, <1>5, FramesWithoutTop
<1>7. TypeOK'
    <2>1. bus' \in Pointers /\ owned' \in BOOLEAN
        BY <1>1 DEF IInv, TypeOK, Pointers
    <2>. QED  BY <1>1, <1>5, <1>6, <2>1, TypesAfter
<1>8. PartsHeld' /\ WhileCreating'
    BY <1>1 DEF PartsHeld, WhileCreating
<1>. QED  BY <1>1, <1>5, <1>6, <1>7, <1>8 DEF IInv

\* The queue has been processed.
LEMMA ProcessEndsKeepsIInv ==
    ASSUME IInv, ProcessEnds
    PROVE  /\ IInv'
           /\ bus # NullBlock =>
                /\ Impl'.registry = Impl.registry
                /\ Impl'.queue = Impl.queue
                /\ Impl'.arena = Impl.arena
                /\ Impl'.destroy_requested = Impl.destroy_requested
                /\ Running.impl = bus => ~Impl'.processing
<1>. DEFINE running == Running.impl
            i       == impls[running]
            impl    == [[i EXCEPT !.processing = FALSE] EXCEPT !.deliveries = 0]
<1>1. /\ pc = "loop" /\ pc' = "app"
      /\ frames # <<>>
      /\ frames' = PopFrame
      /\ UNCHANGED <<heap, bus, owned>>
    BY DEF ProcessEnds, IInv
<1>2. running \in Blocks /\ i \in Impls
    BY <1>1, TopFrame
<1>3. impls' = [impls EXCEPT ![running] = impl]
    <2>1. impls' = [impls EXCEPT ![running].processing = FALSE, ![running].deliveries = 0]
        BY DEF ProcessEnds
    <2>2. impls \in [Blocks -> Impls]
        BY Types
    <2>. HIDE DEF running, Impls
    <2>. QED  BY <1>2, <2>1, <2>2
<1>. HIDE DEF i
<1>4. /\ impl \in Impls
      /\ impl.registry = i.registry /\ impl.queue = i.queue /\ impl.arena = i.arena
      /\ impl.destroy_requested = i.destroy_requested
      /\ impl.processing = FALSE
    <2>. DEFINE j == [i EXCEPT !.processing = FALSE]
    <2>1. /\ j \in Impls
          /\ j.registry = i.registry /\ j.queue = i.queue /\ j.arena = i.arena
          /\ j.destroy_requested = i.destroy_requested
          /\ j.processing = FALSE
        BY <1>2 DEF Impls
    <2>. HIDE DEF j
    <2>2. [j EXCEPT !.deliveries = 0] \in Impls
        BY <2>1, MemoryAssumption DEF Impls
    <2>3. /\ impl = [j EXCEPT !.deliveries = 0]
        BY DEF j
    <2>. HIDE DEF impl
    <2>. QED  BY <2>1, <2>2, <2>3 DEF Impls
<1>. HIDE DEF impl, running
<1>5. /\ impls' \in [Blocks -> Impls]
      /\ impls'[running] = impl
      /\ \A b \in Blocks \ {running} : impls'[b] = impls[b]
    BY <1>2, <1>3, <1>4, ImplChanges
<1>6. bus # NullBlock =>
        /\ Impl'.registry = Impl.registry
        /\ Impl'.queue = Impl.queue
        /\ Impl'.arena = Impl.arena
        /\ Impl'.destroy_requested = Impl.destroy_requested
        /\ running = bus => ~Impl'.processing
    <2>1. CASE running = bus
        BY <1>1, <1>4, <1>5, <2>1 DEF Impl, i
    <2>2. CASE running # bus
        BY <1>1, <1>5, <2>2, Types DEF Impl
    <2>. QED  BY <2>1, <2>2
<1>7. FramesSound' /\ frames' \in Seq(Frames)
    <2>1. \A b \in Blocks \ {Running.impl, bus} : impls'[b] = impls[b]
        BY <1>5 DEF running
    <2>2. Allocated(heap') = Allocated(heap)
        BY <1>1
    <2>. QED  BY <1>1, <1>6, <2>1, <2>2, FramesWithoutTop
<1>8. HeapSound(heap')
    BY <1>1 DEF IInv
<1>9. TypeOK'
    <2>1. bus' \in Pointers /\ owned' \in BOOLEAN
        BY <1>1 DEF IInv, TypeOK
    <2>. QED  BY <1>1, <1>5, <1>7, <1>8, <2>1, TypesAfter
<1>10. PartsHeld' /\ WhileCreating'
    <2>1. CASE bus = NullBlock
        BY <1>1, <2>1 DEF PartsHeld, WhileCreating
    <2>2. CASE bus # NullBlock
        <3>. DEFINE b == Impl
        <3>1. /\ Holds(heap', bus', "impl")
              /\ Holds(heap', b.registry, "registry")
              /\ Holds(heap', b.queue, "queue")
              /\ Holds(heap', b.arena, "arena")
              /\ bus \notin {b.registry, b.queue, b.arena}
              /\ b.registry \notin {b.queue, b.arena}
              /\ b.queue # b.arena
            BY <1>1, <2>2 DEF IInv, PartsHeld, HasRegistry, HasQueue, HasArena, Holds
        <3>2. /\ Impl'.registry = b.registry /\ Impl'.queue = b.queue
              /\ Impl'.arena = b.arena
            BY <1>6, <2>2
        <3>. HIDE DEF b
        <3>. QED  BY <1>1, <3>1, <3>2
                  DEF PartsHeld, WhileCreating, HasRegistry, HasQueue, HasArena
    <2>. QED  BY <2>1, <2>2
<1>11. IInv'
    BY <1>1, <1>7, <1>8, <1>9, <1>10 DEF IInv
<1>. QED  BY <1>6, <1>11 DEF running

-----------------------------------------------------------------------------
(* The theorems about every application                                    *)

\* The invariant holds before the first creation.
LEMMA InitIInv ==
    ASSUME Init
    PROVE  IInv
<1>1. HeapSound(heap) /\ Allocated(heap) = {}
    BY EmptyHeapIsSound DEF Init
<1>2. impls \in [Blocks -> Impls]
    BY ZeroImplIsImpl DEF Init
<1>3. bus = NullBlock /\ frames = <<>> /\ pc = "app" /\ owned = FALSE
    BY DEF Init
<1>4. frames \in Seq(Frames) /\ DOMAIN frames = {} /\ Len(frames) = 0
    BY <1>3
<1>5. TypeOK
    BY <1>1, <1>2, <1>3, <1>4
    DEF TypeOK, Impls, Pointers, HeapSound, Heaps, BlockTable, Info
<1>6. PartsHeld /\ FramesSound /\ WhileCreating
    BY <1>3, <1>4 DEF PartsHeld, FramesSound, WhileCreating
<1>. QED  BY <1>1, <1>3, <1>4, <1>5, <1>6 DEF IInv

\* Every step keeps it.
LEMMA NextIInv ==
    ASSUME IInv, [Next]_vars
    PROVE  IInv'
<1>1. CASE UNCHANGED vars
    <2>1. TypeOK'
        BY <1>1 DEF vars, IInv, TypeOK
    <2>2. PartsHeld' /\ WhileCreating'
        BY <1>1
        DEF vars, IInv, PartsHeld, WhileCreating, Holds, HasRegistry, HasQueue, HasArena, Impl
    <2>3. FramesSound'
        BY <1>1 DEF vars, IInv, FramesSound, FrameSound, Impl
    <2>. QED  BY <1>1, <2>1, <2>2, <2>3 DEF vars, IInv
<1>. QED  BY <1>1, CreateKeepsIInv, CreateFailsKeepsIInv, CreateRegistryKeepsIInv,
             CreateQueueKeepsIInv, CreateArenaKeepsIInv, AllocationFailsKeepsIInv,
             DestroyKeepsIInv, DestroyLaterKeepsIInv, PublishKeepsIInv, ProcessKeepsIInv,
             CallListenerKeepsIInv, CallbackReturnsKeepsIInv,
             CallbackReturnsDestroyedKeepsIInv, ProcessEndsKeepsIInv DEF Next

\* The invariant holds in every behaviour.
THEOREM Invariance == Spec => []IInv
<1>1. Init => IInv
    BY InitIInv
<1>2. IInv /\ [Next]_vars => IInv'
    BY NextIInv
<1>. QED  BY <1>1, <1>2, PTL DEF Spec

\* A queue holds its limit, also when callbacks publish.
THEOREM TypeCorrect == Spec => []TypeOK
<1>1. IInv => TypeOK
    BY DEF IInv
<1>. QED  BY <1>1, Invariance, PTL

\* The implementation that a call of event_bus_process goes on with is in use,
\* whatever the callback did to the bus.
THEOREM FramesStayAlive == Spec => []FramesAlive
<1>1. ASSUME IInv, NEW k \in DOMAIN frames PROVE frames[k].impl \in Allocated(heap)
    <2>1. k \in 1 .. Len(frames)
        BY <1>1 DEF IInv
    <2>. QED  BY <1>1, <2>1, Types DEF FrameSound
<1>2. IInv => FramesAlive
    BY <1>1 DEF FramesAlive
<1>. QED  BY <1>2, Invariance, PTL

\* Every block is freed at most once, and with the size it was allocated with.
THEOREM FreesMatchAllocations == Spec => []FreesWhatItAllocated
<1>1. IInv => FreesWhatItAllocated
    BY DEF IInv, HeapSound, FreesWhatItAllocated
<1>. QED  BY <1>1, Invariance, PTL

-----------------------------------------------------------------------------
(* Applications that create a bus only when they have none                 *)

\* The blocks in use are those of the bus.
AllOfBus ==
    Allocated(heap) = IF bus = NullBlock
                      THEN {}
                      ELSE {bus, Impl.registry, Impl.queue, Impl.arena} \ {NullBlock}

\* A bus waits for its destruction only while a callback runs that asked for it.
OwnedUnlessDying ==
    IF bus = NullBlock
    THEN ~owned
    ELSE IF pc \in {"app", "loop"} THEN owned <=> ~Impl.destroy_requested
                                   ELSE ~owned /\ ~Impl.destroy_requested

\* The only call in progress is one on the bus.
CallIsOnBus ==
    IF frames = <<>>
    THEN bus # NullBlock => ~Impl.processing /\ ~Impl.destroy_requested
    ELSE /\ pc \in {"app", "loop"}
         /\ Len(frames) = 1
         /\ frames[1].impl = bus
         /\ pc = "loop" => ~Impl.destroy_requested

SoleBus == AllOfBus /\ OwnedUnlessDying /\ CallIsOnBus

\* What the bus is while a call is in progress.
LEMMA CallOnBus ==
    ASSUME IInv, SoleBus, frames # <<>>
    PROVE  /\ bus # NullBlock
           /\ Impl.processing
           /\ Len(frames) = 1
           /\ Running.impl = bus
           /\ PopFrame = <<>>
<1>1. Len(frames) = 1 /\ frames[1].impl = bus
    BY DEF SoleBus, CallIsOnBus
<1>2. FrameSound(1) /\ bus \in Blocks
    BY <1>1, Types
<1>3. bus # NullBlock
    BY <1>2, HeapAssumption
<1>4. Impl.processing
    BY <1>1, <1>2 DEF FrameSound, Impl
<1>5. SubSeq(frames, 1, 0) = <<>>
    BY SubSeqEmpty
<1>. QED  BY <1>1, <1>3, <1>4, <1>5 DEF Running, PopFrame

\* Creation.
LEMMA CreationKeepsSoleBus ==
    ASSUME IInv, SoleBus, ~RecreateWhileDying,
           Create \/ CreateFails \/ CreateRegistry \/ CreateQueue \/ CreateArena
    PROVE  SoleBus'
<1>1. CASE Create
    <2>1. bus = NullBlock /\ frames = <<>> /\ ~owned /\ Allocated(heap) = {}
        BY <1>1, CallOnBus DEF Create, MayCreate, SoleBus, AllOfBus
    <2>2. PICK block \in Available(heap, Sizes["impl"]) :
            /\ heap' = HeapWith("impl", block)
            /\ bus' = block
            /\ impls' = [impls EXCEPT ![block] = ZeroImpl]
        BY <1>1 DEF Create
    <2>3. /\ block \in Blocks
          /\ block # NullBlock
          /\ Allocated(heap') = {block}
        BY <2>1, <2>2, FieldNames, NewPart
    <2>4. Impl' = ZeroImpl
        BY <2>2, <2>3, ZeroImplIsImpl, ImplChanges DEF Impl
    <2>5. pc' = "registry" /\ frames' = <<>> /\ owned' = owned
        BY <1>1, <2>1 DEF Create
    <2>. QED  BY <2>1, <2>2, <2>3, <2>4, <2>5
              DEF SoleBus, AllOfBus, OwnedUnlessDying, CallIsOnBus, ZeroImpl
<1>2. CASE CreateFails
    <2>1. bus = NullBlock /\ frames = <<>> /\ ~owned /\ Allocated(heap) = {}
        BY <1>2, CallOnBus DEF CreateFails, MayCreate, SoleBus, AllOfBus
    <2>. QED  BY <1>2, <2>1
              DEF CreateFails, SoleBus, AllOfBus, OwnedUnlessDying, CallIsOnBus
<1>3. CASE CreateRegistry \/ CreateQueue \/ CreateArena
    <2>1. /\ pc \in {"registry", "queue", "arena"}
          /\ bus # NullBlock /\ bus \in Blocks /\ Impl \in Impls
          /\ frames = <<>>
          /\ ~Impl.processing /\ ~Impl.destroy_requested /\ ~owned
        BY <1>3, Types
        DEF CreateRegistry, CreateQueue, CreateArena, IInv, WhileCreating, SoleBus,
            CallIsOnBus, OwnedUnlessDying
    <2>2. ASSUME NEW field \in Fields, NEW block \in Available(heap, Sizes[field]),
                 heap' = HeapWith(field, block), UNCHANGED bus,
                 NEW impl \in Impls, impls' = [impls EXCEPT ![bus] = impl],
                 {impl.registry, impl.queue, impl.arena} \ {NullBlock} =
                    ({Impl.registry, Impl.queue, Impl.arena} \ {NullBlock}) \cup {block},
                 impl.processing = Impl.processing,
                 impl.destroy_requested = Impl.destroy_requested
          PROVE  /\ AllOfBus'
                 /\ ~Impl'.processing /\ ~Impl'.destroy_requested
        <3>1. Impl' = impl
            BY <2>1, <2>2, ImplChanges DEF Impl
        <3>2. Allocated(heap') = Allocated(heap) \cup {block}
            BY <2>2, NewPart
        <3>3. Allocated(heap) = {bus, Impl.registry, Impl.queue, Impl.arena} \ {NullBlock}
            BY <2>1 DEF SoleBus, AllOfBus
        <3>. DEFINE old == {Impl.registry, Impl.queue, Impl.arena}
                    new == {impl.registry, impl.queue, impl.arena}
        <3>4. new \ {NullBlock} = (old \ {NullBlock}) \cup {block}
            BY <2>2
        <3>5. Allocated(heap) = ({bus} \cup old) \ {NullBlock}
            BY <3>3
        <3>6. {bus, impl.registry, impl.queue, impl.arena} = {bus} \cup new
            OBVIOUS
        <3>. HIDE DEF old, new
        <3>7. Allocated(heap') = ({bus} \cup new) \ {NullBlock}
            BY <2>1, <3>2, <3>4, <3>5
        <3>. QED  BY <2>1, <2>2, <3>1, <3>6, <3>7 DEF AllOfBus
    <2>3. AllOfBus' /\ ~Impl'.processing /\ ~Impl'.destroy_requested
        <3>. DEFINE i == Impl
        <3>1. CASE CreateRegistry
            <4>1. i.registry = NullBlock /\ i.queue = NullBlock /\ i.arena = NullBlock
                BY <2>1, <3>1
                DEF CreateRegistry, IInv, PartsHeld, HasRegistry, HasQueue, HasArena
            <4>2. PICK block \in Available(heap, Sizes["registry"]) :
                    /\ heap' = HeapWith("registry", block)
                    /\ impls' = [impls EXCEPT ![bus] = [i EXCEPT !.registry = block]]
                BY <3>1 DEF CreateRegistry, Impl
            <4>3. block \in Blocks /\ block # NullBlock
                BY HeapAssumption DEF Available
            <4>. DEFINE impl == [i EXCEPT !.registry = block]
            <4>. HIDE DEF i
            <4>4. /\ impl \in Impls
                  /\ impl.registry = block /\ impl.queue = i.queue /\ impl.arena = i.arena
                  /\ impl.processing = i.processing
                  /\ impl.destroy_requested = i.destroy_requested
                BY <2>1, <4>3 DEF Impls, Pointers, i
            <4>. HIDE DEF impl
            <4>5. {impl.registry, impl.queue, impl.arena} \ {NullBlock} =
                    ({i.registry, i.queue, i.arena} \ {NullBlock}) \cup {block}
                BY <4>1, <4>3, <4>4
            <4>6. UNCHANGED bus
                BY <3>1 DEF CreateRegistry
            <4>. QED  BY <2>2, <4>2, <4>4, <4>5, <4>6, FieldNames DEF i, impl
        <3>2. CASE CreateQueue
            <4>1. i.queue = NullBlock /\ i.arena = NullBlock
                BY <2>1, <3>2
                DEF CreateQueue, IInv, PartsHeld, HasRegistry, HasQueue, HasArena
            <4>2. PICK block \in Available(heap, Sizes["queue"]) :
                    /\ heap' = HeapWith("queue", block)
                    /\ impls' = [impls EXCEPT ![bus] = [i EXCEPT !.queue = block]]
                BY <3>2 DEF CreateQueue, Impl
            <4>3. block \in Blocks /\ block # NullBlock
                BY HeapAssumption DEF Available
            <4>. DEFINE impl == [i EXCEPT !.queue = block]
            <4>. HIDE DEF i
            <4>4. /\ impl \in Impls
                  /\ impl.registry = i.registry /\ impl.queue = block /\ impl.arena = i.arena
                  /\ impl.processing = i.processing
                  /\ impl.destroy_requested = i.destroy_requested
                BY <2>1, <4>3 DEF Impls, Pointers, i
            <4>. HIDE DEF impl
            <4>5. {impl.registry, impl.queue, impl.arena} \ {NullBlock} =
                    ({i.registry, i.queue, i.arena} \ {NullBlock}) \cup {block}
                BY <4>1, <4>3, <4>4
            <4>6. UNCHANGED bus
                BY <3>2 DEF CreateQueue
            <4>. QED  BY <2>2, <4>2, <4>4, <4>5, <4>6, FieldNames DEF i, impl
        <3>3. CASE CreateArena
            <4>1. i.arena = NullBlock
                BY <2>1, <3>3
                DEF CreateArena, IInv, PartsHeld, HasRegistry, HasQueue, HasArena
            <4>2. PICK block \in Available(heap, Sizes["arena"]) :
                    /\ heap' = HeapWith("arena", block)
                    /\ impls' = [impls EXCEPT ![bus] = [i EXCEPT !.arena = block]]
                BY <3>3 DEF CreateArena, Impl
            <4>3. block \in Blocks /\ block # NullBlock
                BY HeapAssumption DEF Available
            <4>. DEFINE impl == [i EXCEPT !.arena = block]
            <4>. HIDE DEF i
            <4>4. /\ impl \in Impls
                  /\ impl.registry = i.registry /\ impl.queue = i.queue /\ impl.arena = block
                  /\ impl.processing = i.processing
                  /\ impl.destroy_requested = i.destroy_requested
                BY <2>1, <4>3 DEF Impls, Pointers, i
            <4>. HIDE DEF impl
            <4>5. {impl.registry, impl.queue, impl.arena} \ {NullBlock} =
                    ({i.registry, i.queue, i.arena} \ {NullBlock}) \cup {block}
                BY <4>1, <4>3, <4>4
            <4>6. UNCHANGED bus
                BY <3>3 DEF CreateArena
            <4>. QED  BY <2>2, <4>2, <4>4, <4>5, <4>6, FieldNames DEF i, impl
        <3>. QED  BY <1>3, <3>1, <3>2, <3>3
    <2>4. frames' = <<>> /\ bus' = bus
        BY <1>3, <2>1 DEF CreateRegistry, CreateQueue, CreateArena
    <2>5. \/ pc' \in {"queue", "arena"} /\ owned' = owned
          \/ pc' = "app" /\ owned' = TRUE
        BY <1>3 DEF CreateRegistry, CreateQueue, CreateArena
    <2>. QED  BY <2>1, <2>3, <2>4, <2>5 DEF SoleBus, OwnedUnlessDying, CallIsOnBus
<1>. QED  BY <1>1, <1>2, <1>3

\* Destruction: nothing is left.
LEMMA DestructionKeepsSoleBus ==
    ASSUME IInv, SoleBus,
           AllocationFails \/ Destroy \/ DestroyLater \/ CallbackReturnsDestroyed
    PROVE  SoleBus'
<1>1. ASSUME bus # NullBlock, heap' = HeapWithoutBus, bus' = NullBlock, frames' = <<>>,
             ~owned'
      PROVE  SoleBus'
    <2>1. Allocated(heap') = {}
        BY <1>1, DestructionFreesParts DEF IInv, SoleBus, AllOfBus
    <2>. QED  BY <1>1, <2>1 DEF SoleBus, AllOfBus, OwnedUnlessDying, CallIsOnBus
<1>2. CASE AllocationFails
    BY <1>1, <1>2 DEF AllocationFails, DestroyNow, SoleBus, CallIsOnBus, OwnedUnlessDying
<1>3. CASE Destroy
    <2>1. frames = <<>>
        BY <1>3, CallOnBus DEF Destroy
    <2>2. CASE bus # NullBlock
        BY <1>1, <1>3, <2>1, <2>2 DEF Destroy, DestroyNow
    <2>3. CASE bus = NullBlock
        BY <1>3, <2>1, <2>3 DEF Destroy, SoleBus, AllOfBus, OwnedUnlessDying, CallIsOnBus
    <2>. QED  BY <2>2, <2>3
<1>4. CASE DestroyLater
    <2>. DEFINE i == Impl
    <2>1. /\ bus # NullBlock /\ i \in Impls
          /\ Impl' = [i EXCEPT !.destroy_requested = TRUE]
          /\ frames # <<>>
          /\ UNCHANGED <<heap, bus, frames>>
          /\ pc = "app" /\ pc' = "app" /\ owned' = FALSE
        BY <1>4, DestroyLaterKeepsIInv, Types DEF DestroyLater, SoleBus, CallIsOnBus
    <2>. HIDE DEF i
    <2>2. /\ Impl'.registry = i.registry /\ Impl'.queue = i.queue /\ Impl'.arena = i.arena
          /\ Impl'.destroy_requested = TRUE
        BY <2>1 DEF Impls
    <2>3. AllOfBus'
        BY <2>1, <2>2 DEF SoleBus, AllOfBus, i
    <2>4. OwnedUnlessDying' /\ CallIsOnBus'
        BY <2>1, <2>2 DEF SoleBus, OwnedUnlessDying, CallIsOnBus
    <2>. QED  BY <2>3, <2>4 DEF SoleBus
<1>5. CASE CallbackReturnsDestroyed
    <2>1. frames # <<>> /\ pc = "app"
        BY <1>5 DEF CallbackReturnsDestroyed
    <2>2. bus # NullBlock /\ Running.impl = bus /\ PopFrame = <<>>
        BY <2>1, CallOnBus
    <2>3. ~owned
        BY <1>5, <2>1, <2>2 DEF CallbackReturnsDestroyed, Impl, SoleBus, OwnedUnlessDying
    <2>. QED  BY <1>1, <1>5, <2>2, <2>3 DEF CallbackReturnsDestroyed
<1>. QED  BY <1>2, <1>3, <1>4, <1>5

\* Publishing and processing.
LEMMA ProcessingKeepsSoleBus ==
    ASSUME IInv, SoleBus,
           Publish \/ Process \/ CallListener \/ CallbackReturns \/ ProcessEnds
    PROVE  SoleBus'
<1>. DEFINE i == Impl
<1>1. CASE Publish
    <2>1. /\ bus # NullBlock /\ i \in Impls
          /\ Impl' = [i EXCEPT !.deliveries = @ + 1]
          /\ UNCHANGED <<heap, bus, frames, pc, owned>>
        BY <1>1, PublishKeepsIInv, Types DEF Publish
    <2>. HIDE DEF i
    <2>2. /\ Impl'.registry = i.registry /\ Impl'.queue = i.queue /\ Impl'.arena = i.arena
          /\ Impl'.destroy_requested = i.destroy_requested
          /\ Impl'.processing = i.processing
        BY <2>1 DEF Impls
    <2>3. AllOfBus'
        BY <2>1, <2>2 DEF SoleBus, AllOfBus, i
    <2>4. OwnedUnlessDying' /\ CallIsOnBus'
        BY <2>1, <2>2 DEF SoleBus, OwnedUnlessDying, CallIsOnBus, i
    <2>. QED  BY <2>3, <2>4 DEF SoleBus
<1>2. CASE Process
    <2>1. /\ bus # NullBlock /\ i \in Impls
          /\ Impl' = [i EXCEPT !.processing = TRUE]
          /\ UNCHANGED <<heap, bus, owned>>
          /\ pc = "app" /\ pc' = "loop"
          /\ frames = <<>>
          /\ frames' = Append(frames, [impl |-> bus, cursor |-> 0])
          /\ ~i.destroy_requested
        BY <1>2, ProcessKeepsIInv, Types, CallOnBus DEF Process
    <2>. HIDE DEF i
    <2>2. /\ Impl'.registry = i.registry /\ Impl'.queue = i.queue /\ Impl'.arena = i.arena
          /\ Impl'.destroy_requested = i.destroy_requested
        BY <2>1 DEF Impls
    <2>3. AllOfBus'
        BY <2>1, <2>2 DEF SoleBus, AllOfBus, i
    <2>4. Len(frames') = 1 /\ frames'[1].impl = bus /\ frames' # <<>>
        BY <2>1
    <2>5. OwnedUnlessDying' /\ CallIsOnBus'
        BY <2>1, <2>2, <2>4 DEF SoleBus, OwnedUnlessDying, CallIsOnBus, i
    <2>. QED  BY <2>3, <2>5 DEF SoleBus
<1>3. CASE CallListener
    <2>1. /\ UNCHANGED <<heap, bus, frames, owned>>
          /\ Impl' = Impl
          /\ pc = "loop" /\ pc' = "app"
        BY <1>3 DEF CallListener, Impl
    <2>. QED  BY <2>1 DEF SoleBus, AllOfBus, OwnedUnlessDying, CallIsOnBus, IInv
<1>4. CASE CallbackReturns
    <2>1. /\ UNCHANGED <<heap, bus, owned>>
          /\ Impl' = Impl
          /\ frames # <<>>
          /\ pc = "app" /\ pc' = "loop"
        BY <1>4 DEF CallbackReturns, Impl
    <2>2. Running.impl = bus /\ Len(frames) = 1 /\ bus # NullBlock
        BY <2>1, CallOnBus
    <2>3. ~Impl.destroy_requested
        BY <1>4, <2>2 DEF CallbackReturns, Impl
    <2>4. IInv' /\ Len(frames') = 1 /\ Running'.impl = bus
        BY <1>4, <2>2, CallbackReturnsKeepsIInv
    <2>5. frames' # <<>> /\ frames'[1].impl = bus
        BY <2>1, <2>4 DEF Running, IInv
    <2>. QED  BY <2>1, <2>2, <2>3, <2>4, <2>5
              DEF SoleBus, AllOfBus, OwnedUnlessDying, CallIsOnBus
<1>5. CASE ProcessEnds
    <2>1. /\ UNCHANGED <<heap, bus, owned>>
          /\ frames # <<>>
          /\ pc = "loop" /\ pc' = "app"
          /\ frames' = PopFrame
        BY <1>5 DEF ProcessEnds, IInv
    <2>2. Running.impl = bus /\ bus # NullBlock /\ PopFrame = <<>>
        BY <2>1, CallOnBus
    <2>3. /\ Impl'.registry = i.registry /\ Impl'.queue = i.queue /\ Impl'.arena = i.arena
          /\ Impl'.destroy_requested = i.destroy_requested
          /\ ~Impl'.processing
        BY <1>5, <2>2, ProcessEndsKeepsIInv
    <2>4. AllOfBus'
        BY <2>1, <2>2, <2>3 DEF SoleBus, AllOfBus
    <2>. HIDE DEF i
    <2>5. ~i.destroy_requested
        BY <2>1 DEF SoleBus, CallIsOnBus, i
    <2>6. OwnedUnlessDying' /\ CallIsOnBus'
        BY <2>1, <2>2, <2>3, <2>5 DEF SoleBus, OwnedUnlessDying, CallIsOnBus, i
    <2>. QED  BY <2>4, <2>6 DEF SoleBus
<1>. QED  BY <1>1, <1>2, <1>3, <1>4, <1>5

\* There is one bus, and its blocks are all there is.
THEOREM OnlyOneBus ==
    ASSUME ~RecreateWhileDying
    PROVE  Spec => []SoleBus
<1>1. Init => SoleBus
    <2>. SUFFICES ASSUME Init PROVE SoleBus
        OBVIOUS
    <2>1. Allocated(heap) = {}
        BY EmptyHeapIsSound DEF Init
    <2>. QED  BY <2>1 DEF Init, SoleBus, AllOfBus, OwnedUnlessDying, CallIsOnBus
<1>2. IInv /\ SoleBus /\ [Next]_vars => SoleBus'
    <2>. SUFFICES ASSUME IInv, SoleBus, [Next]_vars PROVE SoleBus'
        OBVIOUS
    <2>1. CASE UNCHANGED vars
        BY <2>1 DEF vars, SoleBus, AllOfBus, OwnedUnlessDying, CallIsOnBus, Impl
    <2>. QED  BY <2>1, CreationKeepsSoleBus, DestructionKeepsSoleBus, ProcessingKeepsSoleBus
              DEF Next
<1>. QED  BY <1>1, <1>2, Invariance, PTL DEF Spec

\* A bus is in use with all of its four blocks, and without a bus nothing is,
\* whichever of the allocations failed before.
THEOREM BlocksAreOwned ==
    ASSUME ~RecreateWhileDying
    PROVE  Spec => []OwnsItsBlocks
<1>1. ASSUME IInv, SoleBus, pc = "app", bus # NullBlock
      PROVE  /\ Allocated(heap) = {bus, Impl.registry, Impl.queue, Impl.arena}
             /\ Cardinality(Allocated(heap)) = 4
    <2>. DEFINE r == Impl.registry
                q == Impl.queue
                a == Impl.arena
    <2>1. /\ bus \notin {r, q, a}
          /\ r \notin {q, a}
          /\ q # a
          /\ NullBlock \notin {bus, r, q, a}
          /\ Allocated(heap) = {bus, r, q, a} \ {NullBlock}
        BY <1>1, HeapAssumption
        DEF IInv, PartsHeld, Holds, HasRegistry, HasQueue, HasArena, SoleBus, AllOfBus
    <2>. HIDE DEF r, q, a
    <2>2. Allocated(heap) = {bus, r, q, a}
        BY <2>1
    <2>3. IsFiniteSet({bus}) /\ Cardinality({bus}) = 1
        BY FS_Singleton
    <2>4. IsFiniteSet({bus} \cup {r}) /\ Cardinality({bus} \cup {r}) = 2
        BY <2>1, <2>3, FS_AddElement
    <2>5. /\ IsFiniteSet(({bus} \cup {r}) \cup {q})
          /\ Cardinality(({bus} \cup {r}) \cup {q}) = 3
        BY <2>1, <2>4, FS_AddElement
    <2>6. Cardinality((({bus} \cup {r}) \cup {q}) \cup {a}) = 4
        BY <2>1, <2>5, FS_AddElement
    <2>7. (({bus} \cup {r}) \cup {q}) \cup {a} = {bus, r, q, a}
        OBVIOUS
    <2>8. Cardinality(Allocated(heap)) = 4
        BY <2>2, <2>6, <2>7
    <2>. QED  BY <2>2, <2>8 DEF r, q, a
<1>2. IInv /\ SoleBus => OwnsItsBlocks
    BY <1>1 DEF OwnsItsBlocks, SoleBus, AllOfBus, OwnedUnlessDying
<1>. QED  BY <1>2, Invariance, OnlyOneBus, PTL

\* After the destruction the counter shows that nothing is in use.
THEOREM DestructionLeavesCounterAtZero ==
    ASSUME ~RecreateWhileDying
    PROVE  Spec => []DestroyedLeavesNothing
<1>1. ASSUME IInv, SoleBus, pc = "app", frames = <<>>, ~owned
      PROVE  heap.info.live_allocations = 0 /\ heap.info.live_bytes = 0
    <2>1. bus = NullBlock
        BY <1>1 DEF SoleBus, OwnedUnlessDying, CallIsOnBus
    <2>2. Allocated(heap) = {}
        BY <1>1, <2>1 DEF SoleBus, AllOfBus
    <2>3. Cardinality(Allocated(heap)) = 0 /\ OutstandingBytes(heap) = 0
        BY <2>2, FS_EmptySet, NothingOutstanding
    <2>. QED  BY <1>1, <2>3 DEF IInv, HeapSound, CountsExactly
<1>2. IInv /\ SoleBus => DestroyedLeavesNothing
    BY <1>1 DEF DestroyedLeavesNothing
<1>. QED  BY <1>2, Invariance, OnlyOneBus, PTL

=============================================================================
