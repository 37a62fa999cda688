---------------------------- MODULE EventBusMemory ----------------------------
(***************************************************************************)
(* Who owns the memory of an event bus (core/event_bus.c): creation in     *)
(* four allocations, each of which may fail, destruction at once or after  *)
(* the callback that asked for it, and calls from callbacks.  The heap is  *)
(* an AllocatorCounter's, as in the tests of the repository.               *)
(*                                                                         *)
(* A bus is the handle `bus`, an EventBus of the application, and the      *)
(* EventBusImpl it points to.  event_bus_process keeps a pointer of its    *)
(* own to the implementation it began with: frames holds one for each call *)
(* in progress.  Module EventBus has the deliveries, which are only counted*)
(* here, and the results of the calls; a call that is refused is no step.  *)
(*                                                                         *)
(*   "app"   code of the application: a callback, if there are frames      *)
(*   "loop"  event_bus_process, at the head of its for loop                *)
(*   "registry", "queue", "arena"                                          *)
(*           event_bus_create, before that allocation                      *)
(***************************************************************************)
EXTENDS CountedHeap, Sequences

CONSTANTS
    Sizes,                \* the sizes of the four blocks, by field
    Alignment,            \* their alignment
    MaxQueuedDeliveries,  \* EVENT_BUS_MAX_QUEUED_DELIVERIES
    RecreateWhileDying    \* may a callback create the bus anew after destroying it?

Fields == {"impl", "registry", "queue", "arena"}

ASSUME MemoryAssumption ==
    /\ Sizes \in [Fields -> Word \ {0}]
    /\ Alignment \in Word
    /\ IsPowerOfTwo(Alignment)
    /\ MaxQueuedDeliveries \in Nat \ {0}
    /\ RecreateWhileDying \in BOOLEAN

VARIABLES
    heap,       \* see CountedHeap
    bus,        \* bus->impl
    impls,      \* what each block holds, where it is an EventBusImpl
    frames,     \* the calls of event_bus_process in progress, innermost last
    pc,
    owned       \* history: event_bus_create returned TRUE, event_bus_destroy
                \* has not been called since

vars == <<heap, bus, impls, frames, pc, owned>>

ZeroImpl ==
    [registry |-> NullBlock, queue |-> NullBlock, arena |-> NullBlock,
     deliveries |-> 0, processing |-> FALSE, destroy_requested |-> FALSE]

-----------------------------------------------------------------------------

Init ==
    /\ heap = EmptyHeap
    /\ bus = NullBlock
    /\ impls = [block \in Blocks |-> ZeroImpl]
    /\ frames = <<>>
    /\ pc = "app"
    /\ owned = FALSE

Impl == impls[bus]

\* The call of event_bus_process that runs.
Running == frames[Len(frames)]

PopFrame == SubSeq(frames, 1, Len(frames) - 1)

HeapWith(field, block) == AfterCounterAlloc(heap, block, Sizes[field], Alignment)

-----------------------------------------------------------------------------
(* event_bus_destroy_now                                                   *)

Without(h, field, block) == AfterCounterFree(h, block, Sizes[field], Alignment)

\* Mutation of HeapWithoutBus: the queue is freed with another size.
HeapWithoutBusQueueShort ==
    Without(AfterCounterFree(
        Without(Without(heap, "registry", Impl.registry), "arena", Impl.arena),
        Impl.queue, Sizes["queue"] - 1, Alignment), "impl", bus)

\* In the order of the code: the registry, the arena, the queue, the rest.
\* After a failed event_bus_create some of them are null.
HeapWithoutBus ==
    Without(Without(
        Without(Without(heap, "registry", Impl.registry), "arena", Impl.arena),
        "queue", Impl.queue), "impl", bus)

DestroyNow ==
    /\ bus # NullBlock
    /\ heap' = HeapWithoutBus
    /\ impls' = [impls EXCEPT ![bus] = ZeroImpl]
    /\ bus' = NullBlock

-----------------------------------------------------------------------------
(* event_bus_create                                                        *)

\* The application creates a bus when it has none: it has destroyed the one
\* it had.  After a destruction that is left to the end of a callback, the
\* handle still refers to the dying bus.
MayCreate ==
    /\ pc = "app"
    /\ ~owned
    /\ bus = NullBlock \/ RecreateWhileDying

\* *bus = { 0 }, then the implementation, zeroed.
Create ==
    /\ MayCreate
    /\ \E block \in Available(heap, Sizes["impl"]) :
          /\ heap' = HeapWith("impl", block)
          /\ bus' = block
          /\ impls' = [impls EXCEPT ![block] = ZeroImpl]
    /\ pc' = "registry"
    /\ UNCHANGED <<frames, owned>>

CreateFails ==
    /\ MayCreate
    /\ bus' = NullBlock
    /\ UNCHANGED <<heap, impls, frames, pc, owned>>

CreateRegistry ==
    /\ pc = "registry"
    /\ \E block \in Available(heap, Sizes["registry"]) :
          /\ heap' = HeapWith("registry", block)
          /\ impls' = [impls EXCEPT ![bus].registry = block]
    /\ pc' = "queue"
    /\ UNCHANGED <<bus, frames, owned>>

CreateQueue ==
    /\ pc = "queue"
    /\ \E block \in Available(heap, Sizes["queue"]) :
          /\ heap' = HeapWith("queue", block)
          /\ impls' = [impls EXCEPT ![bus].queue = block]
    /\ pc' = "arena"
    /\ UNCHANGED <<bus, frames, owned>>

CreateArena ==
    /\ pc = "arena"
    /\ \E block \in Available(heap, Sizes["arena"]) :
          /\ heap' = HeapWith("arena", block)
          /\ impls' = [impls EXCEPT ![bus].arena = block]
    /\ pc' = "app"
    /\ owned' = TRUE
    /\ UNCHANGED <<bus, frames>>

\* Mutation of AllocationFails: the call returns FALSE and nothing more.
AllocationFailsUndone ==
    /\ pc \in {"registry", "queue", "arena"}
    /\ pc' = "app"
    /\ UNCHANGED <<heap, bus, impls, frames, owned>>

\* One of the last three allocations fails: what there is of the bus goes.
AllocationFails ==
    /\ pc \in {"registry", "queue", "arena"}
    /\ DestroyNow
    /\ pc' = "app"
    /\ UNCHANGED <<frames, owned>>

-----------------------------------------------------------------------------
(* event_bus_destroy                                                       *)

Destroy ==
    /\ pc = "app"
    /\ bus # NullBlock => ~Impl.processing
    /\ bus # NullBlock => DestroyNow
    /\ bus = NullBlock => UNCHANGED <<heap, bus, impls>>
    /\ owned' = FALSE
    /\ UNCHANGED <<frames, pc>>

\* Mutation of DestroyLater: a callback destroys the bus under its caller.
DestroyAtOnce ==
    /\ pc = "app"
    /\ bus # NullBlock
    /\ Impl.processing
    /\ DestroyNow
    /\ owned' = FALSE
    /\ UNCHANGED <<frames, pc>>

DestroyLater ==
    /\ pc = "app"
    /\ bus # NullBlock
    /\ Impl.processing
    /\ impls' = [impls EXCEPT ![bus].destroy_requested = TRUE]
    /\ owned' = FALSE
    /\ UNCHANGED <<heap, bus, frames, pc>>

-----------------------------------------------------------------------------
(* event_bus_publish and event_bus_process                                 *)

\* Mutation of Publish: one delivery too many.
PublishTooMany ==
    /\ pc = "app"
    /\ bus # NullBlock
    /\ ~Impl.destroy_requested
    /\ Impl.deliveries <= MaxQueuedDeliveries
    /\ impls' = [impls EXCEPT ![bus].deliveries = @ + 1]
    /\ UNCHANGED <<heap, bus, frames, pc, owned>>

\* To one listener.
Publish ==
    /\ pc = "app"
    /\ bus # NullBlock
    /\ ~Impl.destroy_requested
    /\ Impl.deliveries < MaxQueuedDeliveries
    /\ impls' = [impls EXCEPT ![bus].deliveries = @ + 1]
    /\ UNCHANGED <<heap, bus, frames, pc, owned>>

Process ==
    /\ pc = "app"
    /\ bus # NullBlock
    /\ ~Impl.processing
    /\ ~Impl.destroy_requested
    /\ Impl.deliveries > 0
    /\ impls' = [impls EXCEPT ![bus].processing = TRUE]
    /\ frames' = Append(frames, [impl |-> bus, cursor |-> 0])
    /\ pc' = "loop"
    /\ UNCHANGED <<heap, bus, owned>>

CallListener ==
    /\ pc = "loop"
    /\ Running.cursor < impls[Running.impl].deliveries
    /\ pc' = "app"
    /\ UNCHANGED <<heap, bus, impls, frames, owned>>

\* Mutation of CallbackReturns: the request to destroy goes unnoticed.
CallbackReturnsRegardless ==
    /\ pc = "app"
    /\ frames # <<>>
    /\ frames' = [frames EXCEPT ![Len(frames)].cursor = @ + 1]
    /\ pc' = "loop"
    /\ UNCHANGED <<heap, bus, impls, owned>>

CallbackReturns ==
    /\ pc = "app"
    /\ frames # <<>>
    /\ ~impls[Running.impl].destroy_requested
    /\ frames' = [frames EXCEPT ![Len(frames)].cursor = @ + 1]
    /\ pc' = "loop"
    /\ UNCHANGED <<heap, bus, impls, owned>>

\* The implementation that the call began with says whether to destroy; what is
\* destroyed is the one that the handle refers to now.
CallbackReturnsDestroyed ==
    /\ pc = "app"
    /\ frames # <<>>
    /\ impls[Running.impl].destroy_requested
    /\ IF bus = NullBlock
       THEN /\ impls' = [impls EXCEPT ![Running.impl].processing = FALSE]
            /\ UNCHANGED <<heap, bus>>
       ELSE /\ heap' = HeapWithoutBus
            /\ impls' = [impls EXCEPT ![Running.impl].processing = FALSE, ![bus] = ZeroImpl]
            /\ bus' = NullBlock
    /\ frames' = PopFrame
    /\ UNCHANGED <<pc, owned>>

ProcessEnds ==
    /\ pc = "loop"
    /\ Running.cursor >= impls[Running.impl].deliveries
    /\ impls' = [impls EXCEPT ![Running.impl].processing = FALSE,
                              ![Running.impl].deliveries = 0]
    /\ frames' = PopFrame
    /\ pc' = "app"
    /\ UNCHANGED <<heap, bus, owned>>

-----------------------------------------------------------------------------

Next ==
    \/ Create
    \/ CreateFails
    \/ CreateRegistry
    \/ CreateQueue
    \/ CreateArena
    \/ AllocationFails
    \/ Destroy
    \/ DestroyLater
    \/ Publish
    \/ Process
    \/ CallListener
    \/ CallbackReturns
    \/ CallbackReturnsDestroyed
    \/ ProcessEnds

Spec == Init /\ [][Next]_vars

-----------------------------------------------------------------------------
(* Properties                                                              *)

Pointers == Blocks \cup {NullBlock}

\* Every variable has its type; a queue never holds more deliveries than its
\* limit, also when callbacks publish into the pass that called them.
TypeOK ==
    /\ heap.blocks \in [Blocks -> [size : Word, alignment : Word]]
    /\ heap.info \in [live_bytes : Word, live_allocations : Word, peak_bytes : Word,
                      total_allocations : Word, total_deallocations : Word]
    /\ heap.misused \in BOOLEAN
    /\ bus \in Pointers
    /\ impls \in [Blocks -> [registry : Pointers, queue : Pointers, arena : Pointers,
                             deliveries : 0 .. MaxQueuedDeliveries,
                             processing : BOOLEAN, destroy_requested : BOOLEAN]]
    /\ \A k \in DOMAIN frames :
          frames[k] \in [impl : Blocks, cursor : 0 .. MaxQueuedDeliveries]
    /\ pc \in {"app", "loop", "registry", "queue", "arena"}
    /\ owned \in BOOLEAN

\* Whenever the application runs, the blocks in use are the four of its bus, or
\* none if it has no bus: a creation that fails at any of its allocations gives
\* back what it had obtained, and a bus that was created and not destroyed is
\* there.
OwnsItsBlocks ==
    pc = "app" =>
        IF bus = NullBlock
        THEN Allocated(heap) = {} /\ ~owned
        ELSE /\ Allocated(heap) = {bus, Impl.registry, Impl.queue, Impl.arena}
             /\ Cardinality(Allocated(heap)) = 4

\* The implementation that a call of event_bus_process goes on with when the
\* callback returns has not been freed meanwhile.
FramesAlive == \A k \in DOMAIN frames : frames[k].impl \in Allocated(heap)

\* Every block is freed once, with the size and alignment it was allocated
\* with (the creation and the destruction of the bus are in different places).
FreesWhatItAllocated == ~heap.misused

\* Once the application has destroyed its bus, and no callback is left to
\* return, nothing is in use: live_allocations and live_bytes are zero, which
\* is what the fixtures of Tests/event_bus_tests.c check.
DestroyedLeavesNothing ==
    pc = "app" /\ frames = <<>> /\ ~owned =>
        heap.info.live_allocations = 0 /\ heap.info.live_bytes = 0

=============================================================================
