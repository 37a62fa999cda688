------------------------------- MODULE EventBus -------------------------------
(***************************************************************************)
(* The event bus (core/event_bus.c): one bus, the application that calls   *)
(* it, and the callbacks it calls, which may call it again.                *)
(*                                                                         *)
(* The library has no threads.  What makes the bus hard is re-entrancy:    *)
(* event_bus_process calls the application back in the middle of its loop, *)
(* and the callback may publish (which appends to the queue and to the     *)
(* arena the loop is walking), subscribe, process or destroy.  The control *)
(* point pc says which code runs:                                          *)
(*                                                                         *)
(*   "app"       the application, no call of the bus in progress           *)
(*   "loop"      event_bus_process, at the head of its for loop            *)
(*   "callback"  a callback that event_bus_process has called              *)
(*   "stage"     event_bus_publish, in its first loop (one copy per turn)  *)
(*   "enqueue"   event_bus_publish, in its second loop (one push per turn) *)
(*                                                                         *)
(* A call that runs no loop over several listeners and calls nobody back   *)
(* is one step.  An operation the code refuses sets result to FALSE.       *)
(***************************************************************************)
EXTENDS ArenaOps, Sequences

CONSTANTS
    Null,                 \* the null pointer, where it is not an address
    MaxEventTypes,        \* EVENT_BUS_MAX_EVENT_TYPES
    MaxListenersPerType,  \* EVENT_BUS_MAX_LISTENERS_PER_TYPE
    MaxQueuedDeliveries,  \* EVENT_BUS_MAX_QUEUED_DELIVERIES
    EventArenaSize,       \* EVENT_ARENA_SIZE
    Bytes,                \* what a byte of a payload can be
    Descriptors,          \* the EventSubscriber values the application passes
    Events,               \* the EventContext values the application passes
    Buffers               \* addresses the backing allocator may return

ASSUME LimitsAssumption ==
    /\ MaxEventTypes \in Nat
    /\ MaxListenersPerType \in Nat \ {0}
    /\ MaxQueuedDeliveries \in Nat \ {0}
    /\ EventArenaSize \in Nat

\* The backing allocator returns blocks that lie inside the address space.
ASSUME BuffersAssumption == \A buffer \in Buffers : IsObject(buffer, EventArenaSize)

ASSUME DescriptorsAssumption ==
    \A descriptor \in Descriptors :
        /\ descriptor = [code       |-> descriptor.code,
                         subscriber |-> descriptor.subscriber,
                         callback   |-> descriptor.callback]
        /\ descriptor.code \in Nat

\* A payload is Null or the bytes it points to; payload_size is its length.
ASSUME EventsAssumption ==
    \A event \in Events :
        /\ event = [code      |-> event.code,
                    publisher |-> event.publisher,
                    payload   |-> event.payload,
                    alignment |-> event.alignment]
        /\ event.code \in Nat
        /\ event.alignment \in Word
        /\ event.payload # Null => event.payload \in Seq(Bytes)

VARIABLES
    live,               \* bus->impl is not NULL
    registry,           \* the listeners of each event code
    queue,              \* the DArray of deliveries, the handed over ones included
    queue_capacity,     \* its capacity
    payload_arena,      \* the Arena of payload copies
    memory,             \* the bytes of the arena's buffer
    processing,
    destroy_requested,
    pc,
    result,             \* what the last completed call returned
    context,            \* event_bus_publish: its argument,
    staged_listeners,   \*   the deliveries staged so far,
    queue_checkpoint,   \*   the queue's size on entry,
    arena_checkpoint,   \*   the arena's size on entry
    cursor,             \* event_bus_process: the loop's index i,
    active_listener,    \*   its copy of the delivery being handed over
    received            \* history: the message that the callback was handed

implVars    == <<live, registry, queue, queue_capacity, payload_arena, memory,
                 processing, destroy_requested>>
publishVars == <<context, staged_listeners, queue_checkpoint, arena_checkpoint>>
processVars == <<cursor, active_listener, received>>
vars        == <<implVars, pc, result, publishVars, processVars>>

-----------------------------------------------------------------------------
(* Values                                                                  *)

Codes == 0 .. MaxEventTypes - 1

EmptyRegistry == [code \in Codes |-> <<>>]

\* The contents of a byte that no live allocation covers.
Junk == Null

Offsets == 0 .. EventArenaSize - 1

FreshMemory == [offset \in Offsets |-> Junk]

\* EventListener as it stands in the registry: context.publisher and the
\* payload fields are set when an event is published.
Listener(descriptor) ==
    [callback   |-> descriptor.callback,
     subscriber |-> descriptor.subscriber,
     code       |-> descriptor.code]

\* EventListener as it stands in the queue; payload is an address.
Delivery(listener, event, payload) ==
    [callback   |-> listener.callback,
     subscriber |-> listener.subscriber,
     code       |-> listener.code,
     publisher  |-> event.publisher,
     payload    |-> payload,
     size       |-> Len(event.payload),
     alignment  |-> event.alignment]

PayloadEnd(delivery) == delivery.payload + delivery.size

\* The bytes that a delivery's payload points to.
Contents(delivery) ==
    [k \in 1 .. delivery.size |->
        memory[(delivery.payload - payload_arena.buffer) + (k - 1)]]

\* What the callback of a delivery finds in its context.
MessageOf(delivery) ==
    [callback   |-> delivery.callback,
     subscriber |-> delivery.subscriber,
     code       |-> delivery.code,
     publisher  |-> delivery.publisher,
     payload    |-> Contents(delivery),
     alignment  |-> delivery.alignment]

\* The context of a running callback, as an argument of event_bus_publish.
ReceivedEvent ==
    [code      |-> active_listener.code,
     publisher |-> active_listener.publisher,
     payload   |-> Contents(active_listener),
     alignment |-> active_listener.alignment]

-----------------------------------------------------------------------------
(* Creation and destruction                                                *)

Init ==
    /\ live = FALSE
    /\ registry = EmptyRegistry
    /\ queue = <<>>
    /\ queue_capacity = 0
    /\ payload_arena = ZeroArena
    /\ memory = FreshMemory
    /\ processing = FALSE
    /\ destroy_requested = FALSE
    /\ pc = "app"
    /\ result = FALSE
    /\ context = Null
    /\ staged_listeners = <<>>
    /\ queue_checkpoint = 0
    /\ arena_checkpoint = 0
    /\ cursor = 0
    /\ active_listener = Null
    /\ received = Null

ApplicationRuns == pc \in {"app", "callback"}

InPublish == pc \in {"stage", "enqueue"}

\* Where a call of the application returns to.
Caller == IF processing THEN "callback" ELSE "app"

\* event_bus_create on a handle that holds no bus (on one that does, it drops
\* the bus: its first assignment is *bus = { 0 }).
Create(buffer) ==
    /\ pc = "app"
    /\ ~live
    /\ live' = TRUE
    /\ queue_capacity' = MaxQueuedDeliveries
    /\ payload_arena' = [buffer |-> buffer, capacity |-> EventArenaSize, size |-> 0]
    /\ result' = TRUE
    /\ UNCHANGED <<registry, queue, memory, processing, destroy_requested, pc,
                   publishVars, processVars>>

\* One of its four allocations fails; it frees the others.
CreateFails ==
    /\ pc = "app"
    /\ ~live
    /\ result' = FALSE
    /\ UNCHANGED <<implVars, pc, publishVars, processVars>>

\* event_bus_destroy_now: what the handle referred to is gone.
DestroyNow ==
    /\ live' = FALSE
    /\ registry' = EmptyRegistry
    /\ queue' = <<>>
    /\ queue_capacity' = 0
    /\ payload_arena' = ZeroArena
    /\ memory' = FreshMemory
    /\ processing' = FALSE
    /\ destroy_requested' = FALSE

Destroy ==
    /\ ApplicationRuns
    /\ live
    /\ ~processing
    /\ DestroyNow
    /\ UNCHANGED <<pc, result, publishVars, processVars>>

\* Mutation of DestroyLater: a callback destroys the bus under its caller.
DestroyAtOnce ==
    /\ ApplicationRuns
    /\ live
    /\ processing
    /\ DestroyNow
    /\ UNCHANGED <<pc, result, publishVars, processVars>>

DestroyLater ==
    /\ ApplicationRuns
    /\ live
    /\ processing
    /\ destroy_requested' = TRUE
    /\ UNCHANGED <<live, registry, queue, queue_capacity, payload_arena, memory,
                   processing, pc, result, publishVars, processVars>>

-----------------------------------------------------------------------------
(* event_bus_subscribe                                                     *)

\* Mutation of IsSubscribed: the search starts at the second listener.
IsSubscribedAfterFirst(descriptor) ==
    \E k \in 2 .. Len(registry[descriptor.code]) :
        LET listener == registry[descriptor.code][k]
        IN  /\ listener.subscriber = descriptor.subscriber
            /\ listener.callback = descriptor.callback

IsSubscribed(descriptor) ==
    \E k \in 1 .. Len(registry[descriptor.code]) :
        LET listener == registry[descriptor.code][k]
        IN  /\ listener.subscriber = descriptor.subscriber
            /\ listener.callback = descriptor.callback

\* Mutation of AdmitsSubscriber: no test for a null callback.
AdmitsNullCallback(descriptor) ==
    /\ live
    /\ ~destroy_requested
    /\ descriptor.code < MaxEventTypes
    /\ Len(registry[descriptor.code]) < MaxListenersPerType
    /\ ~IsSubscribed(descriptor)

AdmitsSubscriber(descriptor) ==
    /\ live
    /\ ~destroy_requested
    /\ descriptor.callback # Null
    /\ descriptor.code < MaxEventTypes
    /\ Len(registry[descriptor.code]) < MaxListenersPerType
    /\ ~IsSubscribed(descriptor)

Subscribe(descriptor) ==
    /\ ApplicationRuns
    /\ AdmitsSubscriber(descriptor)
    /\ registry' = [registry EXCEPT ![descriptor.code] = Append(@, Listener(descriptor))]
    /\ result' = TRUE
    /\ UNCHANGED <<live, queue, queue_capacity, payload_arena, memory, processing,
                   destroy_requested, pc, publishVars, processVars>>

SubscribeRefused(descriptor) ==
    /\ ApplicationRuns
    /\ ~AdmitsSubscriber(descriptor)
    /\ result' = FALSE
    /\ UNCHANGED <<implVars, pc, publishVars, processVars>>

-----------------------------------------------------------------------------
(* event_bus_publish                                                       *)

\* Mutation of QueueHasRoom: one delivery too many.
QueueHasRoomForLess(code) ==
    /\ Len(queue) <= MaxQueuedDeliveries
    /\ Len(registry[code]) <= MaxQueuedDeliveries - Len(queue) + 1

\* The queue has room for one delivery to each listener.
QueueHasRoom(code) ==
    /\ Len(queue) <= MaxQueuedDeliveries
    /\ Len(registry[code]) <= MaxQueuedDeliveries - Len(queue)

AdmitsEvent(event) ==
    /\ live
    /\ ~destroy_requested
    /\ event.payload # Null
    /\ Len(event.payload) # 0
    /\ IsPowerOfTwo(event.alignment)
    /\ event.code < MaxEventTypes
    /\ registry[event.code] # <<>>
    /\ QueueHasRoom(event.code)

\* The bytes of the payload are read by one memcpy for each copy.  Nothing
\* writes to them meanwhile, so the model reads them on entry.
Publish(event) ==
    /\ ApplicationRuns
    /\ AdmitsEvent(event)
    /\ pc' = "stage"
    /\ context' = event
    /\ queue_checkpoint' = Len(queue)
    /\ arena_checkpoint' = payload_arena.size
    /\ UNCHANGED <<implVars, result, staged_listeners, processVars>>

PublishRefused(event) ==
    /\ ApplicationRuns
    /\ ~AdmitsEvent(event)
    /\ result' = FALSE
    /\ UNCHANGED <<implVars, pc, publishVars, processVars>>

PublishReturns(value) ==
    /\ pc' = Caller
    /\ result' = value
    /\ context' = Null
    /\ staged_listeners' = <<>>
    /\ queue_checkpoint' = 0
    /\ arena_checkpoint' = 0

\* memcpy of the bytes to an address in the arena's buffer.
Copied(bytes, address) ==
    [offset \in Offsets |->
        LET k == offset - (address - payload_arena.buffer) + 1
        IN  IF k \in 1 .. Len(bytes) THEN bytes[k] ELSE memory[offset]]

\* The code leaves the bytes above the arena's size in place, but nobody owns
\* them: the model forgets them, so that reading one shows.
Forgotten(size) ==
    [offset \in Offsets |-> IF offset < size THEN memory[offset] ELSE Junk]

\* Mutation of RewindArena: a rollback clears the arena.
ClearArena(size) ==
    /\ payload_arena' = Rewind(payload_arena, 0 * size)
    /\ memory' = Forgotten(0)

\* Mutation of RewindArena: no rollback.
KeepArena(size) ==
    /\ size \in Word
    /\ UNCHANGED <<payload_arena, memory>>

\* arena_clear, and the rollback to a checkpoint.
RewindArena(size) ==
    /\ payload_arena' = Rewind(payload_arena, size)
    /\ memory' = Forgotten(size)

Recipients == registry[context.code]

\* Mutation of StagedDelivery: all listeners share the first one's copy.
SharedDelivery ==
    Delivery(Recipients[Len(staged_listeners) + 1], context,
             IF staged_listeners = <<>>
             THEN BlockAddress(payload_arena, context.alignment)
             ELSE staged_listeners[1].payload)

StagedDelivery ==
    Delivery(Recipients[Len(staged_listeners) + 1], context,
             BlockAddress(payload_arena, context.alignment))

StageCopy ==
    /\ pc = "stage"
    /\ CanAlloc(payload_arena, Len(context.payload), context.alignment)
    /\ payload_arena' =
          AfterAlloc(payload_arena, Len(context.payload), context.alignment)
    /\ memory' = Copied(context.payload, StagedDelivery.payload)
    /\ staged_listeners' = Append(staged_listeners, StagedDelivery)
    /\ pc' = IF Len(staged_listeners) + 1 < Len(Recipients) THEN "stage" ELSE "enqueue"
    /\ UNCHANGED <<live, registry, queue, queue_capacity, processing,
                   destroy_requested, result, context, queue_checkpoint,
                   arena_checkpoint, processVars>>

StageFails ==
    /\ pc = "stage"
    /\ ~CanAlloc(payload_arena, Len(context.payload), context.alignment)
    /\ RewindArena(arena_checkpoint)
    /\ PublishReturns(FALSE)
    /\ UNCHANGED <<live, registry, queue, queue_capacity, processing,
                   destroy_requested, processVars>>

\* How many staged deliveries are in the queue.
Enqueued == Len(queue) - queue_checkpoint

\* DARRAY_PUSH doubles the capacity of a full array.  That allocation may fail,
\* and the call then rolls both the queue and the arena back.
EnqueueCopy ==
    /\ pc = "enqueue"
    /\ \/ /\ queue' = Append(queue, staged_listeners[Enqueued + 1])
          /\ queue_capacity' = IF Len(queue) = queue_capacity
                               THEN 2 * queue_capacity
                               ELSE queue_capacity
          /\ IF Enqueued + 1 < Len(Recipients)
             THEN UNCHANGED <<pc, result, publishVars>>
             ELSE PublishReturns(TRUE)
          /\ UNCHANGED <<payload_arena, memory>>
       \/ /\ Len(queue) = queue_capacity
          /\ queue' = SubSeq(queue, 1, queue_checkpoint)
          /\ RewindArena(arena_checkpoint)
          /\ PublishReturns(FALSE)
          /\ UNCHANGED queue_capacity
    /\ UNCHANGED <<live, registry, processing, destroy_requested, processVars>>

-----------------------------------------------------------------------------
(* event_bus_process                                                       *)

ProcessRefused ==
    /\ ApplicationRuns
    /\ ~live \/ processing \/ destroy_requested
    /\ result' = FALSE
    /\ UNCHANGED <<implVars, pc, publishVars, processVars>>

ProcessEmpty ==
    /\ ApplicationRuns
    /\ live /\ ~processing /\ ~destroy_requested
    /\ queue = <<>>
    /\ result' = TRUE
    /\ UNCHANGED <<implVars, pc, publishVars, processVars>>

Process ==
    /\ ApplicationRuns
    /\ live /\ ~processing /\ ~destroy_requested
    /\ queue # <<>>
    /\ processing' = TRUE
    /\ cursor' = 0
    /\ pc' = "loop"
    /\ UNCHANGED <<live, registry, queue, queue_capacity, payload_arena, memory,
                   destroy_requested, result, publishVars, active_listener, received>>

\* The turn of the loop copies the delivery out of the queue, whose buffer a
\* publishing callback might reallocate, and calls the callback.
\* darray_get_at never returns NULL here: the loop's condition is its guard.
CallListener ==
    /\ pc = "loop"
    /\ cursor < Len(queue)
    /\ active_listener' = queue[cursor + 1]
    /\ received' = MessageOf(queue[cursor + 1])
    /\ pc' = "callback"
    /\ UNCHANGED <<implVars, result, publishVars, cursor>>

\* The payload is the callback's own copy: it may write to it.
CallbackWrites(k, byte) ==
    /\ pc = "callback"
    /\ k \in 1 .. active_listener.size
    /\ memory' = Copied(<<byte>>, active_listener.payload + (k - 1))
    /\ UNCHANGED <<live, registry, queue, queue_capacity, payload_arena, processing,
                   destroy_requested, pc, result, publishVars, processVars>>

\* Mutation of CallbackReturns: the loop does not advance.
CallbackReturnsInPlace ==
    /\ pc = "callback"
    /\ ~destroy_requested
    /\ active_listener' = Null
    /\ received' = Null
    /\ pc' = "loop"
    /\ UNCHANGED <<implVars, result, publishVars, cursor>>

\* Mutation of CallbackReturns: the request to destroy goes unnoticed.
CallbackReturnsRegardless ==
    /\ pc = "callback"
    /\ cursor' = cursor + 1
    /\ active_listener' = Null
    /\ received' = Null
    /\ pc' = "loop"
    /\ UNCHANGED <<implVars, result, publishVars>>

CallbackReturns ==
    /\ pc = "callback"
    /\ ~destroy_requested
    /\ cursor' = cursor + 1
    /\ active_listener' = Null
    /\ received' = Null
    /\ pc' = "loop"
    /\ UNCHANGED <<implVars, result, publishVars>>

\* The callback asked for destruction: the loop breaks and the bus goes.
CallbackReturnsDestroyed ==
    /\ pc = "callback"
    /\ destroy_requested
    /\ DestroyNow
    /\ pc' = "app"
    /\ result' = FALSE
    /\ cursor' = 0
    /\ active_listener' = Null
    /\ received' = Null
    /\ UNCHANGED publishVars

ProcessEnds ==
    /\ pc = "loop"
    /\ cursor >= Len(queue)
    /\ processing' = FALSE
    /\ queue' = <<>>
    /\ RewindArena(0)
    /\ pc' = "app"
    /\ result' = TRUE
    /\ cursor' = 0
    /\ UNCHANGED <<live, registry, queue_capacity, destroy_requested, publishVars,
                   active_listener, received>>

-----------------------------------------------------------------------------

Next ==
    \/ \E buffer \in Buffers : Create(buffer)
    \/ CreateFails
    \/ Destroy
    \/ DestroyLater
    \/ \E descriptor \in Descriptors : Subscribe(descriptor)
    \/ \E descriptor \in Descriptors : SubscribeRefused(descriptor)
    \/ \E event \in Events : Publish(event)
    \/ \E event \in Events : PublishRefused(event)
    \/ pc = "callback" /\ Publish(ReceivedEvent)
    \/ pc = "callback" /\ PublishRefused(ReceivedEvent)
    \/ StageCopy
    \/ StageFails
    \/ EnqueueCopy
    \/ ProcessRefused
    \/ ProcessEmpty
    \/ Process
    \/ CallListener
    \/ \E k \in 1 .. EventArenaSize, byte \in Bytes : CallbackWrites(k, byte)
    \/ CallbackReturns
    \/ CallbackReturnsDestroyed
    \/ ProcessEnds

Spec == Init /\ [][Next]_vars

\* One thread runs the library and its callbacks: what the library has begun
\* goes on (weak fairness), and a callback makes finitely many calls before it
\* returns (strong fairness: each of its calls suspends it for a while).
\* Nothing makes the application call the bus.
Fairness ==
    /\ WF_vars(StageCopy \/ StageFails)
    /\ WF_vars(EnqueueCopy)
    /\ WF_vars(CallListener)
    /\ SF_vars(CallbackReturns)
    /\ WF_vars(CallbackReturnsDestroyed)
    /\ WF_vars(ProcessEnds)

FairSpec == Spec /\ Fairness

-----------------------------------------------------------------------------
(* Types                                                                   *)

Callbacks   == {descriptor.callback : descriptor \in Descriptors} \ {Null}
Subscribers == {descriptor.subscriber : descriptor \in Descriptors}
Publishers  == {event.publisher : event \in Events}
Alignments  == {event.alignment : event \in Events}

Listeners == [callback : Callbacks, subscriber : Subscribers, code : Codes]

Deliveries ==
    [callback : Callbacks, subscriber : Subscribers, code : Codes,
     publisher : Publishers, payload : Word, size : Nat \ {0},
     alignment : Alignments]

\* What a publishing callback can pass: its own copy, written to or not.
ContextsOver(payloads) ==
    [code : Codes, publisher : Publishers, payload : payloads,
     alignment : Alignments]

Messages ==
    [callback : Callbacks, subscriber : Subscribers, code : Codes,
     publisher : Publishers, payload : Seq(Bytes \cup {Junk}),
     alignment : Alignments]

\* A callback always has a context: its first argument is the address of the
\* loop's copy of the delivery.
ASSUME NullAssumption == Null \notin Messages

\* Every variable has its type; the fields of the Arena are words, and nothing
\* without a callback or without a byte is ever queued.
TypeOK ==
    /\ live \in BOOLEAN
    /\ registry \in [Codes -> Seq(Listeners)]
    /\ queue \in Seq(Deliveries)
    /\ queue_capacity \in Nat
    /\ payload_arena \in [buffer : Word, capacity : Word, size : Word]
    /\ memory \in [Offsets -> Bytes \cup {Junk}]
    /\ processing \in BOOLEAN
    /\ destroy_requested \in BOOLEAN
    /\ pc \in {"app", "loop", "callback", "stage", "enqueue"}
    /\ result \in BOOLEAN
    /\ context \in ContextsOver(Seq(Bytes \cup {Junk})) \cup {Null}
    /\ staged_listeners \in Seq(Deliveries)
    /\ queue_checkpoint \in Nat
    /\ arena_checkpoint \in Word
    /\ cursor \in Nat
    /\ active_listener \in Deliveries \cup {Null}
    /\ received \in Messages \cup {Null}

-----------------------------------------------------------------------------
(* Safety                                                                  *)

\* The copies of payloads that exist, oldest first: those of the queue (the
\* handed over ones included) and then those a running publish has staged.
CopyCount ==
    IF InPublish THEN queue_checkpoint + Len(staged_listeners) ELSE Len(queue)

Copies ==
    IF InPublish
    THEN [k \in 1 .. CopyCount |->
            IF k <= queue_checkpoint THEN queue[k]
            ELSE staged_listeners[k - queue_checkpoint]]
    ELSE queue

\* Every copy lies in the part of the arena that is in use and is aligned as
\* its publisher asked, and the copy in the hands of a running callback is one
\* of them: neither a rollback nor the end of a pass takes a payload away from
\* a delivery that will be, or is being, handed over.
PayloadsInBounds ==
    /\ \A k \in 1 .. CopyCount :
          /\ payload_arena.buffer <= Copies[k].payload
          /\ PayloadEnd(Copies[k]) <= payload_arena.buffer + payload_arena.size
          /\ Copies[k].payload % Copies[k].alignment = 0
    /\ active_listener # Null =>
          \E k \in 1 .. CopyCount : Copies[k] = active_listener

\* No two copies share a byte: a listener that writes to its payload writes to
\* nobody else's (the copies of one event are staged one by one).
PayloadsDisjoint ==
    \A j, k \in 1 .. CopyCount : j < k => PayloadEnd(Copies[j]) <= Copies[k].payload

\* Outside a publish the arena ends where the last queued payload ends: what a
\* refused publish had staged is given back, and an empty queue leaves an empty
\* arena.  (Space lost here would be lost until the next pass ends.)
NoLostArenaSpace ==
    ~InPublish =>
        payload_arena.buffer + payload_arena.size =
            IF queue = <<>> THEN payload_arena.buffer ELSE PayloadEnd(queue[Len(queue)])

\* As long as a call of the library, or a callback it made, is running on the
\* implementation that the call reads through, the implementation is there: a
\* destruction asked for by a callback waits, and nothing but that callback
\* runs until it is carried out.
ImplOutlivesCalls ==
    /\ pc # "app" => live
    /\ pc \in {"loop", "callback"} => processing
    /\ destroy_requested => processing /\ pc = "callback"

\* The array that event_bus_create reserves is large enough for every legal
\* sequence of calls: the push that would reallocate it, and with it fail,
\* never happens, so a publish that has staged its copies succeeds.
QueueNeverReallocates ==
    live => /\ queue_capacity = MaxQueuedDeliveries
            /\ CopyCount <= MaxQueuedDeliveries
            /\ pc = "enqueue" => Len(queue) < queue_capacity

\* No listener is registered twice under a code, whatever the callbacks
\* subscribe: each gets one copy of an event.
NoDuplicateListeners ==
    \A code \in Codes :
        \A j, k \in 1 .. Len(registry[code]) :
            registry[code][j] = registry[code][k] => j = k

-----------------------------------------------------------------------------
(* The inductive invariant behind the safety properties                    *)

\* How many deliveries the queue holds when a running publish is left out.
CommittedCount == IF InPublish THEN queue_checkpoint ELSE Len(queue)

\* Where the first n copies end.
EndOfCopies(n) == IF n = 0 THEN payload_arena.buffer ELSE PayloadEnd(Copies[n])

ControlInv ==
    /\ ImplOutlivesCalls
    /\ processing => pc # "app"
    /\ IF live
       THEN IsArena(payload_arena) /\ payload_arena.capacity = EventArenaSize
       ELSE queue = <<>> /\ payload_arena = ZeroArena
    /\ IF processing /\ pc # "loop"
       THEN cursor < CommittedCount /\ active_listener = queue[cursor + 1]
       ELSE active_listener = Null

PublishInv ==
    /\ ~InPublish => staged_listeners = <<>>
    /\ InPublish =>
          /\ context \in ContextsOver(Seq(Bytes \cup {Junk}))
          /\ Len(context.payload) > 0
          /\ queue_checkpoint + Len(Recipients) <= MaxQueuedDeliveries
          /\ payload_arena.buffer + arena_checkpoint = EndOfCopies(queue_checkpoint)
    /\ pc = "stage" =>
          /\ Len(queue) = queue_checkpoint
          /\ Len(staged_listeners) < Len(Recipients)
    /\ pc = "enqueue" =>
          /\ Len(queue) >= queue_checkpoint
          /\ Len(queue) < queue_checkpoint + Len(Recipients)
          /\ Len(staged_listeners) = Len(Recipients)
          /\ \A k \in queue_checkpoint + 1 .. Len(queue) :
                queue[k] = staged_listeners[k - queue_checkpoint]

ArenaInv ==
    /\ PayloadsInBounds
    /\ PayloadsDisjoint
    /\ payload_arena.buffer + payload_arena.size = EndOfCopies(CopyCount)

IInv ==
    /\ TypeOK
    /\ ControlInv
    /\ PublishInv
    /\ ArenaInv
    /\ QueueNeverReallocates
    /\ NoDuplicateListeners

-----------------------------------------------------------------------------
(* The bus implements the mailbox of module EventDelivery.  A publication  *)
(* takes effect when the last of its deliveries is pushed.                 *)

HandedOver == cursor + (IF received # Null THEN 1 ELSE 0)

Published == IF pc = "enqueue" THEN queue_checkpoint ELSE Len(queue)

Pending ==
    [k \in 1 .. Published - HandedOver |-> MessageOf(queue[HandedOver + k])]

Phase ==
    IF destroy_requested THEN "closing" ELSE IF processing THEN "pass" ELSE "idle"

\* The contexts that a publication can carry: those of the application, and
\* what a callback makes of its copy of one.
PublishedContexts ==
    {event \in [code      : Codes,
                publisher : Publishers,
                payload   : UNION {[1 .. Len(sent.payload) -> Bytes] :
                                   sent \in {event \in Events : event.payload # Null}},
                alignment : Alignments] :
        event.payload # <<>> /\ IsPowerOfTwo(event.alignment)}

Promise ==
    INSTANCE EventDelivery
    WITH listeners <- registry, pending <- Pending, phase <- Phase,
         Contexts <- PublishedContexts

\* All or none of an event's listeners get it, first in first out, once each,
\* with the bytes that were published; see EventDelivery.
ImplementsDelivery == Promise!Spec

-----------------------------------------------------------------------------
(* Liveness                                                                *)

\* A pass ends, even if every callback publishes again: deliveries already
\* handed over count against the limit of the queue, and their payloads against
\* the arena, until the pass is over.
ProcessTerminates == processing ~> ~processing

\* A destruction asked for in a callback is carried out.
DestroyCompletes == destroy_requested ~> ~live

=============================================================================
