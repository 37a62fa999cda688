---------------------------- MODULE EventBusProofs ----------------------------
(***************************************************************************)
(* The safety of the event bus for every limit, arena size, word size,     *)
(* address, listener and event: IInv of module EventBus is an inductive    *)
(* invariant.  There is one lemma for each action that changes more than   *)
(* the result of the last call.                                            *)
(*                                                                         *)
(* The second half shows that the bus implements EventDelivery: with       *)
(* DeliveryInv, what IInv does not say of the bytes of the copies, every   *)
(* step of the bus is a step of the mailbox or leaves it alone.            *)
(***************************************************************************)
EXTENDS EventBus, MemoryProofs, SequenceTheorems

\* A byte string of a context as the model types it.
ByteString == Seq(Bytes \cup {Junk})

\* What every proof below needs of the constants.
LEMMA Constants ==
    /\ MaxEventTypes \in Nat
    /\ MaxListenersPerType \in Nat \ {0}
    /\ MaxQueuedDeliveries \in Nat \ {0}
    /\ EventArenaSize \in Nat
    /\ WordMod \in Nat \ {0}
    /\ 0 \in Word
    /\ Word \subseteq Nat
    /\ Codes \subseteq Nat
BY LimitsAssumption, WordAssumption DEF Word, Codes

LEMMA EmptyValues ==
    /\ EmptyRegistry \in [Codes -> Seq(Listeners)]
    /\ ZeroArena \in [buffer : Word, capacity : Word, size : Word]
    /\ ZeroArena.buffer = 0 /\ ZeroArena.size = 0
    /\ FreshMemory \in [Offsets -> Bytes \cup {Junk}]
<1>1. EmptyRegistry \in [Codes -> Seq(Listeners)]
    BY DEF EmptyRegistry
<1>2. /\ ZeroArena \in [buffer : Word, capacity : Word, size : Word]
      /\ ZeroArena.buffer = 0 /\ ZeroArena.size = 0
    BY Constants DEF ZeroArena, NullAddress
<1>3. FreshMemory \in [Offsets -> Bytes \cup {Junk}]
    BY DEF FreshMemory
<1>. QED  BY <1>1, <1>2, <1>3

LEMMA InitIInv == Init => IInv
<1>. SUFFICES ASSUME Init PROVE IInv
    OBVIOUS
<1>. USE Constants DEF Init
<1>1. TypeOK
    <2>1. /\ live \in BOOLEAN /\ processing \in BOOLEAN
          /\ destroy_requested \in BOOLEAN /\ result \in BOOLEAN
        OBVIOUS
    <2>2. /\ queue \in Seq(Deliveries) /\ staged_listeners \in Seq(Deliveries)
          /\ queue_capacity \in Nat /\ queue_checkpoint \in Nat
          /\ arena_checkpoint \in Word /\ cursor \in Nat
        OBVIOUS
    <2>. QED  BY <2>1, <2>2, EmptyValues DEF TypeOK
<1>2. ControlInv
    BY DEF ControlInv, ImplOutlivesCalls
<1>3. PublishInv
    BY DEF PublishInv, InPublish
<1>4. ArenaInv
    <2>1. CopyCount = 0
        BY DEF CopyCount, InPublish
    <2>2. PayloadsInBounds /\ PayloadsDisjoint
        BY <2>1 DEF PayloadsInBounds, PayloadsDisjoint
    <2>3. payload_arena.buffer + payload_arena.size = EndOfCopies(CopyCount)
        BY <2>1 DEF EndOfCopies, ZeroArena, NullAddress
    <2>. QED  BY <2>2, <2>3 DEF ArenaInv
<1>5. QueueNeverReallocates /\ NoDuplicateListeners
    BY DEF QueueNeverReallocates, NoDuplicateListeners, EmptyRegistry
<1>. QED  BY <1>1, <1>2, <1>3, <1>4, <1>5 DEF IInv

\* Refused calls, and the calls that return at once, change the result only.
LEMMA ResultOnly ==
    ASSUME IInv, result' \in BOOLEAN, UNCHANGED <<implVars, pc, publishVars, processVars>>
    PROVE  IInv'
<1>. USE DEF IInv, implVars, publishVars, processVars
<1>1. TypeOK'
    BY DEF TypeOK
<1>2. ControlInv'
    BY DEF ControlInv, ImplOutlivesCalls, CommittedCount, InPublish
<1>3. PublishInv'
    <2>1. EndOfCopies(queue_checkpoint)' = EndOfCopies(queue_checkpoint)
        BY DEF EndOfCopies, Copies, CopyCount, InPublish, PayloadEnd
    <2>. QED  BY <2>1 DEF PublishInv, InPublish, Recipients
<1>4. ArenaInv'
    BY DEF ArenaInv, PayloadsInBounds, PayloadsDisjoint, EndOfCopies, CopyCount, Copies,
           InPublish, PayloadEnd
<1>5. QueueNeverReallocates' /\ NoDuplicateListeners'
    BY DEF QueueNeverReallocates, NoDuplicateListeners, CopyCount, InPublish
<1>. QED  BY <1>1, <1>2, <1>3, <1>4, <1>5

LEMMA CreateStep ==
    ASSUME IInv, NEW buffer \in Buffers, Create(buffer)
    PROVE  IInv'
<1>. USE Constants DEF IInv, Create, publishVars, processVars
<1>1. IsObject(buffer, EventArenaSize)
    BY BuffersAssumption
<1>2. queue = <<>> /\ queue' = <<>> /\ pc = "app" /\ pc' = "app" /\ ~processing
    BY DEF ControlInv
<1>3. TypeOK'
    BY <1>1 DEF TypeOK, IsObject
<1>4. ControlInv'
    BY <1>1, <1>2 DEF ControlInv, ImplOutlivesCalls, IsArena, IsObject
<1>5. PublishInv'
    BY <1>2 DEF PublishInv, InPublish
<1>6. ArenaInv'
    <2>1. CopyCount' = 0 /\ active_listener' = Null
        BY <1>2 DEF CopyCount, InPublish, ControlInv
    <2>2. PayloadsInBounds' /\ PayloadsDisjoint'
        BY <2>1 DEF PayloadsInBounds, PayloadsDisjoint
    <2>3. (payload_arena.buffer + payload_arena.size = EndOfCopies(CopyCount))'
        BY <1>1, <2>1 DEF EndOfCopies, IsObject
    <2>. QED  BY <2>2, <2>3 DEF ArenaInv
<1>7. QueueNeverReallocates' /\ NoDuplicateListeners'
    BY <1>2 DEF QueueNeverReallocates, NoDuplicateListeners, CopyCount, InPublish
<1>. QED  BY <1>3, <1>4, <1>5, <1>6, <1>7

\* The part of event_bus_destroy, at once or deferred, that touches the bus.
LEMMA DestroyNowStep ==
    ASSUME IInv, DestroyNow, UNCHANGED publishVars, pc \in {"app", "callback"},
           pc' = "app", result' \in BOOLEAN, cursor' \in Nat,
           active_listener' = Null, received' \in Messages \cup {Null}
    PROVE  IInv'
<1>. USE Constants DEF IInv, DestroyNow, publishVars
<1>1. staged_listeners' = <<>>
    BY DEF PublishInv, InPublish
<1>2. TypeOK'
    BY <1>1, EmptyValues DEF TypeOK
<1>3. ControlInv'
    BY DEF ControlInv, ImplOutlivesCalls
<1>4. PublishInv'
    BY <1>1 DEF PublishInv, InPublish
<1>5. ArenaInv'
    <2>1. CopyCount' = 0
        BY DEF CopyCount, InPublish
    <2>2. PayloadsInBounds' /\ PayloadsDisjoint'
        BY <2>1 DEF PayloadsInBounds, PayloadsDisjoint
    <2>3. (payload_arena.buffer + payload_arena.size = EndOfCopies(CopyCount))'
        BY <2>1 DEF EndOfCopies, ZeroArena, NullAddress
    <2>. QED  BY <2>2, <2>3 DEF ArenaInv
<1>6. QueueNeverReallocates' /\ NoDuplicateListeners'
    BY DEF QueueNeverReallocates, NoDuplicateListeners, EmptyRegistry
<1>. QED  BY <1>2, <1>3, <1>4, <1>5, <1>6

LEMMA DestroyStep ==
    ASSUME IInv, Destroy
    PROVE  IInv'
<1>1. pc = "app" /\ active_listener = Null
    BY DEF IInv, ControlInv, ImplOutlivesCalls, Destroy, ApplicationRuns
<1>2. /\ DestroyNow
      /\ UNCHANGED publishVars
      /\ UNCHANGED <<pc, result, cursor, active_listener, received>>
    BY DEF Destroy, processVars
<1>3. /\ result \in BOOLEAN
      /\ cursor \in Nat
      /\ received \in Messages \cup {Null}
    BY DEF IInv, TypeOK
<1>. QED  BY <1>1, <1>2, <1>3, DestroyNowStep

LEMMA CallbackReturnsDestroyedStep ==
    ASSUME IInv, CallbackReturnsDestroyed
    PROVE  IInv'
BY DestroyNowStep, Constants DEF CallbackReturnsDestroyed

LEMMA DestroyLaterStep ==
    ASSUME IInv, DestroyLater
    PROVE  IInv'
<1>. USE DEF IInv, DestroyLater, publishVars, processVars
<1>1. pc = "callback" /\ pc' = "callback"
    BY DEF ControlInv, ApplicationRuns
<1>2. TypeOK'
    BY DEF TypeOK
<1>3. ControlInv'
    BY <1>1 DEF ControlInv, ImplOutlivesCalls, CommittedCount, InPublish
<1>4. PublishInv'
    BY <1>1 DEF PublishInv, InPublish
<1>5. ArenaInv'
    BY <1>1 DEF ArenaInv, PayloadsInBounds, PayloadsDisjoint, EndOfCopies, CopyCount, Copies,
           InPublish, PayloadEnd
<1>6. QueueNeverReallocates' /\ NoDuplicateListeners'
    BY <1>1 DEF QueueNeverReallocates, NoDuplicateListeners, CopyCount, InPublish
<1>. QED  BY <1>2, <1>3, <1>4, <1>5, <1>6

-----------------------------------------------------------------------------
(* Calls of the application                                                *)

LEMMA SubscribeStep ==
    ASSUME IInv, NEW descriptor \in Descriptors, Subscribe(descriptor)
    PROVE  IInv'
<1>. USE Constants DEF IInv, Subscribe, publishVars, processVars
<1>. DEFINE code     == descriptor.code
            listener == Listener(descriptor)
<1>1. code \in Codes /\ listener \in Listeners
    BY DescriptorsAssumption
    DEF AdmitsSubscriber, Codes, Listener, Listeners, Callbacks, Subscribers
<1>2. /\ registry \in [Codes -> Seq(Listeners)]
      /\ registry[code] \in Seq(Listeners)
      /\ registry'[code] = Append(registry[code], listener)
      /\ \A other \in Codes \ {code} : registry'[other] = registry[other]
      /\ registry' \in [Codes -> Seq(Listeners)]
    <2>1. /\ registry \in [Codes -> Seq(Listeners)]
          /\ registry' = [registry EXCEPT ![code] = Append(registry[code], listener)]
        BY DEF TypeOK
    <2>2. Append(registry[code], listener) \in Seq(Listeners)
        <3>. HIDE DEF code, listener
        <3>. QED  BY <1>1, <2>1
    <2>. HIDE DEF code, listener
    <2>. QED  BY <1>1, <2>1, <2>2
<1>3. ~InPublish /\ ~InPublish'
    BY DEF ApplicationRuns, InPublish
<1>4. TypeOK'
    BY <1>2 DEF TypeOK
<1>5. ControlInv'
    BY DEF ControlInv, ImplOutlivesCalls, CommittedCount, InPublish
<1>6. PublishInv'
    BY <1>3 DEF PublishInv, InPublish
<1>7. ArenaInv'
    BY DEF ArenaInv, PayloadsInBounds, PayloadsDisjoint, EndOfCopies, CopyCount, Copies,
           InPublish, PayloadEnd
<1>8. QueueNeverReallocates'
    BY DEF QueueNeverReallocates, CopyCount, InPublish
<1>9. NoDuplicateListeners'
    <2>1. ASSUME NEW k \in 1 .. Len(registry[code]) PROVE registry[code][k] # listener
        <3>1. ~(/\ registry[code][k].subscriber = descriptor.subscriber
                /\ registry[code][k].callback = descriptor.callback)
            BY DEF AdmitsSubscriber, IsSubscribed
        <3>2. /\ listener.subscriber = descriptor.subscriber
              /\ listener.callback = descriptor.callback
            BY DEF Listener
        <3>. QED  BY <3>1, <3>2
    <2>2. ASSUME NEW j \in 1 .. Len(registry'[code]), NEW k \in 1 .. Len(registry'[code]),
                 registry'[code][j] = registry'[code][k]
          PROVE  j = k
        <3>. HIDE DEF listener, code
        <3>. QED  BY <1>1, <1>2, <2>1, <2>2 DEF NoDuplicateListeners
    <2>. QED  BY <1>2, <2>2 DEF NoDuplicateListeners
<1>. QED  BY <1>4, <1>5, <1>6, <1>7, <1>8, <1>9

\* Entering event_bus_publish, with an event of the application or, in a
\* callback, with the one that it received.
LEMMA PublishStep ==
    ASSUME IInv, NEW event \in ContextsOver(ByteString), Publish(event)
    PROVE  IInv'
<1>. USE Constants DEF IInv, Publish, implVars, processVars, ByteString
<1>1. /\ InPublish' /\ ~InPublish
      /\ pc' = "stage"
      /\ staged_listeners = <<>> /\ staged_listeners' = <<>>
      /\ queue_checkpoint' = Len(queue)
      /\ arena_checkpoint' = payload_arena.size
      /\ Len(queue) \in Nat
    BY DEF InPublish, ApplicationRuns, PublishInv, TypeOK
<1>2. /\ event.code \in Codes
      /\ Recipients' = registry[event.code]
      /\ Len(Recipients') \in Nat /\ Len(Recipients') > 0
      /\ Len(event.payload) > 0
      /\ Len(queue) + Len(Recipients') <= MaxQueuedDeliveries
    <2>1. event.code \in Codes /\ Len(event.payload) \in Nat
        BY DEF ContextsOver
    <2>2. /\ registry[event.code] \in Seq(Listeners)
          /\ registry[event.code] # <<>>
          /\ Recipients' = registry[event.code]
        BY <2>1 DEF TypeOK, AdmitsEvent, Recipients
    <2>3. Len(Recipients') \in Nat /\ Len(Recipients') > 0
        BY <2>2
    <2>. QED  BY <1>1, <2>1, <2>2, <2>3 DEF AdmitsEvent, QueueHasRoom
<1>3. /\ CopyCount' = CopyCount
      /\ \A k \in 1 .. CopyCount : Copies'[k] = Copies[k]
      /\ CopyCount = Len(queue)
    BY <1>1 DEF CopyCount, Copies
<1>4. TypeOK'
    BY DEF TypeOK
<1>5. ControlInv'
    BY <1>1 DEF ControlInv, ImplOutlivesCalls, CommittedCount, ApplicationRuns, AdmitsEvent
<1>6. EndOfCopies(CopyCount)' = EndOfCopies(CopyCount)
    BY <1>1, <1>3 DEF EndOfCopies, PayloadEnd
<1>7. ArenaInv'
    BY <1>1, <1>3, <1>6 DEF ArenaInv, PayloadsInBounds, PayloadsDisjoint, PayloadEnd
<1>8. PublishInv'
    BY <1>1, <1>2, <1>3, <1>6 DEF PublishInv, ArenaInv
<1>9. QueueNeverReallocates' /\ NoDuplicateListeners'
    BY <1>1, <1>3 DEF QueueNeverReallocates, NoDuplicateListeners
<1>. QED  BY <1>4, <1>5, <1>7, <1>8, <1>9

-----------------------------------------------------------------------------
(* Copies laid out one after the other in an arena                         *)

\* The first n copies lie in the arena in their order, each where it may be,
\* and the arena ends where the last one ends.
Chain(copies, n, arena) ==
    /\ \A k \in 1 .. n :
          /\ copies[k] \in Deliveries
          /\ arena.buffer <= copies[k].payload
          /\ PayloadEnd(copies[k]) <= arena.buffer + arena.size
          /\ copies[k].payload % copies[k].alignment = 0
    /\ \A j, k \in 1 .. n : j < k => PayloadEnd(copies[j]) <= copies[k].payload
    /\ arena.buffer + arena.size = IF n = 0 THEN arena.buffer ELSE PayloadEnd(copies[n])

\* A block above the arena's old end extends the chain.
LEMMA ChainAppend ==
    ASSUME NEW n \in Nat, NEW copies, NEW arena, NEW copies2, NEW arena2,
           IsArena(arena), IsArena(arena2),
           Chain(copies, n, arena),
           \A k \in 1 .. n : copies2[k] = copies[k],
           copies2[n + 1] \in Deliveries,
           copies2[n + 1].payload >= arena.buffer + arena.size,
           copies2[n + 1].payload % copies2[n + 1].alignment = 0,
           PayloadEnd(copies2[n + 1]) = arena2.buffer + arena2.size,
           arena2.buffer = arena.buffer,
           arena2.size >= arena.size
    PROVE  Chain(copies2, n + 1, arena2)
<1>1. /\ arena.buffer \in Nat /\ arena.size \in Nat
      /\ arena2.buffer \in Nat /\ arena2.size \in Nat
    BY Constants DEF IsArena
<1>2. ASSUME NEW delivery \in Deliveries
      PROVE  delivery.payload \in Nat /\ PayloadEnd(delivery) \in Nat
    <2>1. delivery.payload \in Word /\ delivery.size \in Nat
        BY DEF Deliveries
    <2>2. delivery.payload \in Nat
        BY <2>1, Constants
    <2>. QED  BY <2>1, <2>2 DEF PayloadEnd
<1>3. ASSUME NEW k \in 1 .. n
      PROVE  /\ copies2[k] \in Deliveries
             /\ arena2.buffer <= copies2[k].payload
             /\ PayloadEnd(copies2[k]) <= arena2.buffer + arena2.size
             /\ copies2[k].payload % copies2[k].alignment = 0
             /\ PayloadEnd(copies2[k]) <= copies2[n + 1].payload
    <2>1. /\ copies2[k] = copies[k]
          /\ copies[k] \in Deliveries
          /\ arena.buffer <= copies[k].payload
          /\ PayloadEnd(copies[k]) <= arena.buffer + arena.size
          /\ copies[k].payload % copies[k].alignment = 0
        BY DEF Chain
    <2>2. PayloadEnd(copies[k]) \in Nat /\ copies2[n + 1].payload \in Nat
        BY <1>2, <2>1
    <2>. QED  BY <1>1, <2>1, <2>2
<1>4. /\ arena2.buffer <= copies2[n + 1].payload
      /\ PayloadEnd(copies2[n + 1]) <= arena2.buffer + arena2.size
    BY <1>1, <1>2
<1>5. \A k \in 1 .. n + 1 : k \in 1 .. n \/ k = n + 1
    OBVIOUS
<1>6. \A j, k \in 1 .. n : j < k => PayloadEnd(copies2[j]) <= copies2[k].payload
    BY DEF Chain
<1>7. ASSUME NEW j \in 1 .. n + 1, NEW k \in 1 .. n + 1, j < k
      PROVE  PayloadEnd(copies2[j]) <= copies2[k].payload
    BY <1>3, <1>5, <1>6, <1>7
<1>8. ASSUME NEW k \in 1 .. n + 1
      PROVE  /\ copies2[k] \in Deliveries
             /\ arena2.buffer <= copies2[k].payload
             /\ PayloadEnd(copies2[k]) <= arena2.buffer + arena2.size
             /\ copies2[k].payload % copies2[k].alignment = 0
    BY <1>3, <1>4, <1>5
<1>. QED  BY <1>7, <1>8 DEF Chain

\* Rewinding the arena to the end of a copy keeps the copies up to it.
LEMMA ChainPrefix ==
    ASSUME NEW n \in Nat, NEW m \in 0 .. n, NEW copies, NEW arena, NEW copies2, NEW arena2,
           IsArena(arena),
           Chain(copies, n, arena),
           \A k \in 1 .. m : copies2[k] = copies[k],
           arena2.buffer = arena.buffer,
           arena2.size \in Nat,
           arena2.buffer + arena2.size =
                IF m = 0 THEN arena.buffer ELSE PayloadEnd(copies[m])
    PROVE  Chain(copies2, m, arena2) /\ arena2.size <= arena.size
<1>1. /\ arena.buffer \in Nat /\ arena.size \in Nat
      /\ arena2.buffer \in Nat /\ arena2.size \in Nat
    BY Constants DEF IsArena
<1>2. ASSUME NEW k \in 1 .. m
      PROVE  /\ copies2[k] = copies[k]
             /\ copies[k] \in Deliveries
             /\ copies[k].payload \in Nat
             /\ PayloadEnd(copies[k]) \in Nat
             /\ copies[k].payload <= PayloadEnd(copies[k])
             /\ arena.buffer <= copies[k].payload
             /\ PayloadEnd(copies[k]) <= arena.buffer + arena.size
             /\ copies[k].payload % copies[k].alignment = 0
    <2>1. k \in 1 .. n
        OBVIOUS
    <2>2. copies[k] \in Deliveries
        BY <2>1 DEF Chain
    <2>3. /\ copies[k].payload \in Nat
          /\ PayloadEnd(copies[k]) \in Nat
          /\ copies[k].payload <= PayloadEnd(copies[k])
        <3>1. copies[k].payload \in Word /\ copies[k].size \in Nat
            BY <2>2 DEF Deliveries
        <3>2. copies[k].payload \in Nat
            BY <3>1, Constants
        <3>. QED  BY <3>1, <3>2 DEF PayloadEnd
    <2>. QED  BY <2>1, <2>2, <2>3 DEF Chain
<1>3. \A j, k \in 1 .. m : j < k => PayloadEnd(copies[j]) <= copies[k].payload
    BY DEF Chain
<1>4. ASSUME NEW k \in 1 .. m
      PROVE  PayloadEnd(copies[k]) <= arena2.buffer + arena2.size
    <2>1. CASE k = m
        BY <2>1, <1>1, <1>2
    <2>2. CASE k < m
        <3>1. /\ m \in 1 .. m
              /\ PayloadEnd(copies[k]) <= copies[m].payload
            BY <2>2, <1>3
        <3>2. copies[m].payload <= PayloadEnd(copies[m])
            BY <3>1, <1>2
        <3>. QED  BY <1>1, <1>2, <3>1, <3>2
    <2>. QED  BY <2>1, <2>2
<1>5. arena2.size <= arena.size
    <2>1. CASE m = 0
        BY <2>1, <1>1
    <2>2. CASE m # 0
        <3>1. m \in 1 .. m
            BY <2>2
        <3>. QED  BY <2>2, <3>1, <1>1, <1>2
    <2>. QED  BY <2>1, <2>2
<1>6. \A k \in 1 .. m :
          /\ copies2[k] \in Deliveries
          /\ arena2.buffer <= copies2[k].payload
          /\ PayloadEnd(copies2[k]) <= arena2.buffer + arena2.size
          /\ copies2[k].payload % copies2[k].alignment = 0
    BY <1>2, <1>4
<1>7. \A j, k \in 1 .. m : j < k => PayloadEnd(copies2[j]) <= copies2[k].payload
    BY <1>2, <1>3
<1>8. arena2.buffer + arena2.size = IF m = 0 THEN arena2.buffer ELSE PayloadEnd(copies2[m])
    <2>1. CASE m = 0
        BY <2>1
    <2>2. CASE m # 0
        <3>1. m \in 1 .. m
            BY <2>2
        <3>. QED  BY <2>2, <3>1, <1>2
    <2>. QED  BY <2>1, <2>2
<1>. QED  BY <1>5, <1>6, <1>7, <1>8 DEF Chain

\* The copies of a state that satisfies IInv form a chain.
LEMMA CopiesChain ==
    ASSUME IInv
    PROVE  Chain(Copies, CopyCount, payload_arena) /\ CopyCount \in Nat
<1>1. /\ CopyCount \in Nat
      /\ \A k \in 1 .. CopyCount : Copies[k] \in Deliveries
    <2>1. CASE InPublish
        <3>1. /\ CopyCount = queue_checkpoint + Len(staged_listeners)
              /\ queue_checkpoint \in Nat
              /\ Len(queue) >= queue_checkpoint
              /\ queue \in Seq(Deliveries)
              /\ staged_listeners \in Seq(Deliveries)
            BY <2>1 DEF CopyCount, IInv, TypeOK, PublishInv, InPublish
        <3>2. ASSUME NEW k \in 1 .. CopyCount PROVE Copies[k] \in Deliveries
            <4>1. CASE k <= queue_checkpoint
                <5>1. Copies[k] = queue[k]
                    BY <2>1, <4>1 DEF Copies
                <5>. QED  BY <3>1, <4>1, <5>1
            <4>2. CASE k > queue_checkpoint
                <5>1. Copies[k] = staged_listeners[k - queue_checkpoint]
                    BY <2>1, <3>1, <4>2 DEF Copies
                <5>. QED  BY <3>1, <4>2, <5>1
            <4>. QED  BY <3>1, <4>1, <4>2
        <3>. QED  BY <3>1, <3>2
    <2>2. CASE ~InPublish
        BY <2>2 DEF CopyCount, Copies, IInv, TypeOK
    <2>. QED  BY <2>1, <2>2
<1>. QED  BY <1>1 DEF IInv, ArenaInv, PayloadsInBounds, PayloadsDisjoint, EndOfCopies, Chain

\* In the next state too a chain is what ArenaInv asks for.
LEMMA ChainArenaInv ==
    ASSUME Chain(Copies, CopyCount, payload_arena)',
           active_listener' # Null => \E k \in 1 .. CopyCount' : Copies'[k] = active_listener'
    PROVE  ArenaInv'
BY DEF ArenaInv, PayloadsInBounds, PayloadsDisjoint, EndOfCopies, Chain

\* ArenaInv depends on the copies, their arena and the active one only.
LEMMA SameArenaInv ==
    ASSUME IInv, CopyCount' = CopyCount, payload_arena' = payload_arena,
           \A k \in 1 .. CopyCount : Copies'[k] = Copies[k],
           active_listener' = active_listener
    PROVE  ArenaInv'
<1>1. Chain(Copies, CopyCount, payload_arena) /\ CopyCount \in Nat
    BY CopiesChain
<1>2. Chain(Copies', CopyCount, payload_arena)
    <2>. HIDE DEF CopyCount
    <2>. QED  BY <1>1 DEF Chain
<1>3. active_listener # Null => \E k \in 1 .. CopyCount : Copies[k] = active_listener
    BY DEF IInv, ArenaInv, PayloadsInBounds
<1>. QED  BY <1>2, <1>3, ChainArenaInv

-----------------------------------------------------------------------------
(* The loops of event_bus_publish                                          *)

\* What IInv says while event_bus_publish runs.
LEMMA DuringPublish ==
    ASSUME IInv, InPublish
    PROVE  /\ live
           /\ IsArena(payload_arena)
           /\ payload_arena.capacity = EventArenaSize
           /\ context.code \in Codes
           /\ context.publisher \in Publishers
           /\ context.alignment \in Alignments
           /\ context.payload \in ByteString
           /\ Len(context.payload) \in Nat \ {0}
           /\ Recipients \in Seq(Listeners)
           /\ Len(Recipients) \in Nat
           /\ queue_checkpoint \in Nat
           /\ queue_checkpoint + Len(Recipients) <= MaxQueuedDeliveries
           /\ Len(staged_listeners) \in Nat
           /\ Len(queue) \in Nat
<1>1. live /\ IsArena(payload_arena) /\ payload_arena.capacity = EventArenaSize
    BY DEF IInv, InPublish, ControlInv, ImplOutlivesCalls
<1>2. /\ context.code \in Codes
      /\ context.publisher \in Publishers
      /\ context.alignment \in Alignments
      /\ context.payload \in ByteString
      /\ Len(context.payload) \in Nat \ {0}
    BY DEF IInv, PublishInv, ContextsOver, ByteString
<1>3. Recipients \in Seq(Listeners)
    BY <1>2 DEF IInv, TypeOK, Recipients
<1>. QED  BY <1>1, <1>2, <1>3 DEF IInv, PublishInv, TypeOK

\* memcpy into the buffer leaves bytes in it.
LEMMA CopiedType ==
    ASSUME TypeOK, NEW bytes \in ByteString, NEW address
    PROVE  Copied(bytes, address) \in [Offsets -> Bytes \cup {Junk}]
<1>1. ASSUME NEW offset \in Offsets
      PROVE  LET k == offset - (address - payload_arena.buffer) + 1
             IN  (IF k \in 1 .. Len(bytes) THEN bytes[k] ELSE memory[offset])
                    \in Bytes \cup {Junk}
    <2>. DEFINE k == offset - (address - payload_arena.buffer) + 1
    <2>1. CASE k \in 1 .. Len(bytes)
        <3>. HIDE DEF k
        <3>1. bytes[k] \in Bytes \cup {Junk}
            BY <2>1 DEF ByteString
        <3>. QED  BY <2>1, <3>1 DEF k
    <2>2. CASE ~(k \in 1 .. Len(bytes))
        BY <2>2 DEF TypeOK
    <2>. QED  BY <2>1, <2>2
<1>. QED  BY <1>1, Zenon DEF Copied

\* The bytes that survive a rollback of the arena.
LEMMA ForgottenType ==
    ASSUME TypeOK, NEW size
    PROVE  Forgotten(size) \in [Offsets -> Bytes \cup {Junk}]
BY DEF TypeOK, Forgotten

\* The first loop of event_bus_publish adds one copy, above those there are.
LEMMA StagedCopy ==
    ASSUME IInv, StageCopy
    PROVE  /\ InPublish /\ InPublish'
           /\ pc = "stage"
           /\ Len(queue) = queue_checkpoint
           /\ Len(staged_listeners) < Len(Recipients)
           /\ Recipients' = Recipients
           /\ context.alignment \in Word
           /\ IsArena(payload_arena')
           /\ payload_arena'.buffer = payload_arena.buffer
           /\ payload_arena'.capacity = payload_arena.capacity
           /\ payload_arena'.size >= payload_arena.size
           /\ StagedDelivery.payload \in Word
           /\ StagedDelivery.payload >= payload_arena.buffer + payload_arena.size
           /\ StagedDelivery.payload % context.alignment = 0
           /\ PayloadEnd(StagedDelivery) = payload_arena'.buffer + payload_arena'.size
           /\ StagedDelivery \in Deliveries
           /\ StagedDelivery.alignment = context.alignment
           /\ staged_listeners \in Seq(Deliveries)
           /\ staged_listeners' = Append(staged_listeners, StagedDelivery)
           /\ Len(staged_listeners') = Len(staged_listeners) + 1
           /\ CopyCount' = CopyCount + 1
           /\ \A k \in 1 .. CopyCount : Copies'[k] = Copies[k]
           /\ Copies'[CopyCount + 1] = StagedDelivery
<1>. USE Constants DEF StageCopy, processVars
<1>. DEFINE size  == Len(context.payload)
            staged == StagedDelivery
            n     == CopyCount
<1>1. /\ InPublish /\ InPublish'
      /\ pc = "stage"
      /\ Len(queue) = queue_checkpoint
      /\ Len(staged_listeners) < Len(Recipients)
      /\ Recipients' = Recipients
    BY DEF InPublish, IInv, PublishInv, Recipients
<1>2. context.alignment \in Word
    <2>1. PICK event \in Events : context.alignment = event.alignment
        BY <1>1, DuringPublish DEF Alignments
    <2>. QED  BY <2>1, EventsAssumption
<1>3. /\ IsArena(payload_arena')
      /\ payload_arena'.buffer = payload_arena.buffer
      /\ payload_arena'.capacity = payload_arena.capacity
      /\ payload_arena'.size >= payload_arena.size
      /\ staged.payload \in Word
      /\ staged.payload >= payload_arena.buffer + payload_arena.size
      /\ staged.payload % context.alignment = 0
      /\ PayloadEnd(staged) = payload_arena'.buffer + payload_arena'.size
    <2>. DEFINE arena     == payload_arena
                alignment == context.alignment
                after     == AfterAlloc(arena, size, alignment)
                address   == BlockAddress(arena, alignment)
    <2>1. /\ IsArena(arena)
          /\ size \in Nat
          /\ alignment \in Word
          /\ CanAlloc(arena, size, alignment)
          /\ payload_arena' = after
        BY <1>1, <1>2, DuringPublish
    <2>2. staged.payload = address /\ staged.size = size
        BY DEF StagedDelivery, Delivery
    <2>. HIDE DEF size, staged, arena, alignment, StageCopy
    <2>3. /\ IsArena(after)
          /\ after.buffer = arena.buffer
          /\ after.capacity = arena.capacity
          /\ after.size >= arena.size
          /\ address + size = after.buffer + after.size
        BY <2>1, AllocatedBlock
    <2>4. /\ address \in Word
          /\ address % alignment = 0
          /\ address >= arena.buffer + arena.size
        BY <2>1, AlignedAddress
    <2>. HIDE DEF after, address
    <2>. QED  BY <2>1, <2>2, <2>3, <2>4 DEF arena, alignment, PayloadEnd
<1>4. staged \in Deliveries /\ staged.alignment = context.alignment
    <2>1. Recipients[Len(staged_listeners) + 1] \in Listeners
        BY <1>1, DuringPublish
    <2>. QED
        BY <1>1, <1>3, <2>1, DuringPublish
        DEF StagedDelivery, Delivery, Deliveries, Listeners
<1>5. /\ staged_listeners \in Seq(Deliveries)
      /\ staged_listeners' = Append(staged_listeners, staged)
      /\ Len(staged_listeners') = Len(staged_listeners) + 1
      /\ CopyCount' = n + 1
      /\ \A k \in 1 .. n : Copies'[k] = Copies[k]
      /\ Copies'[n + 1] = staged
    <2>. HIDE DEF staged
    <2>1. /\ staged_listeners \in Seq(Deliveries)
          /\ staged_listeners' = Append(staged_listeners, staged)
        BY DEF IInv, TypeOK, staged
    <2>2. /\ Len(staged_listeners') = Len(staged_listeners) + 1
          /\ \A k \in 1 .. Len(staged_listeners) : staged_listeners'[k] = staged_listeners[k]
          /\ staged_listeners'[Len(staged_listeners) + 1] = staged
        BY <1>4, <2>1
    <2>3. /\ n = queue_checkpoint + Len(staged_listeners)
          /\ CopyCount' = n + 1
          /\ queue_checkpoint \in Nat /\ Len(staged_listeners) \in Nat
        BY <1>1, <2>2, DuringPublish DEF CopyCount
    <2>4. ASSUME NEW k \in 1 .. n PROVE Copies'[k] = Copies[k]
        <3>. HIDE DEF n
        <3>1. Copies'[k] = IF k <= queue_checkpoint THEN queue[k]
                           ELSE staged_listeners'[k - queue_checkpoint]
            BY SMTT(30), <1>1, <2>3 DEF Copies
        <3>2. Copies[k] = IF k <= queue_checkpoint THEN queue[k]
                          ELSE staged_listeners[k - queue_checkpoint]
            BY <1>1 DEF Copies, n
        <3>. QED  BY <2>2, <2>3, <3>1, <3>2
    <2>5. Copies'[n + 1] = staged
        <3>. HIDE DEF n
        <3>1. Copies'[n + 1] = staged_listeners'[(n + 1) - queue_checkpoint]
            BY SMTT(30), <1>1, <2>3 DEF Copies
        <3>. QED  BY <2>2, <2>3, <3>1
    <2>. QED  BY <2>1, <2>2, <2>3, <2>4, <2>5
<1>. HIDE DEF staged, n
<1>. QED  BY <1>1, <1>2, <1>3, <1>4, <1>5 DEF staged, n

LEMMA StageCopyStep ==
    ASSUME IInv, StageCopy
    PROVE  IInv'
<1>. USE Constants DEF StageCopy, processVars
<1>. DEFINE size  == Len(context.payload)
            staged == StagedDelivery
            n     == CopyCount
<1>1. /\ InPublish /\ InPublish'
      /\ pc = "stage"
      /\ Len(queue) = queue_checkpoint
      /\ Len(staged_listeners) < Len(Recipients)
      /\ Recipients' = Recipients
    BY StagedCopy
<1>3. /\ IsArena(payload_arena')
      /\ payload_arena'.buffer = payload_arena.buffer
      /\ payload_arena'.capacity = payload_arena.capacity
      /\ payload_arena'.size >= payload_arena.size
      /\ staged.payload \in Word
      /\ staged.payload >= payload_arena.buffer + payload_arena.size
      /\ staged.payload % context.alignment = 0
      /\ PayloadEnd(staged) = payload_arena'.buffer + payload_arena'.size
    BY StagedCopy
<1>4. staged \in Deliveries /\ staged.alignment = context.alignment
    BY StagedCopy
<1>5. /\ staged_listeners \in Seq(Deliveries)
      /\ staged_listeners' = Append(staged_listeners, staged)
      /\ Len(staged_listeners') = Len(staged_listeners) + 1
      /\ CopyCount' = n + 1
      /\ \A k \in 1 .. n : Copies'[k] = Copies[k]
      /\ Copies'[n + 1] = staged
    BY StagedCopy
<1>6. TypeOK'
    <2>1. staged_listeners' \in Seq(Deliveries)
        BY <1>4, <1>5
    <2>2. memory' \in [Offsets -> Bytes \cup {Junk}]
        BY <1>1, DuringPublish, CopiedType DEF IInv
    <2>. QED  BY <1>3, <2>1, <2>2 DEF IInv, TypeOK, IsArena
<1>7. ControlInv'
    BY <1>1, <1>3 DEF IInv, ControlInv, ImplOutlivesCalls, CommittedCount
<1>8. ArenaInv'
    <2>1. Chain(Copies', n + 1, payload_arena')
        <3>. HIDE DEF staged, n
        <3>. QED  BY <1>1, <1>3, <1>4, <1>5, DuringPublish, CopiesChain, ChainAppend DEF n
    <2>2. active_listener # Null => \E k \in 1 .. n : Copies[k] = active_listener
        BY DEF IInv, ArenaInv, PayloadsInBounds
    <2>3. n \in Nat
        BY CopiesChain
    <2>. HIDE DEF staged, n
    <2>. QED  BY <1>5, <2>1, <2>2, <2>3, ChainArenaInv
<1>9. PublishInv'
    <2>1. EndOfCopies(queue_checkpoint)' = EndOfCopies(queue_checkpoint)
        <3>1. queue_checkpoint # 0 => Copies'[queue_checkpoint] = Copies[queue_checkpoint]
            BY <1>1, <1>5, DuringPublish DEF CopyCount
        <3>. QED  BY <1>3, <3>1 DEF EndOfCopies, PayloadEnd
    <2>2. Len(staged_listeners') <= Len(Recipients)
        BY <1>1, <1>5, DuringPublish
    <2>. QED
        BY <1>1, <1>3, <1>5, <2>1, <2>2, DuringPublish DEF IInv, PublishInv, ByteString
<1>10. QueueNeverReallocates' /\ NoDuplicateListeners'
    BY <1>1, <1>5, DuringPublish
    DEF IInv, QueueNeverReallocates, NoDuplicateListeners, CopyCount
<1>. QED  BY <1>6, <1>7, <1>8, <1>9, <1>10 DEF IInv

\* A copy that does not fit: the arena and the copies are those on entry.
LEMMA RolledBack ==
    ASSUME IInv, StageFails
    PROVE  /\ InPublish /\ ~InPublish'
           /\ pc' = IF processing THEN "callback" ELSE "app"
           /\ Len(queue) = queue_checkpoint
           /\ queue' = queue
           /\ staged_listeners' = <<>>
           /\ payload_arena \in [buffer : Word, capacity : Word, size : Word]
           /\ arena_checkpoint \in Word
           /\ payload_arena' = [payload_arena EXCEPT !.size = arena_checkpoint]
           /\ payload_arena'.buffer = payload_arena.buffer
           /\ payload_arena'.capacity = payload_arena.capacity
           /\ payload_arena'.size = arena_checkpoint
           /\ payload_arena' \in [buffer : Word, capacity : Word, size : Word]
           /\ CopyCount' = queue_checkpoint
           /\ queue_checkpoint \in 0 .. CopyCount
           /\ \A k \in 1 .. queue_checkpoint : Copies'[k] = Copies[k]
           /\ \A k \in 1 .. queue_checkpoint : Copies'[k] = queue[k]
           /\ Chain(Copies', CopyCount', payload_arena')
           /\ payload_arena'.size <= payload_arena.size
           /\ IsArena(payload_arena')
<1>. USE Constants DEF StageFails, PublishReturns, RewindArena, Caller, processVars
<1>1. /\ InPublish /\ ~InPublish'
      /\ pc' = IF processing THEN "callback" ELSE "app"
      /\ Len(queue) = queue_checkpoint
      /\ queue' = queue
      /\ staged_listeners' = <<>>
    BY DEF InPublish, IInv, PublishInv
<1>2. /\ payload_arena \in [buffer : Word, capacity : Word, size : Word]
      /\ arena_checkpoint \in Word
      /\ payload_arena' = [payload_arena EXCEPT !.size = arena_checkpoint]
    BY DEF IInv, TypeOK, Rewind
<1>3. /\ payload_arena'.buffer = payload_arena.buffer
      /\ payload_arena'.capacity = payload_arena.capacity
      /\ payload_arena'.size = arena_checkpoint
      /\ payload_arena' \in [buffer : Word, capacity : Word, size : Word]
    BY <1>2
<1>4. /\ CopyCount' = queue_checkpoint
      /\ queue_checkpoint \in 0 .. CopyCount
      /\ \A k \in 1 .. queue_checkpoint : Copies'[k] = Copies[k]
      /\ \A k \in 1 .. queue_checkpoint : Copies'[k] = queue[k]
    BY <1>1, DuringPublish DEF CopyCount, Copies
<1>5. /\ Chain(Copies', CopyCount', payload_arena')
      /\ payload_arena'.size <= payload_arena.size
    <2>1. payload_arena'.buffer + payload_arena'.size =
            IF queue_checkpoint = 0 THEN payload_arena.buffer
            ELSE PayloadEnd(Copies[queue_checkpoint])
        BY <1>1, <1>3 DEF IInv, PublishInv, EndOfCopies
    <2>2. /\ IsArena(payload_arena)
          /\ Chain(Copies, CopyCount, payload_arena)
          /\ CopyCount \in Nat
          /\ payload_arena'.size \in Nat
        BY <1>1, <1>2, <1>3, DuringPublish, CopiesChain
    <2>3. /\ Chain(Copies', queue_checkpoint, payload_arena')
          /\ payload_arena'.size <= payload_arena.size
        BY <1>3, <1>4, <2>1, <2>2, ChainPrefix
    <2>. QED  BY <1>4, <2>3
<1>6. IsArena(payload_arena')
    <2>1. /\ IsArena(payload_arena)
          /\ payload_arena.size \in Nat /\ payload_arena'.size \in Nat
          /\ payload_arena.capacity \in Nat
        BY <1>1, <1>2, <1>3, DuringPublish
    <2>. QED  BY <1>3, <1>5, <2>1 DEF IsArena
<1>. QED  BY <1>1, <1>2, <1>3, <1>4, <1>5, <1>6

LEMMA StageFailsStep ==
    ASSUME IInv, StageFails
    PROVE  IInv'
<1>. USE Constants DEF StageFails, PublishReturns, RewindArena, Caller, processVars
<1>1. /\ InPublish /\ ~InPublish'
      /\ pc' = IF processing THEN "callback" ELSE "app"
      /\ Len(queue) = queue_checkpoint
      /\ queue' = queue
      /\ staged_listeners' = <<>>
    BY RolledBack
<1>2. /\ payload_arena \in [buffer : Word, capacity : Word, size : Word]
      /\ arena_checkpoint \in Word
      /\ payload_arena' = [payload_arena EXCEPT !.size = arena_checkpoint]
    BY RolledBack
<1>3. /\ payload_arena'.buffer = payload_arena.buffer
      /\ payload_arena'.capacity = payload_arena.capacity
      /\ payload_arena'.size = arena_checkpoint
      /\ payload_arena' \in [buffer : Word, capacity : Word, size : Word]
    BY RolledBack
<1>4. /\ CopyCount' = queue_checkpoint
      /\ queue_checkpoint \in 0 .. CopyCount
      /\ \A k \in 1 .. queue_checkpoint : Copies'[k] = Copies[k]
      /\ \A k \in 1 .. queue_checkpoint : Copies'[k] = queue[k]
    BY RolledBack
<1>5. /\ Chain(Copies', CopyCount', payload_arena')
      /\ payload_arena'.size <= payload_arena.size
    BY RolledBack
<1>6. IsArena(payload_arena')
    BY RolledBack
<1>7. TypeOK'
    <2>1. memory' \in [Offsets -> Bytes \cup {Junk}]
        BY ForgottenType DEF IInv
    <2>2. /\ pc' \in {"app", "callback"} /\ result' \in BOOLEAN
          /\ context' = Null /\ staged_listeners' = <<>>
          /\ queue_checkpoint' = 0 /\ arena_checkpoint' = 0
        OBVIOUS
    <2>3. UNCHANGED <<live, registry, queue, queue_capacity, processing,
                      destroy_requested, cursor, active_listener, received>>
        OBVIOUS
    <2>. HIDE DEF StageFails, PublishReturns, RewindArena
    <2>. QED  BY <1>3, <2>1, <2>2, <2>3 DEF IInv, TypeOK
<1>8. ControlInv'
    BY <1>1, <1>3, <1>6 DEF IInv, ControlInv, ImplOutlivesCalls, CommittedCount
<1>9. PublishInv'
    BY <1>1 DEF PublishInv, InPublish
<1>10. ArenaInv'
    <2>1. active_listener' # Null => \E k \in 1 .. CopyCount' : Copies'[k] = active_listener'
        <3>1. active_listener # Null =>
                /\ cursor < queue_checkpoint
                /\ active_listener = queue[cursor + 1]
            BY <1>1 DEF IInv, ControlInv, CommittedCount
        <3>2. cursor \in Nat /\ queue_checkpoint \in Nat
            BY DEF IInv, TypeOK
        <3>. QED  BY <1>4, <3>1, <3>2
    <2>. QED  BY <1>5, <2>1, ChainArenaInv
<1>11. QueueNeverReallocates' /\ NoDuplicateListeners'
    BY <1>1, <1>4, DuringPublish DEF IInv, QueueNeverReallocates, NoDuplicateListeners
<1>. QED  BY <1>7, <1>8, <1>9, <1>10, <1>11 DEF IInv

\* The second loop of event_bus_publish pushes the next staged delivery; its
\* push does not fail.
LEMMA PushedCopy ==
    ASSUME IInv, EnqueueCopy
    PROVE  /\ InPublish
           /\ pc = "enqueue"
           /\ Len(queue) >= queue_checkpoint
           /\ Len(queue) < queue_checkpoint + Len(Recipients)
           /\ Len(staged_listeners) = Len(Recipients)
           /\ \A k \in queue_checkpoint + 1 .. Len(queue) :
                 queue[k] = staged_listeners[k - queue_checkpoint]
           /\ queue_checkpoint \in Nat /\ Len(queue) \in Nat /\ Len(Recipients) \in Nat
           /\ queue \in Seq(Deliveries)
           /\ staged_listeners \in Seq(Deliveries)
           /\ queue_checkpoint + Len(Recipients) <= MaxQueuedDeliveries
           /\ CopyCount = queue_checkpoint + Len(Recipients)
           /\ queue' = Append(queue, staged_listeners[Enqueued + 1])
           /\ queue_capacity' = queue_capacity
           /\ IF Enqueued + 1 < Len(Recipients)
              THEN UNCHANGED <<pc, result, publishVars>>
              ELSE PublishReturns(TRUE)
           /\ UNCHANGED <<payload_arena, memory>>
           /\ Enqueued \in Nat
           /\ Enqueued + 1 \in 1 .. Len(staged_listeners)
           /\ Enqueued + 1 = (Len(queue) + 1) - queue_checkpoint
           /\ staged_listeners[Enqueued + 1] \in Deliveries
           /\ queue' \in Seq(Deliveries)
           /\ Len(queue') = Len(queue) + 1
           /\ \A k \in 1 .. Len(queue) : queue'[k] = queue[k]
           /\ queue'[Len(queue) + 1] = staged_listeners[Enqueued + 1]
           /\ \A k \in 1 .. queue_checkpoint : Copies[k] = queue[k] /\ queue'[k] = queue[k]
           /\ \A k \in queue_checkpoint + 1 .. CopyCount :
                 Copies[k] = staged_listeners[k - queue_checkpoint]
           /\ \A k \in queue_checkpoint + 1 .. Len(queue') :
                 queue'[k] = staged_listeners[k - queue_checkpoint]
<1>. USE Constants DEF EnqueueCopy, processVars
<1>. DEFINE m == queue_checkpoint
            delivery == staged_listeners[Enqueued + 1]
<1>1. /\ InPublish
      /\ pc = "enqueue"
      /\ Len(queue) >= m
      /\ Len(queue) < m + Len(Recipients)
      /\ Len(staged_listeners) = Len(Recipients)
      /\ \A k \in m + 1 .. Len(queue) : queue[k] = staged_listeners[k - m]
    BY DEF InPublish, IInv, PublishInv
<1>2. /\ m \in Nat /\ Len(queue) \in Nat /\ Len(Recipients) \in Nat
      /\ queue \in Seq(Deliveries)
      /\ staged_listeners \in Seq(Deliveries)
      /\ m + Len(Recipients) <= MaxQueuedDeliveries
      /\ CopyCount = m + Len(Recipients)
    BY <1>1, DuringPublish DEF IInv, TypeOK, CopyCount
\* The array never has to grow: the call cannot fail here.
<1>3. /\ queue' = Append(queue, delivery)
      /\ queue_capacity' = queue_capacity
      /\ IF Enqueued + 1 < Len(Recipients)
         THEN UNCHANGED <<pc, result, publishVars>>
         ELSE PublishReturns(TRUE)
      /\ UNCHANGED <<payload_arena, memory>>
    <2>1. Len(queue) # queue_capacity
        <3>1. live /\ Len(queue) < queue_capacity
            BY <1>1, DuringPublish DEF IInv, QueueNeverReallocates
        <3>. QED  BY <1>2, <3>1 DEF IInv, TypeOK
    <2>. QED  BY <2>1
<1>4. /\ Enqueued \in Nat
      /\ Enqueued + 1 \in 1 .. Len(staged_listeners)
      /\ Enqueued + 1 = (Len(queue) + 1) - m
      /\ delivery \in Deliveries
    <2>1. /\ Enqueued \in Nat
          /\ Enqueued + 1 \in 1 .. Len(staged_listeners)
          /\ Enqueued + 1 = (Len(queue) + 1) - m
        BY <1>1, <1>2 DEF Enqueued
    <2>. QED  BY <1>2, <2>1
<1>5. /\ queue' \in Seq(Deliveries)
      /\ Len(queue') = Len(queue) + 1
      /\ \A k \in 1 .. Len(queue) : queue'[k] = queue[k]
      /\ queue'[Len(queue) + 1] = delivery
    <2>. HIDE DEF delivery
    <2>. QED  BY <1>2, <1>3, <1>4
<1>6. \A k \in 1 .. m : Copies[k] = queue[k] /\ queue'[k] = queue[k]
    BY <1>1, <1>2, <1>5 DEF Copies
<1>7. \A k \in m + 1 .. CopyCount : Copies[k] = staged_listeners[k - m]
    BY <1>1, <1>2 DEF Copies
<1>8. \A k \in m + 1 .. Len(queue') : queue'[k] = staged_listeners[k - m]
    <2>1. ASSUME NEW k \in m + 1 .. Len(queue') PROVE queue'[k] = staged_listeners[k - m]
        <3>1. CASE k = Len(queue) + 1
            BY <1>4, <1>5, <3>1
        <3>2. CASE k # Len(queue) + 1
            <4>1. k \in m + 1 .. Len(queue) /\ k \in 1 .. Len(queue)
                BY <1>2, <1>5, <3>2
            <4>. QED  BY <1>1, <1>5, <4>1
        <3>. QED  BY <3>1, <3>2
    <2>. QED  BY <2>1
<1>. HIDE DEF m, delivery
<1>. QED
    BY <1>1, <1>2, <1>3, <1>4, <1>5, <1>6, <1>7, <1>8, Zenon DEF m, delivery

\* Pushing a staged delivery moves no copy.
LEMMA PushKeepsCopies ==
    ASSUME IInv, EnqueueCopy
    PROVE  /\ CopyCount' = CopyCount
           /\ \A k \in 1 .. CopyCount : Copies'[k] = Copies[k]
<1>. USE Constants DEF EnqueueCopy, processVars
<1>. DEFINE m == queue_checkpoint
            delivery == staged_listeners[Enqueued + 1]
<1>1. /\ InPublish
      /\ pc = "enqueue"
      /\ Len(queue) >= m
      /\ Len(queue) < m + Len(Recipients)
      /\ Len(staged_listeners) = Len(Recipients)
      /\ \A k \in m + 1 .. Len(queue) : queue[k] = staged_listeners[k - m]
    BY PushedCopy
<1>2. /\ m \in Nat /\ Len(queue) \in Nat /\ Len(Recipients) \in Nat
      /\ queue \in Seq(Deliveries)
      /\ staged_listeners \in Seq(Deliveries)
      /\ m + Len(Recipients) <= MaxQueuedDeliveries
      /\ CopyCount = m + Len(Recipients)
    BY PushedCopy
<1>3. /\ queue' = Append(queue, delivery)
      /\ queue_capacity' = queue_capacity
      /\ IF Enqueued + 1 < Len(Recipients)
         THEN UNCHANGED <<pc, result, publishVars>>
         ELSE PublishReturns(TRUE)
      /\ UNCHANGED <<payload_arena, memory>>
    BY PushedCopy
<1>4. /\ Enqueued \in Nat
      /\ Enqueued + 1 \in 1 .. Len(staged_listeners)
      /\ Enqueued + 1 = (Len(queue) + 1) - m
      /\ delivery \in Deliveries
    BY PushedCopy
<1>5. /\ queue' \in Seq(Deliveries)
      /\ Len(queue') = Len(queue) + 1
      /\ \A k \in 1 .. Len(queue) : queue'[k] = queue[k]
      /\ queue'[Len(queue) + 1] = delivery
    BY PushedCopy
<1>6. \A k \in 1 .. m : Copies[k] = queue[k] /\ queue'[k] = queue[k]
    BY PushedCopy
<1>7. \A k \in m + 1 .. CopyCount : Copies[k] = staged_listeners[k - m]
    BY PushedCopy
<1>8. \A k \in m + 1 .. Len(queue') : queue'[k] = staged_listeners[k - m]
    BY PushedCopy
<1>10. CASE Enqueued + 1 < Len(Recipients)
    <2>1. /\ UNCHANGED <<pc, result, publishVars>>
          /\ UNCHANGED <<context, staged_listeners, queue_checkpoint, arena_checkpoint>>
          /\ registry' = registry
        BY <1>3, <1>10 DEF publishVars
    <2>2. InPublish' /\ pc' = "enqueue"
        BY <1>1, <2>1 DEF InPublish
    <2>3. Recipients' = Recipients /\ CopyCount' = CopyCount
        BY <1>1, <2>1, <2>2 DEF Recipients, CopyCount
    <2>4. Len(queue') < m + Len(Recipients)
        BY <1>2, <1>4, <1>5, <1>10
    <2>5. /\ UNCHANGED <<pc, result, publishVars>>
          /\ queue_checkpoint' = m
          /\ staged_listeners' = staged_listeners
          /\ InPublish' /\ pc' = "enqueue"
          /\ Recipients' = Recipients
          /\ Len(queue') < m + Len(Recipients)
          /\ CopyCount' = CopyCount
        BY <2>1, <2>2, <2>3, <2>4
    <2>6. \A k \in 1 .. CopyCount : Copies'[k] = Copies[k]
        <3>1. ASSUME NEW k \in 1 .. CopyCount PROVE Copies'[k] = Copies[k]
            <4>1. CASE k <= m
                <5>1. Copies'[k] = queue'[k]
                    BY <1>2, <2>5, <4>1 DEF Copies
                <5>. QED  BY <1>2, <1>6, <4>1, <5>1
            <4>2. CASE k > m
                <5>1. Copies'[k] = staged_listeners'[k - m]
                    BY <1>2, <2>5, <4>2 DEF Copies
                <5>. QED  BY <1>2, <1>7, <2>5, <4>2, <5>1
            <4>. QED  BY <1>2, <4>1, <4>2
        <3>. QED  BY <3>1
    <2>. QED  BY <2>5, <2>6
<1>11. CASE ~(Enqueued + 1 < Len(Recipients))
    <2>1. /\ Len(queue') = CopyCount
          /\ ~InPublish'
          /\ pc' = (IF processing THEN "callback" ELSE "app")
          /\ staged_listeners' = <<>>
          /\ CopyCount' = CopyCount
          /\ Copies' = queue'
        <3>1. Len(queue') = CopyCount
            BY <1>1, <1>2, <1>4, <1>5, <1>11
        <3>2. PublishReturns(TRUE)
            BY <1>3, <1>11
        <3>3. /\ pc' = (IF processing THEN "callback" ELSE "app")
              /\ staged_listeners' = <<>>
            BY <3>2 DEF PublishReturns, Caller
        <3>4. ~InPublish'
            BY <3>3 DEF InPublish
        <3>. QED  BY <3>1, <3>3, <3>4 DEF CopyCount, Copies
    <2>2. \A k \in 1 .. CopyCount : Copies'[k] = Copies[k]
        <3>1. ASSUME NEW k \in 1 .. CopyCount PROVE Copies'[k] = Copies[k]
            <4>1. CASE k <= m
                BY <1>2, <1>6, <2>1, <4>1
            <4>2. CASE k > m
                BY <1>2, <1>7, <1>8, <2>1, <4>2
            <4>. QED  BY <1>2, <4>1, <4>2
        <3>. QED  BY <3>1
    <2>. QED  BY <2>1, <2>2
<1>. QED  BY <1>10, <1>11

LEMMA EnqueueCopyStep ==
    ASSUME IInv, EnqueueCopy
    PROVE  IInv'
<1>. USE Constants DEF EnqueueCopy, processVars
<1>. DEFINE m == queue_checkpoint
            delivery == staged_listeners[Enqueued + 1]
<1>1. /\ InPublish
      /\ pc = "enqueue"
      /\ Len(queue) >= m
      /\ Len(queue) < m + Len(Recipients)
      /\ Len(staged_listeners) = Len(Recipients)
      /\ \A k \in m + 1 .. Len(queue) : queue[k] = staged_listeners[k - m]
    BY PushedCopy
<1>2. /\ m \in Nat /\ Len(queue) \in Nat /\ Len(Recipients) \in Nat
      /\ queue \in Seq(Deliveries)
      /\ staged_listeners \in Seq(Deliveries)
      /\ m + Len(Recipients) <= MaxQueuedDeliveries
      /\ CopyCount = m + Len(Recipients)
    BY PushedCopy
<1>3. /\ queue' = Append(queue, delivery)
      /\ queue_capacity' = queue_capacity
      /\ IF Enqueued + 1 < Len(Recipients)
         THEN UNCHANGED <<pc, result, publishVars>>
         ELSE PublishReturns(TRUE)
      /\ UNCHANGED <<payload_arena, memory>>
    BY PushedCopy
<1>4. /\ Enqueued \in Nat
      /\ Enqueued + 1 \in 1 .. Len(staged_listeners)
      /\ Enqueued + 1 = (Len(queue) + 1) - m
      /\ delivery \in Deliveries
    BY PushedCopy
<1>5. /\ queue' \in Seq(Deliveries)
      /\ Len(queue') = Len(queue) + 1
      /\ \A k \in 1 .. Len(queue) : queue'[k] = queue[k]
      /\ queue'[Len(queue) + 1] = delivery
    BY PushedCopy
<1>6. \A k \in 1 .. m : Copies[k] = queue[k] /\ queue'[k] = queue[k]
    BY PushedCopy
<1>7. \A k \in m + 1 .. CopyCount : Copies[k] = staged_listeners[k - m]
    BY PushedCopy
<1>8. \A k \in m + 1 .. Len(queue') : queue'[k] = staged_listeners[k - m]
    BY PushedCopy
<1>9. TypeOK'
    <2>1. CASE Enqueued + 1 < Len(Recipients)
        BY <1>3, <1>5, <2>1 DEF IInv, TypeOK, publishVars
    <2>2. CASE ~(Enqueued + 1 < Len(Recipients))
        <3>1. /\ pc' \in {"app", "callback"} /\ result' = TRUE
              /\ context' = Null /\ staged_listeners' = <<>>
              /\ queue_checkpoint' = 0 /\ arena_checkpoint' = 0
            BY <1>3, <2>2 DEF PublishReturns, Caller
        <3>. QED  BY <1>3, <1>5, <3>1 DEF IInv, TypeOK
    <2>. QED  BY <2>1, <2>2
<1>10. CASE Enqueued + 1 < Len(Recipients)
    <2>1. /\ UNCHANGED <<pc, result, publishVars>>
          /\ UNCHANGED <<context, staged_listeners, queue_checkpoint, arena_checkpoint>>
          /\ registry' = registry
        BY <1>3, <1>10 DEF publishVars
    <2>2. InPublish' /\ pc' = "enqueue"
        BY <1>1, <2>1 DEF InPublish
    <2>3. Recipients' = Recipients /\ CopyCount' = CopyCount
        BY <1>1, <2>1, <2>2 DEF Recipients, CopyCount
    <2>4. Len(queue') < m + Len(Recipients)
        BY <1>2, <1>4, <1>5, <1>10
    <2>5. /\ UNCHANGED <<pc, result, publishVars>>
          /\ queue_checkpoint' = m
          /\ staged_listeners' = staged_listeners
          /\ InPublish' /\ pc' = "enqueue"
          /\ Recipients' = Recipients
          /\ Len(queue') < m + Len(Recipients)
          /\ CopyCount' = CopyCount
        BY <2>1, <2>2, <2>3, <2>4
    <2>6. \A k \in 1 .. CopyCount : Copies'[k] = Copies[k]
        BY PushKeepsCopies
    <2>7. ControlInv'
        <3>1. cursor \in Nat /\ (cursor < m => queue'[cursor + 1] = queue[cursor + 1])
            BY SMTT(30), <1>2, <1>6 DEF IInv, TypeOK
        <3>. QED
            BY <1>1, <1>3, <2>5, <3>1
            DEF IInv, ControlInv, ImplOutlivesCalls, CommittedCount, publishVars
    <2>8. PublishInv'
        <3>1. EndOfCopies(queue_checkpoint)' = EndOfCopies(queue_checkpoint)
            <4>1. m # 0 => Copies'[m] = Copies[m]
                BY <1>2, <2>6
            <4>. QED  BY <1>3, <2>5, <4>1 DEF EndOfCopies, PayloadEnd, publishVars
        <3>. QED
            BY SMTT(30), <1>1, <1>2, <1>3, <1>5, <1>8, <2>5, <3>1
            DEF IInv, PublishInv, publishVars
    <2>9. ArenaInv'
        BY <1>3, <2>5, <2>6, SameArenaInv
    <2>10. QueueNeverReallocates' /\ NoDuplicateListeners'
        BY <1>1, <1>2, <1>3, <1>5, <2>5
        DEF IInv, QueueNeverReallocates, NoDuplicateListeners
    <2>. QED  BY <1>9, <2>7, <2>8, <2>9, <2>10 DEF IInv
<1>11. CASE ~(Enqueued + 1 < Len(Recipients))
    <2>1. /\ Len(queue') = CopyCount
          /\ ~InPublish'
          /\ pc' = (IF processing THEN "callback" ELSE "app")
          /\ staged_listeners' = <<>>
          /\ CopyCount' = CopyCount
          /\ Copies' = queue'
        <3>1. Len(queue') = CopyCount
            BY <1>1, <1>2, <1>4, <1>5, <1>11
        <3>2. PublishReturns(TRUE)
            BY <1>3, <1>11
        <3>3. /\ pc' = (IF processing THEN "callback" ELSE "app")
              /\ staged_listeners' = <<>>
            BY <3>2 DEF PublishReturns, Caller
        <3>4. ~InPublish'
            BY <3>3 DEF InPublish
        <3>. QED  BY <3>1, <3>3, <3>4 DEF CopyCount, Copies
    <2>2. \A k \in 1 .. CopyCount : Copies'[k] = Copies[k]
        BY PushKeepsCopies
    <2>3. ControlInv'
        <3>1. cursor \in Nat /\ (cursor < m => queue'[cursor + 1] = queue[cursor + 1])
            BY SMTT(30), <1>2, <1>6 DEF IInv, TypeOK
        <3>2. m <= Len(queue')
            BY <1>1, <1>2, <1>5
        <3>. QED
            BY <1>1, <1>2, <1>3, <1>5, <2>1, <3>1, <3>2
            DEF IInv, ControlInv, ImplOutlivesCalls, CommittedCount
    <2>4. PublishInv'
        BY <2>1 DEF PublishInv, InPublish
    <2>5. ArenaInv'
        BY <1>3, <2>1, <2>2, SameArenaInv
    <2>6. QueueNeverReallocates' /\ NoDuplicateListeners'
        BY <1>1, <1>2, <1>3, <1>5, <2>1
        DEF IInv, QueueNeverReallocates, NoDuplicateListeners
    <2>. QED  BY <1>9, <2>3, <2>4, <2>5, <2>6 DEF IInv
<1>. QED  BY <1>10, <1>11

-----------------------------------------------------------------------------
(* event_bus_process and its callbacks                                     *)

\* A queued delivery points to bytes of the buffer.
LEMMA QueuedContents ==
    ASSUME IInv, live, ~InPublish, NEW k \in 1 .. Len(queue)
    PROVE  /\ queue[k] \in Deliveries
           /\ Contents(queue[k]) \in ByteString
           /\ Len(Contents(queue[k])) = queue[k].size
<1>. DEFINE delivery == queue[k]
            at(j) == (delivery.payload - payload_arena.buffer) + (j - 1)
<1>1. delivery \in Deliveries
    BY DEF IInv, TypeOK
<1>2. /\ delivery.payload \in Nat
      /\ delivery.size \in Nat
    <2>1. delivery.payload \in Word /\ delivery.size \in Nat
        BY <1>1 DEF Deliveries
    <2>. HIDE DEF delivery
    <2>. QED  BY <2>1, Constants
<1>3. /\ payload_arena.buffer \in Nat
      /\ payload_arena.size \in Nat
      /\ payload_arena.size <= EventArenaSize
    BY Constants DEF IInv, ControlInv, IsArena
<1>4. /\ payload_arena.buffer <= delivery.payload
      /\ delivery.payload + delivery.size <= payload_arena.buffer + payload_arena.size
    BY DEF IInv, ArenaInv, PayloadsInBounds, CopyCount, Copies, PayloadEnd
<1>5. ASSUME NEW j \in 1 .. delivery.size PROVE memory[at(j)] \in Bytes \cup {Junk}
    <2>1. at(j) \in Offsets
        <3>. HIDE DEF delivery
        <3>1. j \in Int /\ 1 <= j /\ j <= delivery.size
            BY <1>2
        <3>2. EventArenaSize \in Nat
            BY Constants
        <3>3. at(j) \in Int /\ 0 <= at(j) /\ at(j) <= EventArenaSize - 1
            BY SMTT(30), <1>2, <1>3, <1>4, <3>1, <3>2
        <3>. QED  BY <3>2, <3>3 DEF Offsets
    <2>. HIDE DEF at
    <2>. QED  BY <2>1 DEF IInv, TypeOK
<1>6. Contents(delivery) = [j \in 1 .. delivery.size |-> memory[at(j)]]
    BY DEF Contents
<1>7. Contents(delivery) \in [1 .. delivery.size -> Bytes \cup {Junk}]
    <2>. HIDE DEF at, delivery
    <2>. QED  BY <1>5, <1>6
<1>8. Contents(delivery) \in ByteString /\ Len(Contents(delivery)) = delivery.size
    <2>. HIDE DEF delivery
    <2>. QED  BY <1>2, <1>7 DEF ByteString
<1>. QED  BY <1>1, <1>8

\* What a callback finds in its context can be an argument of event_bus_publish.
LEMMA ReceivedEventType ==
    ASSUME IInv, pc = "callback"
    PROVE  ReceivedEvent \in ContextsOver(ByteString)
<1>1. /\ live /\ ~InPublish
      /\ cursor + 1 \in 1 .. Len(queue)
      /\ active_listener = queue[cursor + 1]
    BY DEF IInv, TypeOK, ControlInv, ImplOutlivesCalls, CommittedCount, InPublish
<1>2. /\ active_listener \in Deliveries
      /\ Contents(active_listener) \in ByteString
    BY <1>1, QueuedContents
<1>. QED  BY <1>2 DEF ReceivedEvent, ContextsOver, Deliveries

LEMMA ProcessStep ==
    ASSUME IInv, Process
    PROVE  IInv'
<1>. USE Constants DEF Process, publishVars
<1>1. /\ ~InPublish /\ ~InPublish'
      /\ pc' = "loop"
      /\ active_listener = Null
    BY DEF InPublish, ApplicationRuns, IInv, ControlInv
<1>2. /\ CopyCount' = CopyCount
      /\ \A k \in 1 .. CopyCount : Copies'[k] = Copies[k]
    BY <1>1 DEF CopyCount, Copies
<1>3. TypeOK'
    BY DEF IInv, TypeOK
<1>4. ControlInv'
    BY <1>1 DEF IInv, ControlInv, ImplOutlivesCalls
<1>5. PublishInv'
    BY <1>1 DEF IInv, PublishInv, InPublish
<1>6. ArenaInv'
    BY <1>1, <1>2, SameArenaInv
<1>7. QueueNeverReallocates' /\ NoDuplicateListeners'
    BY <1>1, <1>2 DEF IInv, QueueNeverReallocates, NoDuplicateListeners
<1>. QED  BY <1>3, <1>4, <1>5, <1>6, <1>7 DEF IInv

LEMMA CallListenerStep ==
    ASSUME IInv, CallListener
    PROVE  IInv'
<1>. USE Constants DEF CallListener, publishVars, implVars
<1>1. /\ ~InPublish /\ ~InPublish'
      /\ pc = "loop" /\ pc' = "callback"
      /\ live /\ processing
      /\ cursor \in Nat /\ Len(queue) \in Nat
      /\ cursor + 1 \in 1 .. Len(queue)
      /\ active_listener' = queue[cursor + 1]
    BY DEF InPublish, IInv, TypeOK, ControlInv, ImplOutlivesCalls
<1>2. /\ CopyCount' = CopyCount
      /\ CopyCount = Len(queue)
      /\ \A k \in 1 .. CopyCount : Copies'[k] = Copies[k] /\ Copies[k] = queue[k]
    BY <1>1 DEF CopyCount, Copies
<1>3. TypeOK'
    <2>1. /\ queue[cursor + 1] \in Deliveries
          /\ Contents(queue[cursor + 1]) \in ByteString
        BY <1>1, QueuedContents
    <2>2. MessageOf(queue[cursor + 1]) \in Messages
        BY <2>1 DEF MessageOf, Messages, Deliveries, ByteString
    <2>. QED  BY <2>1, <2>2 DEF IInv, TypeOK
<1>4. ControlInv'
    BY <1>1 DEF IInv, ControlInv, ImplOutlivesCalls, CommittedCount
<1>5. PublishInv'
    BY <1>1 DEF IInv, PublishInv, InPublish
<1>6. ArenaInv'
    <2>1. Chain(Copies, CopyCount, payload_arena) /\ CopyCount \in Nat
        BY CopiesChain
    <2>2. Chain(Copies', CopyCount, payload_arena)
        <3>. HIDE DEF CopyCount
        <3>. QED  BY <1>2, <2>1 DEF Chain
    <2>3. \E k \in 1 .. CopyCount : Copies'[k] = active_listener'
        BY <1>1, <1>2
    <2>. QED  BY <1>2, <2>2, <2>3, ChainArenaInv
<1>7. QueueNeverReallocates' /\ NoDuplicateListeners'
    BY <1>1, <1>2 DEF IInv, QueueNeverReallocates, NoDuplicateListeners
<1>. QED  BY <1>3, <1>4, <1>5, <1>6, <1>7 DEF IInv

LEMMA CallbackWritesStep ==
    ASSUME IInv, NEW k \in 1 .. EventArenaSize, NEW byte \in Bytes, CallbackWrites(k, byte)
    PROVE  IInv'
<1>. USE DEF CallbackWrites, publishVars, processVars
<1>1. ~InPublish /\ ~InPublish' /\ pc' = pc
    BY DEF InPublish
<1>2. /\ CopyCount' = CopyCount
      /\ \A j \in 1 .. CopyCount : Copies'[j] = Copies[j]
    BY <1>1 DEF CopyCount, Copies
<1>3. memory' \in [Offsets -> Bytes \cup {Junk}]
    <2>1. <<byte>> \in ByteString
        BY DEF ByteString
    <2>. QED  BY <2>1, CopiedType DEF IInv
<1>4. TypeOK'
    BY <1>3 DEF IInv, TypeOK
<1>5. ControlInv'
    BY <1>1 DEF IInv, ControlInv, ImplOutlivesCalls, CommittedCount
<1>6. PublishInv'
    BY <1>1 DEF IInv, PublishInv, InPublish
<1>7. ArenaInv'
    BY <1>2, SameArenaInv
<1>8. QueueNeverReallocates' /\ NoDuplicateListeners'
    BY <1>1, <1>2 DEF IInv, QueueNeverReallocates, NoDuplicateListeners
<1>. QED  BY <1>4, <1>5, <1>6, <1>7, <1>8 DEF IInv

LEMMA CallbackReturnsStep ==
    ASSUME IInv, CallbackReturns
    PROVE  IInv'
<1>. USE DEF CallbackReturns, publishVars, implVars
<1>1. /\ ~InPublish /\ ~InPublish'
      /\ pc = "callback" /\ pc' = "loop"
      /\ processing
    BY DEF InPublish, IInv, ControlInv, ImplOutlivesCalls
<1>2. /\ CopyCount' = CopyCount
      /\ \A k \in 1 .. CopyCount : Copies'[k] = Copies[k]
    BY <1>1 DEF CopyCount, Copies
<1>3. TypeOK'
    BY DEF IInv, TypeOK
<1>4. ControlInv'
    BY <1>1 DEF IInv, ControlInv, ImplOutlivesCalls
<1>5. PublishInv'
    BY <1>1 DEF IInv, PublishInv, InPublish
<1>6. ArenaInv'
    <2>1. Chain(Copies, CopyCount, payload_arena) /\ CopyCount \in Nat
        BY CopiesChain
    <2>2. Chain(Copies', CopyCount, payload_arena)
        <3>. HIDE DEF CopyCount
        <3>. QED  BY <1>2, <2>1 DEF Chain
    <2>. QED  BY <1>2, <2>2, ChainArenaInv
<1>7. QueueNeverReallocates' /\ NoDuplicateListeners'
    BY <1>1, <1>2 DEF IInv, QueueNeverReallocates, NoDuplicateListeners
<1>. QED  BY <1>3, <1>4, <1>5, <1>6, <1>7 DEF IInv

LEMMA ProcessEndsStep ==
    ASSUME IInv, ProcessEnds
    PROVE  IInv'
<1>. USE Constants DEF ProcessEnds, RewindArena, publishVars
<1>1. /\ ~InPublish /\ ~InPublish'
      /\ pc = "loop" /\ pc' = "app"
      /\ live /\ ~destroy_requested
      /\ active_listener = Null
      /\ queue' = <<>>
      /\ IsArena(payload_arena)
    BY DEF InPublish, IInv, ControlInv, ImplOutlivesCalls
<1>2. /\ payload_arena' = [payload_arena EXCEPT !.size = 0]
      /\ IsArena(payload_arena')
      /\ payload_arena'.buffer = payload_arena.buffer
      /\ payload_arena'.capacity = payload_arena.capacity
      /\ payload_arena'.size = 0
    BY <1>1 DEF Rewind, IsArena
<1>3. TypeOK'
    <2>1. memory' \in [Offsets -> Bytes \cup {Junk}]
        BY ForgottenType DEF IInv
    <2>2. /\ processing' \in BOOLEAN /\ result' \in BOOLEAN
          /\ pc' = "app" /\ queue' = <<>> /\ cursor' = 0
        <3>1. processing' \in BOOLEAN
            OBVIOUS
        <3>2. result' \in BOOLEAN
            OBVIOUS
        <3>. QED  BY <3>1, <3>2
    <2>3. UNCHANGED <<live, registry, queue_capacity, destroy_requested, publishVars,
                      active_listener, received>>
        OBVIOUS
    <2>. HIDE DEF ProcessEnds, RewindArena
    <2>. QED  BY SMTT(30), <1>2, <2>1, <2>2, <2>3 DEF IInv, TypeOK, IsArena
<1>4. ControlInv'
    BY <1>1, <1>2 DEF IInv, ControlInv, ImplOutlivesCalls
<1>5. PublishInv'
    BY <1>1 DEF IInv, PublishInv, InPublish
<1>6. ArenaInv'
    <2>1. CopyCount' = 0
        BY <1>1 DEF CopyCount
    <2>2. payload_arena'.buffer \in Nat
        BY <1>2 DEF IsArena
    <2>3. Chain(Copies', 0, payload_arena')
        BY <1>2, <2>2 DEF Chain
    <2>. QED  BY <1>1, <2>1, <2>3, ChainArenaInv
<1>7. QueueNeverReallocates' /\ NoDuplicateListeners'
    <2>1. CopyCount' = 0
        BY <1>1 DEF CopyCount
    <2>. QED  BY <1>1, <2>1 DEF IInv, QueueNeverReallocates, NoDuplicateListeners
<1>. QED  BY <1>3, <1>4, <1>5, <1>6, <1>7 DEF IInv

-----------------------------------------------------------------------------
(* Assembly                                                                *)

\* An event that the code admits has a payload, a code in range and an
\* alignment the application passed.
LEMMA AdmittedEventType ==
    ASSUME NEW event \in Events, AdmitsEvent(event)
    PROVE  event \in ContextsOver(ByteString)
<1>1. /\ event = [code      |-> event.code,
                  publisher |-> event.publisher,
                  payload   |-> event.payload,
                  alignment |-> event.alignment]
      /\ event.code \in Nat
      /\ event.payload \in Seq(Bytes)
    BY EventsAssumption DEF AdmitsEvent
<1>2. event.payload \in ByteString
    BY <1>1 DEF ByteString
<1>3. event.code \in Codes
    BY <1>1, Constants DEF AdmitsEvent, Codes
<1>4. event.publisher \in Publishers /\ event.alignment \in Alignments
    BY DEF Publishers, Alignments
<1>. QED  BY <1>1, <1>2, <1>3, <1>4 DEF ContextsOver

LEMMA NextIInv == IInv /\ [Next]_vars => IInv'
<1>. SUFFICES ASSUME IInv, [Next]_vars PROVE IInv'
    OBVIOUS
<1>1. ASSUME NEW buffer \in Buffers, Create(buffer) PROVE IInv'
    BY <1>1, CreateStep
<1>2. CASE CreateFails
    BY <1>2, ResultOnly DEF CreateFails
<1>3. CASE Destroy
    BY <1>3, DestroyStep
<1>4. CASE DestroyLater
    BY <1>4, DestroyLaterStep
<1>5. ASSUME NEW descriptor \in Descriptors, Subscribe(descriptor) PROVE IInv'
    BY <1>5, SubscribeStep
<1>6. ASSUME NEW descriptor \in Descriptors, SubscribeRefused(descriptor) PROVE IInv'
    BY <1>6, ResultOnly DEF SubscribeRefused
<1>7. ASSUME NEW event \in Events, Publish(event) PROVE IInv'
    BY <1>7, AdmittedEventType, PublishStep DEF Publish
<1>8. ASSUME NEW event \in Events, PublishRefused(event) PROVE IInv'
    BY <1>8, ResultOnly DEF PublishRefused
<1>9. CASE pc = "callback" /\ Publish(ReceivedEvent)
    BY <1>9, ReceivedEventType, PublishStep
<1>10. CASE pc = "callback" /\ PublishRefused(ReceivedEvent)
    BY <1>10, ResultOnly DEF PublishRefused
<1>11. CASE StageCopy
    BY <1>11, StageCopyStep
<1>12. CASE StageFails
    BY <1>12, StageFailsStep
<1>13. CASE EnqueueCopy
    BY <1>13, EnqueueCopyStep
<1>14. CASE ProcessRefused
    BY <1>14, ResultOnly DEF ProcessRefused
<1>15. CASE ProcessEmpty
    BY <1>15, ResultOnly DEF ProcessEmpty
<1>16. CASE Process
    BY <1>16, ProcessStep
<1>17. CASE CallListener
    BY <1>17, CallListenerStep
<1>18. ASSUME NEW k \in 1 .. EventArenaSize, NEW byte \in Bytes, CallbackWrites(k, byte)
       PROVE  IInv'
    BY <1>18, CallbackWritesStep
<1>19. CASE CallbackReturns
    BY <1>19, CallbackReturnsStep
<1>20. CASE CallbackReturnsDestroyed
    BY <1>20, CallbackReturnsDestroyedStep
<1>21. CASE ProcessEnds
    BY <1>21, ProcessEndsStep
<1>22. CASE UNCHANGED vars
    <2>1. result \in BOOLEAN
        BY DEF IInv, TypeOK
    <2>. QED  BY <1>22, <2>1, ResultOnly DEF vars
<1>. QED
    BY <1>1, <1>2, <1>3, <1>4, <1>5, <1>6, <1>7, <1>8, <1>9, <1>10, <1>11, <1>12,
       <1>13, <1>14, <1>15, <1>16, <1>17, <1>18, <1>19, <1>20, <1>21, <1>22
    DEF Next

\* IInv is an invariant of the bus.
THEOREM Invariance == Spec => []IInv
BY InitIInv, NextIInv, PTL DEF Spec

\* Every variable keeps its type: no listener without a callback is registered,
\* no empty payload is queued, and the arena's fields stay words.
THEOREM TypeCorrect == Spec => []TypeOK
<1>1. IInv => TypeOK
    BY DEF IInv
<1>. QED  BY Invariance, <1>1, PTL

\* Nothing the bus or a callback does while event_bus_process or
\* event_bus_publish runs takes the implementation away from under it.
THEOREM ImplOutlives == Spec => []ImplOutlivesCalls
<1>1. IInv => ImplOutlivesCalls
    BY DEF IInv, ControlInv
<1>. QED  BY Invariance, <1>1, PTL

\* Every payload copy lies in the used part of the arena, aligned, and the one
\* in the hands of a running callback is one of them, whatever rollbacks and
\* re-entrant publications came before.
THEOREM PayloadsStayInBounds == Spec => []PayloadsInBounds
<1>1. IInv => PayloadsInBounds
    BY DEF IInv, ArenaInv
<1>. QED  BY Invariance, <1>1, PTL

\* No two payload copies share a byte.
THEOREM PayloadsStayDisjoint == Spec => []PayloadsDisjoint
<1>1. IInv => PayloadsDisjoint
    BY DEF IInv, ArenaInv
<1>. QED  BY Invariance, <1>1, PTL

\* Outside a publish the arena ends with the last queued payload: a publish
\* that failed half-way gave back what it had taken.
THEOREM ArenaSpaceIsKept == Spec => []NoLostArenaSpace
<1>1. ASSUME IInv, ~InPublish PROVE NoLostArenaSpace
    <2>1. Len(queue) = 0 <=> queue = <<>>
        BY DEF IInv, TypeOK
    <2>. QED
        BY <1>1, <2>1
        DEF IInv, ArenaInv, NoLostArenaSpace, EndOfCopies, CopyCount, Copies
<1>2. IInv => NoLostArenaSpace
    BY <1>1 DEF NoLostArenaSpace
<1>. QED  BY Invariance, <1>2, PTL

\* The queue's array, reserved once, is never reallocated, so the push that
\* follows a complete staging does not fail.
THEOREM QueueIsNeverReallocated == Spec => []QueueNeverReallocates
<1>1. IInv => QueueNeverReallocates
    BY DEF IInv
<1>. QED  BY Invariance, <1>1, PTL

\* No listener is registered twice under a code.
THEOREM ListenersAreDistinct == Spec => []NoDuplicateListeners
<1>1. IInv => NoDuplicateListeners
    BY DEF IInv
<1>. QED  BY Invariance, <1>1, PTL

-----------------------------------------------------------------------------
(* The bus implements the mailbox of EventDelivery: what this needs beside *)
(* IInv                                                                    *)

\* The bytes that a delivery's payload points to, in given memory.
ContentsIn(bytes, buffer, delivery) ==
    [k \in 1 .. delivery.size |-> bytes[(delivery.payload - buffer) + (k - 1)]]

MessageIn(bytes, buffer, delivery) ==
    [callback   |-> delivery.callback,
     subscriber |-> delivery.subscriber,
     code       |-> delivery.code,
     publisher  |-> delivery.publisher,
     payload    |-> ContentsIn(bytes, buffer, delivery),
     alignment  |-> delivery.alignment]

\* The messages of the deliveries after the first ones, up to the last.
Mailbox(deliveries, first, last, bytes, buffer) ==
    [k \in 1 .. last - first |-> MessageIn(bytes, buffer, deliveries[first + k])]

\* The strings of bytes that a publication can carry: as long as one that the
\* application passes.
Payloads ==
    UNION {[1 .. Len(sent.payload) -> Bytes] :
           sent \in {event \in Events : event.payload # Null}}

\* How far a pass has come.
PassInv ==
    /\ IF processing /\ pc # "loop" THEN received \in Messages ELSE received = Null
    /\ IF processing THEN cursor <= CommittedCount ELSE cursor = 0

\* Every copy has the bytes of an event: none of them has been lost, and none
\* belongs to nobody.
ContentsInv ==
    \A k \in 1 .. CopyCount :
        /\ ContentsIn(memory, payload_arena.buffer, Copies[k]) \in Payloads
        /\ IsPowerOfTwo(Copies[k].alignment)

\* What a running event_bus_publish has staged is one copy of its event for
\* each of the first listeners.
StagedInv ==
    InPublish =>
        /\ context \in PublishedContexts
        /\ \A k \in 1 .. Len(staged_listeners) :
              /\ staged_listeners[k] =
                    Delivery(Recipients[k], context, staged_listeners[k].payload)
              /\ ContentsIn(memory, payload_arena.buffer, staged_listeners[k]) = context.payload

DeliveryInv ==
    /\ PassInv
    /\ ContentsInv
    /\ StagedInv

\* The refinement mapping in these terms.
LEMMA PendingIsMailbox ==
    /\ Pending = Mailbox(queue, HandedOver, Published, memory, payload_arena.buffer)
    /\ Pending' = Mailbox(queue', HandedOver', Published', memory', payload_arena'.buffer)
BY DEF Pending, Mailbox, MessageOf, MessageIn, Contents, ContentsIn

\* Nothing to hand over.
LEMMA EmptyMailbox ==
    ASSUME NEW n \in Nat, NEW deliveries, NEW bytes, NEW buffer
    PROVE  Mailbox(deliveries, n, n, bytes, buffer) = <<>>
<1>1. 1 .. n - n = {}
    OBVIOUS
<1>. QED  BY <1>1 DEF Mailbox

\* Messages are the same as long as the deliveries and their bytes are.
LEMMA SameMailbox ==
    ASSUME NEW first \in Nat, NEW last \in Nat,
           NEW deliveries, NEW bytes, NEW buffer,
           NEW deliveries2, NEW bytes2, NEW buffer2,
           \A k \in first + 1 .. last :
              MessageIn(bytes2, buffer2, deliveries2[k]) = MessageIn(bytes, buffer, deliveries[k])
    PROVE  Mailbox(deliveries2, first, last, bytes2, buffer2)
              = Mailbox(deliveries, first, last, bytes, buffer)
<1>1. \A k \in 1 .. last - first : first + k \in first + 1 .. last
    OBVIOUS
<1>. QED  BY <1>1 DEF Mailbox

\* How many deliveries a pass has handed over, and how many there are to hand
\* over, leaving out those of a running publish.
LEMMA MailboxBounds ==
    ASSUME IInv, DeliveryInv
    PROVE  /\ HandedOver = IF processing
                           THEN IF pc = "loop" THEN cursor ELSE cursor + 1
                           ELSE 0
           /\ HandedOver \in Nat
           /\ Published = CommittedCount
           /\ Published \in Nat
           /\ HandedOver <= Published
           /\ cursor \in Nat
           /\ Len(queue) \in Nat
           /\ Published <= Len(queue)
           /\ CopyCount \in Nat
           /\ Published <= CopyCount
           /\ \A k \in 1 .. Published : Copies[k] = queue[k]
<1>1. /\ cursor \in Nat
      /\ queue \in Seq(Deliveries)
      /\ Len(queue) \in Nat
      /\ queue_checkpoint \in Nat
      /\ staged_listeners \in Seq(Deliveries)
      /\ Len(staged_listeners) \in Nat
    BY DEF IInv, TypeOK
<1>2. /\ pc = "stage" => Len(queue) = queue_checkpoint
      /\ pc = "enqueue" => Len(queue) >= queue_checkpoint
    BY DEF IInv, PublishInv
<1>3. Published = CommittedCount /\ Published \in Nat /\ Published <= Len(queue)
    BY <1>1, <1>2 DEF Published, CommittedCount, InPublish
<1>4. HandedOver = IF processing
                   THEN IF pc = "loop" THEN cursor ELSE cursor + 1
                   ELSE 0
    BY <1>1, NullAssumption DEF DeliveryInv, PassInv, HandedOver
<1>5. HandedOver <= Published /\ HandedOver \in Nat
    <2>1. processing => cursor <= CommittedCount
        BY DEF DeliveryInv, PassInv
    <2>2. processing /\ pc # "loop" => cursor < CommittedCount
        BY DEF IInv, ControlInv
    <2>. QED  BY <1>1, <1>3, <1>4, <2>1, <2>2
<1>6. Published <= CopyCount
    BY <1>1, <1>3 DEF CopyCount, CommittedCount
<1>7. \A k \in 1 .. Published : Copies[k] = queue[k]
    <2>1. CASE InPublish
        <3>1. Published = queue_checkpoint
            BY <1>3, <2>1 DEF CommittedCount
        <3>. QED  BY <1>1, <1>6, <2>1, <3>1 DEF Copies, CopyCount
    <2>2. CASE ~InPublish
        BY <2>2 DEF Copies
    <2>. QED  BY <2>1, <2>2
<1>8. CopyCount \in Nat
    BY CopiesChain
<1>. QED  BY <1>1, <1>3, <1>4, <1>5, <1>6, <1>7, <1>8

\* Code that a call of the application runs in is code that it may be made in.
LEMMA CallsAreMade ==
    ASSUME IInv, DeliveryInv, pc # "loop"
    PROVE  Promise!ApplicationRuns
<1>1. CASE processing
    BY <1>1, NullAssumption DEF DeliveryInv, PassInv, Promise!ApplicationRuns
<1>2. CASE ~processing
    BY <1>2 DEF IInv, ControlInv, ImplOutlivesCalls, Phase, Promise!ApplicationRuns
<1>. QED  BY <1>1, <1>2

\* Where the copies lie.
LEMMA CopyPlaces ==
    ASSUME IInv, NEW k \in 1 .. CopyCount
    PROVE  /\ Copies[k] \in Deliveries
           /\ Copies[k].payload \in Nat
           /\ Copies[k].size \in Nat \ {0}
           /\ PayloadEnd(Copies[k]) = Copies[k].payload + Copies[k].size
           /\ payload_arena.buffer \in Nat
           /\ payload_arena.size \in Nat
           /\ payload_arena.buffer <= Copies[k].payload
           /\ PayloadEnd(Copies[k]) <= payload_arena.buffer + payload_arena.size
<1>1. /\ Copies[k] \in Deliveries
      /\ payload_arena.buffer <= Copies[k].payload
      /\ PayloadEnd(Copies[k]) <= payload_arena.buffer + payload_arena.size
    BY CopiesChain DEF Chain
<1>2. Copies[k].payload \in Word /\ Copies[k].size \in Nat \ {0}
    BY <1>1 DEF Deliveries
<1>3. payload_arena.buffer \in Word /\ payload_arena.size \in Word
    BY DEF IInv, TypeOK
<1>. QED  BY <1>1, <1>2, <1>3, Constants DEF PayloadEnd

-----------------------------------------------------------------------------
(* Writing to the memory of the arena                                      *)

\* memcpy leaves the bytes of a delivery alone that lies beside its target.
LEMMA CopiedKeeps ==
    ASSUME payload_arena.buffer \in Nat,
           NEW bytes, Len(bytes) \in Nat,
           NEW address \in Nat,
           NEW delivery, delivery.payload \in Nat, delivery.size \in Nat,
           payload_arena.buffer <= delivery.payload,
           delivery.payload + delivery.size <= payload_arena.buffer + EventArenaSize,
           \/ delivery.payload + delivery.size <= address
           \/ address + Len(bytes) <= delivery.payload
    PROVE  ContentsIn(Copied(bytes, address), payload_arena.buffer, delivery)
              = ContentsIn(memory, payload_arena.buffer, delivery)
<1>. DEFINE buffer == payload_arena.buffer
            at(k)  == (delivery.payload - buffer) + (k - 1)
            length == Len(bytes)
<1>1. ASSUME NEW k \in 1 .. delivery.size
      PROVE  Copied(bytes, address)[at(k)] = memory[at(k)]
    <2>1. EventArenaSize \in Nat /\ k \in Int /\ 1 <= k /\ k <= delivery.size
        BY Constants
    <2>. HIDE DEF buffer, length
    <2>2. at(k) \in 0 .. EventArenaSize - 1
        BY SMTT(30), <2>1 DEF buffer
    <2>3. ~(at(k) - (address - buffer) + 1 \in 1 .. length)
        <3>1. at(k) - (address - buffer) + 1 = delivery.payload + k - address
            BY SMTT(30), <2>1 DEF buffer
        <3>. HIDE DEF at
        <3>2. CASE delivery.payload + delivery.size <= address
            <4>1. delivery.payload + k - address < 1
                BY <2>1, <3>2
            <4>. QED  BY <2>1, <3>1, <4>1
        <3>3. CASE address + length <= delivery.payload
            <4>1. delivery.payload + k - address > length
                BY <2>1, <3>3 DEF length
            <4>. QED  BY <2>1, <3>1, <4>1 DEF length
        <3>. QED  BY <3>2, <3>3 DEF length
    <2>. HIDE DEF at
    <2>4. at(k) \in Offsets
        BY <2>2 DEF Offsets
    <2>5. Copied(bytes, address)[at(k)] =
            IF at(k) - (address - buffer) + 1 \in 1 .. length
            THEN bytes[at(k) - (address - buffer) + 1] ELSE memory[at(k)]
        BY <2>4 DEF Copied, buffer, length
    <2>. QED  BY <2>3, <2>5
<1>. HIDE DEF at
<1>2. /\ ContentsIn(Copied(bytes, address), payload_arena.buffer, delivery)
            = [k \in 1 .. delivery.size |-> Copied(bytes, address)[at(k)]]
      /\ ContentsIn(memory, payload_arena.buffer, delivery)
            = [k \in 1 .. delivery.size |-> memory[at(k)]]
    BY DEF ContentsIn, at
<1>. QED  BY <1>1, <1>2

\* What memcpy put at a delivery's address is what the delivery then points to.
LEMMA CopiedPuts ==
    ASSUME payload_arena.buffer \in Nat,
           NEW values, NEW bytes \in Seq(values),
           NEW delivery, delivery.payload \in Nat, delivery.size = Len(bytes),
           payload_arena.buffer <= delivery.payload,
           delivery.payload + delivery.size <= payload_arena.buffer + EventArenaSize
    PROVE  ContentsIn(Copied(bytes, delivery.payload), payload_arena.buffer, delivery) = bytes
<1>. DEFINE buffer  == payload_arena.buffer
            address == delivery.payload
            at(k)   == (address - buffer) + (k - 1)
            length  == Len(bytes)
<1>1. ASSUME NEW k \in 1 .. length
      PROVE  Copied(bytes, address)[at(k)] = bytes[k]
    <2>1. EventArenaSize \in Nat /\ length \in Nat /\ k \in Int /\ 1 <= k /\ k <= length
        BY Constants
    <2>. HIDE DEF buffer, length, address
    <2>2. at(k) \in 0 .. EventArenaSize - 1
        BY <2>1 DEF buffer, address, length
    <2>3. at(k) - (address - buffer) + 1 = k
        BY <2>1 DEF buffer, address
    <2>. HIDE DEF at
    <2>4. at(k) \in Offsets
        BY <2>2 DEF Offsets
    <2>5. Copied(bytes, address)[at(k)] =
            IF at(k) - (address - buffer) + 1 \in 1 .. length
            THEN bytes[at(k) - (address - buffer) + 1] ELSE memory[at(k)]
        BY <2>4 DEF Copied, buffer, length
    <2>. QED  BY <2>3, <2>5
<1>. HIDE DEF at
<1>2. ContentsIn(Copied(bytes, address), payload_arena.buffer, delivery)
            = [k \in 1 .. length |-> Copied(bytes, address)[at(k)]]
    BY DEF ContentsIn, at
<1>3. bytes = [k \in 1 .. length |-> bytes[k]]
    OBVIOUS
<1>. QED  BY <1>1, <1>2, <1>3

\* A rollback leaves the bytes of a delivery below the checkpoint alone.
LEMMA ForgottenKeeps ==
    ASSUME payload_arena.buffer \in Nat,
           NEW size \in Nat, size <= EventArenaSize,
           NEW delivery, delivery.payload \in Nat, delivery.size \in Nat,
           payload_arena.buffer <= delivery.payload,
           delivery.payload + delivery.size <= payload_arena.buffer + size
    PROVE  ContentsIn(Forgotten(size), payload_arena.buffer, delivery)
              = ContentsIn(memory, payload_arena.buffer, delivery)
<1>. DEFINE buffer == payload_arena.buffer
            at(k)  == (delivery.payload - buffer) + (k - 1)
<1>1. ASSUME NEW k \in 1 .. delivery.size
      PROVE  Forgotten(size)[at(k)] = memory[at(k)]
    <2>1. EventArenaSize \in Nat /\ k \in Int /\ 1 <= k /\ k <= delivery.size
        BY Constants
    <2>. HIDE DEF buffer
    <2>2. at(k) \in 0 .. EventArenaSize - 1 /\ at(k) < size
        BY <2>1 DEF buffer
    <2>. HIDE DEF at
    <2>3. at(k) \in Offsets
        BY <2>2 DEF Offsets
    <2>. QED  BY <2>2, <2>3 DEF Forgotten
<1>. HIDE DEF at
<1>2. /\ ContentsIn(Forgotten(size), payload_arena.buffer, delivery)
            = [k \in 1 .. delivery.size |-> Forgotten(size)[at(k)]]
      /\ ContentsIn(memory, payload_arena.buffer, delivery)
            = [k \in 1 .. delivery.size |-> memory[at(k)]]
    BY DEF ContentsIn, at
<1>. QED  BY <1>1, <1>2

-----------------------------------------------------------------------------
(* Every step of the bus is a step of the mailbox, or leaves it alone      *)

\* A step that leaves the copies and their bytes alone.
LEMMA KeptContents ==
    ASSUME ContentsInv,
           \A k \in 1 .. CopyCount' :
              /\ k \in 1 .. CopyCount
              /\ Copies'[k] = Copies[k]
              /\ ContentsIn(memory', payload_arena'.buffer, Copies[k])
                    = ContentsIn(memory, payload_arena.buffer, Copies[k])
    PROVE  ContentsInv'
BY DEF ContentsInv

\* Calls that do not touch what is to be handed over.
LEMMA Undisturbed ==
    ASSUME IInv, DeliveryInv, ~InPublish,
           UNCHANGED <<queue, payload_arena, memory, processing, pc, cursor, received>>
    PROVE  DeliveryInv' /\ Pending' = Pending
<1>1. /\ ~InPublish'
      /\ CopyCount' = CopyCount
      /\ Copies' = Copies
      /\ CommittedCount' = CommittedCount
    BY DEF InPublish, CopyCount, Copies, CommittedCount
<1>2. PassInv' /\ StagedInv'
    BY <1>1 DEF DeliveryInv, PassInv, StagedInv
<1>3. ContentsInv'
    BY <1>1, KeptContents DEF DeliveryInv
<1>4. Pending' = Pending
    <2>1. HandedOver' = HandedOver /\ Published' = Published
        BY DEF HandedOver, Published, InPublish
    <2>2. queue' = queue /\ memory' = memory /\ payload_arena' = payload_arena
        OBVIOUS
    <2>. QED  BY <2>1, <2>2, PendingIsMailbox
<1>. QED  BY <1>2, <1>3, <1>4 DEF DeliveryInv

\* A refused call, for a reason or for want of memory.
LEMMA RefusedDelivers ==
    ASSUME IInv, DeliveryInv, ApplicationRuns, result' = FALSE,
           UNCHANGED <<implVars, pc, publishVars, processVars>>
    PROVE  DeliveryInv' /\ Promise!Refuse
<1>1. ~InPublish /\ pc # "loop"
    BY DEF ApplicationRuns, InPublish
<1>2. DeliveryInv' /\ Pending' = Pending
    BY <1>1, Undisturbed DEF implVars, processVars
<1>3. UNCHANGED <<live, registry, Phase, received>>
    BY DEF implVars, processVars, Phase
<1>. QED  BY <1>1, <1>2, <1>3, CallsAreMade DEF Promise!Refuse

\* event_bus_create opens an empty mailbox.
LEMMA CreateDelivers ==
    ASSUME IInv, DeliveryInv, NEW buffer \in Buffers, Create(buffer)
    PROVE  DeliveryInv' /\ Promise!Open
<1>. USE DEF Create, publishVars, processVars
<1>1. /\ queue = <<>> /\ queue' = <<>>
      /\ ~processing /\ ~processing'
      /\ ~InPublish /\ ~InPublish'
      /\ cursor = 0 /\ received = Null
    BY DEF IInv, ControlInv, ImplOutlivesCalls, InPublish, DeliveryInv, PassInv
<1>2. CopyCount' = 0
    BY <1>1 DEF CopyCount
<1>3. DeliveryInv'
    BY <1>1, <1>2 DEF DeliveryInv, PassInv, ContentsInv, StagedInv
<1>4. Pending = <<>> /\ Pending' = <<>>
    <2>1. /\ HandedOver = 0 /\ HandedOver' = 0
          /\ Published = 0 /\ Published' = 0
        BY <1>1 DEF HandedOver, Published, InPublish
    <2>. QED  BY <2>1, PendingIsMailbox, EmptyMailbox
<1>5. Phase' = Phase
    BY DEF Phase
<1>. QED  BY <1>3, <1>4, <1>5 DEF Promise!Open

\* The bus goes, in either way.
LEMMA DestroyedDelivers ==
    ASSUME IInv, DeliveryInv, DestroyNow, pc' = "app", cursor' = 0, received' = Null
    PROVE  DeliveryInv' /\ Promise!Gone
<1>. USE DEF DestroyNow
<1>1. /\ ~InPublish'
      /\ CopyCount' = 0
    BY DEF InPublish, CopyCount
<1>2. DeliveryInv'
    BY <1>1 DEF DeliveryInv, PassInv, ContentsInv, StagedInv
<1>3. Pending' = <<>>
    <2>1. HandedOver' = 0 /\ Published' = 0
        BY DEF HandedOver, Published, InPublish
    <2>. QED  BY <2>1, PendingIsMailbox, EmptyMailbox
<1>4. Phase' = "idle"
    BY DEF Phase
<1>5. registry' = Promise!NoListeners
    BY DEF EmptyRegistry, Promise!NoListeners
<1>. QED  BY <1>2, <1>3, <1>4, <1>5 DEF Promise!Gone

\* event_bus_destroy outside a pass closes the mailbox.
LEMMA DestroyDelivers ==
    ASSUME IInv, DeliveryInv, Destroy
    PROVE  DeliveryInv' /\ Promise!CloseNow
<1>. USE DEF Destroy, processVars
<1>1. /\ pc' = "app" /\ cursor' = 0 /\ received' = Null
      /\ Phase = "idle"
    BY DEF IInv, ControlInv, ImplOutlivesCalls, ApplicationRuns, DeliveryInv, PassInv, Phase
<1>2. DeliveryInv' /\ Promise!Gone
    BY <1>1, DestroyedDelivers
<1>. QED  BY <1>1, <1>2 DEF Promise!CloseNow

\* event_bus_process carries out the destruction that a callback asked for.
LEMMA CallbackReturnsDestroyedDelivers ==
    ASSUME IInv, DeliveryInv, CallbackReturnsDestroyed
    PROVE  DeliveryInv' /\ Promise!CloseAfterCallback
<1>. USE DEF CallbackReturnsDestroyed
<1>1. DeliveryInv' /\ Promise!Gone
    BY DestroyedDelivers
<1>. QED  BY <1>1 DEF Promise!CloseAfterCallback, Phase

\* event_bus_destroy in a callback is the request to close; asked for again, it
\* changes nothing.
LEMMA DestroyLaterDelivers ==
    ASSUME IInv, DeliveryInv, DestroyLater
    PROVE  DeliveryInv' /\ [Promise!RequestClose]_(Promise!vars)
<1>. USE DEF DestroyLater, processVars
<1>1. pc = "callback" /\ ~InPublish
    BY DEF IInv, ControlInv, ApplicationRuns, InPublish
<1>2. DeliveryInv' /\ Pending' = Pending
    BY <1>1, Undisturbed
<1>3. received # Null
    BY <1>1, NullAssumption DEF DeliveryInv, PassInv
<1>4. UNCHANGED <<live, registry, received, result>> /\ Phase' = "closing"
    BY DEF Phase
<1>5. CASE destroy_requested
    <2>1. Phase = "closing"
        BY <1>5 DEF Phase
    <2>. QED  BY <1>2, <1>4, <2>1 DEF Promise!vars
<1>6. CASE ~destroy_requested
    <2>1. Phase = "pass"
        BY <1>6 DEF Phase
    <2>. QED  BY <1>2, <1>3, <1>4, <2>1 DEF Promise!RequestClose
<1>. QED  BY <1>5, <1>6

\* event_bus_subscribe.
LEMMA SubscribeDelivers ==
    ASSUME IInv, DeliveryInv, NEW descriptor \in Descriptors, Subscribe(descriptor)
    PROVE  /\ DeliveryInv'
           /\ \E listener \in Listeners : Promise!Subscribe(listener)
<1>. USE DEF Subscribe, processVars
<1>1. ~InPublish /\ pc # "loop" /\ ~destroy_requested /\ live
    BY DEF ApplicationRuns, InPublish, AdmitsSubscriber
<1>2. DeliveryInv' /\ Pending' = Pending
    BY <1>1, Undisturbed
<1>3. Phase' = Phase /\ Phase # "closing"
    BY <1>1 DEF Phase
<1>. DEFINE listener == Listener(descriptor)
<1>4. listener \in Listeners /\ listener.code = descriptor.code
    BY DescriptorsAssumption, Constants
    DEF AdmitsSubscriber, Codes, Listener, Listeners, Callbacks, Subscribers
<1>5. registry' = [registry EXCEPT ![listener.code] = Append(@, listener)]
    BY <1>4
<1>6. Promise!ApplicationRuns
    BY <1>1, CallsAreMade
<1>. HIDE DEF listener
<1>7. Promise!Subscribe(listener)
    BY <1>1, <1>2, <1>3, <1>5, <1>6 DEF Promise!Subscribe
<1>. QED  BY <1>2, <1>4, <1>7

\* A step that leaves what is to be handed over where it is.
LEMMA KeptPending ==
    ASSUME IInv, DeliveryInv, HandedOver' = HandedOver, Published' = Published,
           \A k \in HandedOver + 1 .. Published :
              /\ queue'[k] = queue[k]
              /\ ContentsIn(memory', payload_arena'.buffer, queue[k])
                    = ContentsIn(memory, payload_arena.buffer, queue[k])
    PROVE  Pending' = Pending
<1>1. HandedOver \in Nat /\ Published \in Nat
    BY MailboxBounds
<1>2. \A k \in HandedOver + 1 .. Published :
          MessageIn(memory', payload_arena'.buffer, queue'[k])
            = MessageIn(memory, payload_arena.buffer, queue[k])
    BY DEF MessageIn
<1>3. Mailbox(queue', HandedOver, Published, memory', payload_arena'.buffer)
        = Mailbox(queue, HandedOver, Published, memory, payload_arena.buffer)
    BY <1>1, <1>2, SameMailbox
<1>. QED  BY <1>3, PendingIsMailbox

\* The events that can be published, by the application and by a callback.
LEMMA AdmittedIsPublished ==
    ASSUME NEW event \in Events, AdmitsEvent(event)
    PROVE  event \in PublishedContexts
<1>1. /\ event \in ContextsOver(ByteString)
      /\ event.payload # Null
      /\ event.payload \in Seq(Bytes)
      /\ Len(event.payload) # 0
      /\ IsPowerOfTwo(event.alignment)
    BY AdmittedEventType, EventsAssumption DEF AdmitsEvent
<1>2. event.payload \in [1 .. Len(event.payload) -> Bytes] /\ event.payload # <<>>
    BY <1>1
<1>3. event.payload \in Payloads
    BY <1>1, <1>2 DEF Payloads
<1>4. event \in ContextsOver(Payloads)
    BY <1>1, <1>3 DEF ContextsOver
<1>. QED  BY <1>1, <1>2, <1>4 DEF PublishedContexts, ContextsOver, Payloads

\* What a callback makes of its copy is as long as what an application once
\* passed.
LEMMA ReceivedIsPublished ==
    ASSUME IInv, DeliveryInv, pc = "callback"
    PROVE  ReceivedEvent \in PublishedContexts
<1>1. /\ cursor + 1 \in 1 .. CopyCount
      /\ active_listener = Copies[cursor + 1]
    BY DEF IInv, TypeOK, ControlInv, ImplOutlivesCalls, CommittedCount, InPublish, CopyCount, Copies
<1>2. /\ active_listener \in Deliveries
      /\ active_listener.size \in Nat \ {0}
      /\ ContentsIn(memory, payload_arena.buffer, active_listener) \in Payloads
      /\ IsPowerOfTwo(active_listener.alignment)
    BY <1>1, CopyPlaces DEF DeliveryInv, ContentsInv
<1>3. Contents(active_listener) = ContentsIn(memory, payload_arena.buffer, active_listener)
    BY DEF Contents, ContentsIn
<1>4. Contents(active_listener) # <<>>
    <2>1. DOMAIN Contents(active_listener) = 1 .. active_listener.size
        BY DEF Contents
    <2>2. 1 \in 1 .. active_listener.size
        BY <1>2
    <2>3. DOMAIN <<>> = {}
        OBVIOUS
    <2>. QED  BY <2>1, <2>2, <2>3
<1>5. ReceivedEvent \in ContextsOver(Payloads)
    BY <1>2, <1>3 DEF ReceivedEvent, ContextsOver, Deliveries
<1>. QED  BY <1>2, <1>4, <1>5 DEF PublishedContexts, ContextsOver, Payloads, ReceivedEvent

\* Entering event_bus_publish.
LEMMA PublishDelivers ==
    ASSUME IInv, DeliveryInv, NEW event \in PublishedContexts, Publish(event)
    PROVE  DeliveryInv' /\ UNCHANGED Promise!vars
<1>. USE DEF Publish, implVars, processVars
<1>1. /\ InPublish' /\ ~InPublish /\ pc # "loop"
      /\ pc' = "stage"
      /\ staged_listeners' = <<>>
      /\ queue_checkpoint' = Len(queue)
      /\ Len(queue) \in Nat
    BY DEF InPublish, ApplicationRuns, IInv, PublishInv, TypeOK
<1>2. /\ CopyCount' = CopyCount
      /\ \A k \in 1 .. CopyCount : Copies'[k] = Copies[k]
      /\ CommittedCount' = CommittedCount
    BY <1>1 DEF CopyCount, Copies, CommittedCount
<1>3. PassInv'
    BY <1>1, <1>2 DEF DeliveryInv, PassInv
<1>4. ContentsInv'
    BY <1>2, KeptContents DEF DeliveryInv
<1>5. StagedInv'
    <2>1. context' = event /\ Len(staged_listeners') = 0
        BY <1>1
    <2>. QED  BY <2>1 DEF StagedInv
<1>6. Pending' = Pending
    <2>1. HandedOver' = HandedOver /\ Published' = Published
        BY <1>1 DEF HandedOver, Published, InPublish
    <2>. QED  BY <2>1, KeptPending
<1>7. Phase' = Phase
    BY DEF Phase
<1>. QED  BY <1>3, <1>4, <1>5, <1>6, <1>7 DEF DeliveryInv, Promise!vars

\* A copy staged: the mailbox does not know of it.
LEMMA StageCopyDelivers ==
    ASSUME IInv, DeliveryInv, StageCopy
    PROVE  DeliveryInv' /\ UNCHANGED Promise!vars
<1>. USE DEF StageCopy, processVars
<1>. DEFINE staged == StagedDelivery
            n      == CopyCount
            m      == queue_checkpoint
            bytes  == context.payload
<1>1. /\ InPublish /\ InPublish'
      /\ pc = "stage"
      /\ Len(queue) = m
      /\ Recipients' = Recipients
      /\ IsArena(payload_arena')
      /\ payload_arena'.buffer = payload_arena.buffer
      /\ payload_arena'.capacity = payload_arena.capacity
      /\ staged.payload \in Word
      /\ staged.payload >= payload_arena.buffer + payload_arena.size
      /\ PayloadEnd(staged) = payload_arena'.buffer + payload_arena'.size
      /\ staged \in Deliveries
      /\ staged.alignment = context.alignment
      /\ staged_listeners \in Seq(Deliveries)
      /\ staged_listeners' = Append(staged_listeners, staged)
      /\ n + 1 = CopyCount'
      /\ \A k \in 1 .. n : Copies'[k] = Copies[k]
      /\ Copies'[n + 1] = staged
    BY StagedCopy
<1>2. /\ payload_arena.capacity = EventArenaSize
      /\ bytes \in ByteString
      /\ Len(bytes) \in Nat
      /\ Len(staged_listeners) \in Nat
      /\ m \in Nat
      /\ n = m + Len(staged_listeners)
    BY <1>1, DuringPublish DEF CopyCount
<1>3. /\ payload_arena.buffer \in Nat
      /\ payload_arena.size \in Nat
      /\ payload_arena'.size \in Nat
      /\ payload_arena'.size <= EventArenaSize
      /\ payload_arena.size <= EventArenaSize
      /\ staged.payload \in Nat
    <2>1. IsArena(payload_arena)
        BY <1>1, DuringPublish
    <2>2. /\ payload_arena.buffer \in Word
          /\ payload_arena.size \in Word
          /\ payload_arena'.size \in Word
          /\ payload_arena'.size <= EventArenaSize
          /\ payload_arena.size <= EventArenaSize
        BY <1>1, <1>2, <2>1 DEF IsArena
    <2>. QED  BY <1>1, <2>2, Constants
<1>4. /\ staged.size = Len(bytes)
      /\ staged = Delivery(Recipients[Len(staged_listeners) + 1], context, staged.payload)
    BY DEF StagedDelivery, Delivery
<1>5. staged.payload + staged.size <= payload_arena.buffer + EventArenaSize
    <2>. HIDE DEF staged, bytes
    <2>1. /\ staged.payload + staged.size = payload_arena.buffer + payload_arena'.size
          /\ EventArenaSize \in Nat
        BY <1>1, Constants DEF PayloadEnd
    <2>. QED  BY <1>3, <2>1
<1>6. memory' = Copied(bytes, staged.payload)
    OBVIOUS
<1>. HIDE DEF staged, bytes, n, m
<1>7. ASSUME NEW k \in 1 .. n
      PROVE  ContentsIn(memory', payload_arena'.buffer, Copies[k])
                = ContentsIn(memory, payload_arena.buffer, Copies[k])
    <2>. DEFINE copy == Copies[k]
    <2>1. /\ copy.payload \in Nat
          /\ copy.size \in Nat
          /\ payload_arena.buffer <= copy.payload
          /\ copy.payload + copy.size <= payload_arena.buffer + payload_arena.size
        BY CopyPlaces DEF n
    <2>. HIDE DEF copy
    <2>2. copy.payload + copy.size <= staged.payload
        BY SMTT(30), <1>1, <1>3, <2>1
    <2>3. copy.payload + copy.size <= payload_arena.buffer + EventArenaSize
        BY SMTT(30), <1>3, <2>1, Constants
    <2>4. ContentsIn(Copied(bytes, staged.payload), payload_arena.buffer, copy)
            = ContentsIn(memory, payload_arena.buffer, copy)
        BY <1>2, <1>3, <2>1, <2>2, <2>3, CopiedKeeps
    <2>. QED  BY <1>1, <1>6, <2>4 DEF copy
<1>8. ContentsIn(memory', payload_arena'.buffer, staged) = bytes
    <2>1. payload_arena.buffer <= staged.payload
        BY <1>1, <1>3
    <2>2. ContentsIn(Copied(bytes, staged.payload), payload_arena.buffer, staged) = bytes
        BY <1>2, <1>3, <1>4, <1>5, <2>1, CopiedPuts DEF ByteString
    <2>. QED  BY <1>1, <1>6, <2>2
<1>9. context \in PublishedContexts /\ context' = context
    BY <1>1 DEF DeliveryInv, StagedInv
<1>10. ContentsInv'
    <2>1. /\ bytes \in Payloads
          /\ IsPowerOfTwo(context.alignment)
        BY <1>9 DEF PublishedContexts, Payloads, bytes
    <2>2. ASSUME NEW k \in 1 .. n + 1
          PROVE  /\ ContentsIn(memory', payload_arena'.buffer, Copies'[k]) \in Payloads
                 /\ IsPowerOfTwo(Copies'[k].alignment)
        <3>1. CASE k = n + 1
            BY <1>1, <1>8, <2>1, <3>1
        <3>2. CASE k # n + 1
            <4>1. k \in 1 .. n
                BY <1>2, <3>2
            <4>2. /\ ContentsIn(memory, payload_arena.buffer, Copies[k]) \in Payloads
                  /\ IsPowerOfTwo(Copies[k].alignment)
                BY <4>1 DEF DeliveryInv, ContentsInv, n
            <4>. QED  BY <1>1, <1>7, <4>1, <4>2
        <3>. QED  BY <3>1, <3>2
    <2>. QED  BY <1>1, <2>2 DEF ContentsInv
<1>11. StagedInv'
    <2>1. ASSUME NEW k \in 1 .. Len(staged_listeners')
          PROVE  /\ staged_listeners'[k] =
                        Delivery(Recipients'[k], context', staged_listeners'[k].payload)
                 /\ ContentsIn(memory', payload_arena'.buffer, staged_listeners'[k])
                        = context'.payload
        <3>1. CASE k = Len(staged_listeners) + 1
            <4>1. staged_listeners'[k] = staged
                BY <1>1, <1>2, <3>1
            <4>. QED  BY <1>1, <1>4, <1>8, <1>9, <3>1, <4>1 DEF bytes
        <3>2. CASE k # Len(staged_listeners) + 1
            <4>1. /\ k \in 1 .. Len(staged_listeners)
                  /\ staged_listeners'[k] = staged_listeners[k]
                BY <1>1, <1>2, <3>2
            <4>2. /\ m + k \in 1 .. n
                  /\ Copies[m + k] = staged_listeners[k]
                <5>1. m + k \in 1 .. n
                    BY <1>2, <4>1
                <5>2. Copies[m + k] = IF m + k <= m THEN queue[m + k]
                                      ELSE staged_listeners[(m + k) - m]
                    BY <1>1, <5>1 DEF Copies, n, m
                <5>. QED  BY <1>2, <4>1, <5>1, <5>2
            <4>3. /\ staged_listeners[k] =
                        Delivery(Recipients[k], context, staged_listeners[k].payload)
                  /\ ContentsIn(memory, payload_arena.buffer, staged_listeners[k])
                        = context.payload
                BY <1>1, <4>1 DEF DeliveryInv, StagedInv
            <4>. QED  BY <1>1, <1>7, <1>9, <4>1, <4>2, <4>3
        <3>. QED  BY <3>1, <3>2
    <2>. QED  BY <1>9, <2>1 DEF StagedInv
<1>12. PassInv'
    <2>1. /\ CommittedCount' = CommittedCount
          /\ pc # "loop" /\ pc' # "loop"
        BY <1>1 DEF CommittedCount
    <2>. QED  BY <2>1 DEF DeliveryInv, PassInv
<1>13. Pending' = Pending
    <2>1. HandedOver' = HandedOver
        BY DEF HandedOver
    <2>2. Published' = Published
        BY <1>1 DEF Published, m
    <2>3. ASSUME NEW k \in HandedOver + 1 .. Published
          PROVE  /\ queue'[k] = queue[k]
                 /\ ContentsIn(memory', payload_arena'.buffer, queue[k])
                        = ContentsIn(memory, payload_arena.buffer, queue[k])
        <3>1. k \in 1 .. n /\ queue[k] = Copies[k]
            BY MailboxBounds DEF n
        <3>. QED  BY <1>7, <3>1
    <2>. QED  BY <2>1, <2>2, <2>3, KeptPending
<1>14. Phase' = Phase
    BY DEF Phase
<1>. QED
    BY <1>10, <1>11, <1>12, <1>13, <1>14 DEF DeliveryInv, Promise!vars

\* A copy that does not fit: the call is refused.
LEMMA StageFailsDelivers ==
    ASSUME IInv, DeliveryInv, StageFails
    PROVE  DeliveryInv' /\ Promise!Refuse
<1>. DEFINE m == queue_checkpoint
<1>1. /\ InPublish /\ ~InPublish'
      /\ pc = "stage"
      /\ pc' = IF processing THEN "callback" ELSE "app"
      /\ Len(queue) = m
      /\ queue' = queue
      /\ payload_arena'.buffer = payload_arena.buffer
      /\ payload_arena'.size = arena_checkpoint
      /\ arena_checkpoint \in Word
      /\ CopyCount' = m
      /\ m \in 0 .. CopyCount
      /\ \A k \in 1 .. m : Copies'[k] = Copies[k]
      /\ \A k \in 1 .. m : Copies'[k] = queue[k]
      /\ Chain(Copies', CopyCount', payload_arena')
      /\ payload_arena'.size <= payload_arena.size
    BY RolledBack DEF StageFails
<1>2. /\ memory' = Forgotten(arena_checkpoint)
      /\ result' = FALSE
      /\ UNCHANGED <<live, registry, processing, destroy_requested, cursor, received>>
    BY DEF StageFails, RewindArena, PublishReturns, processVars
<1>3. /\ arena_checkpoint \in Nat
      /\ arena_checkpoint <= EventArenaSize
      /\ payload_arena.buffer \in Nat
    <2>1. /\ payload_arena.size <= EventArenaSize
          /\ payload_arena.size \in Word
          /\ payload_arena.buffer \in Word
        BY <1>1, DuringPublish DEF IsArena
    <2>2. /\ arena_checkpoint \in Nat
          /\ payload_arena.size \in Nat
          /\ payload_arena.buffer \in Nat
          /\ EventArenaSize \in Nat
        BY <1>1, <2>1, Constants
    <2>3. arena_checkpoint <= payload_arena.size
        BY <1>1
    <2>. QED  BY <2>1, <2>2, <2>3
<1>. HIDE DEF m
<1>4. ASSUME NEW k \in 1 .. m
      PROVE  /\ k \in 1 .. CopyCount
             /\ ContentsIn(memory', payload_arena'.buffer, Copies[k])
                   = ContentsIn(memory, payload_arena.buffer, Copies[k])
    <2>. DEFINE copy == Copies[k]
    <2>1. k \in 1 .. CopyCount
        BY <1>1, CopiesChain
    <2>2. /\ copy.payload \in Nat
          /\ copy.size \in Nat
          /\ payload_arena.buffer <= copy.payload
        BY <2>1, CopyPlaces
    <2>3. PayloadEnd(Copies'[k]) <= payload_arena'.buffer + payload_arena'.size
        <3>. HIDE DEF copy
        <3>. QED  BY <1>1 DEF Chain
    <2>4. copy.payload + copy.size <= payload_arena.buffer + arena_checkpoint
        BY <1>1, <2>3 DEF PayloadEnd
    <2>. HIDE DEF copy
    <2>5. ContentsIn(Forgotten(arena_checkpoint), payload_arena.buffer, copy)
            = ContentsIn(memory, payload_arena.buffer, copy)
        BY <1>3, <2>2, <2>4, ForgottenKeeps
    <2>. QED  BY <1>1, <1>2, <2>1, <2>5 DEF copy
<1>5. ContentsInv'
    BY <1>1, <1>4, KeptContents DEF DeliveryInv
<1>6. /\ HandedOver' = HandedOver
      /\ Published' = Published
      /\ Published = m
      /\ CommittedCount' = m /\ CommittedCount = m
    <2>1. HandedOver' = HandedOver
        BY <1>2 DEF HandedOver
    <2>2. CommittedCount' = m /\ CommittedCount = m
        BY <1>1 DEF CommittedCount, m
    <2>3. Published' = Published /\ Published = m
        BY <1>1 DEF Published
    <2>. QED  BY <2>1, <2>2, <2>3
<1>7. PassInv'
    BY <1>1, <1>2, <1>6 DEF DeliveryInv, PassInv
<1>8. StagedInv'
    BY <1>1 DEF StagedInv
<1>9. Pending' = Pending
    <2>1. ASSUME NEW k \in HandedOver + 1 .. Published
          PROVE  /\ queue'[k] = queue[k]
                 /\ ContentsIn(memory', payload_arena'.buffer, queue[k])
                        = ContentsIn(memory, payload_arena.buffer, queue[k])
        <3>1. k \in 1 .. m /\ queue[k] = Copies[k]
            BY <1>6, MailboxBounds
        <3>. QED  BY <1>1, <1>4, <3>1
    <2>. QED  BY <1>6, <2>1, KeptPending
<1>10. Phase' = Phase
    BY <1>2 DEF Phase
<1>11. Promise!ApplicationRuns
    BY <1>1, CallsAreMade
<1>. QED
    BY <1>2, <1>5, <1>7, <1>8, <1>9, <1>10, <1>11 DEF DeliveryInv, Promise!Refuse

\* A function on 1 .. n is a sequence of length n.
LEMMA FunctionIsSeq ==
    ASSUME NEW S, NEW n \in Nat, NEW f \in [1 .. n -> S]
    PROVE  f \in Seq(S) /\ Len(f) = n
OBVIOUS

\* What follows a sequence, element by element, is appended to it.
LEMMA IsConcatenation ==
    ASSUME NEW S, NEW s \in Seq(S), NEW t \in Seq(S), NEW u \in Seq(S),
           Len(u) = Len(s) + Len(t),
           \A k \in 1 .. Len(s) : u[k] = s[k],
           \A k \in 1 .. Len(t) : u[Len(s) + k] = t[k]
    PROVE  u = s \o t
<1>1. /\ s \o t \in Seq(S)
      /\ Len(s \o t) = Len(s) + Len(t)
      /\ Len(s) \in Nat /\ Len(t) \in Nat
    OBVIOUS
<1>2. ASSUME NEW k \in 1 .. Len(u) PROVE u[k] = (s \o t)[k]
    <2>1. CASE k <= Len(s)
        BY <1>1, <2>1
    <2>2. CASE k > Len(s)
        <3>1. /\ k - Len(s) \in 1 .. Len(t)
              /\ Len(s) + (k - Len(s)) = k
            BY <1>1, <2>2
        <3>2. (s \o t)[k] = t[k - Len(s)]
            BY <1>1, <2>2
        <3>. QED  BY <3>1, <3>2
    <2>. QED  BY <1>1, <2>1, <2>2
<1>. QED  BY <1>1, <1>2, SeqEqual

\* A delivery pushed: as long as it is not the last, the mailbox does not know
\* of it.
LEMMA EnqueueOneDelivers ==
    ASSUME IInv, DeliveryInv, EnqueueCopy, Enqueued + 1 < Len(Recipients)
    PROVE  DeliveryInv' /\ UNCHANGED Promise!vars
<1>1. /\ pc = "enqueue" /\ InPublish
      /\ UNCHANGED <<pc, result, publishVars>>
      /\ UNCHANGED <<payload_arena, memory>>
      /\ CopyCount' = CopyCount
      /\ \A k \in 1 .. CopyCount : Copies'[k] = Copies[k]
      /\ Len(queue) >= queue_checkpoint
      /\ queue_checkpoint \in Nat
      /\ Len(queue) \in Nat
      /\ \A k \in 1 .. Len(queue) : queue'[k] = queue[k]
    BY PushedCopy, PushKeepsCopies
<1>2. UNCHANGED <<live, registry, processing, destroy_requested, cursor, received>>
    BY DEF EnqueueCopy, processVars
<1>3. /\ UNCHANGED <<context, staged_listeners, queue_checkpoint>>
      /\ InPublish'
      /\ Recipients' = Recipients
      /\ CommittedCount' = CommittedCount
      /\ HandedOver' = HandedOver
      /\ Published' = Published
      /\ Published = queue_checkpoint
    <2>1. UNCHANGED <<context, staged_listeners, queue_checkpoint>>
        BY <1>1 DEF publishVars
    <2>2. InPublish'
        BY <1>1 DEF InPublish
    <2>3. Recipients' = Recipients
        BY <1>2, <2>1 DEF Recipients
    <2>4. CommittedCount' = CommittedCount
        BY <1>1, <2>1, <2>2 DEF CommittedCount
    <2>5. HandedOver' = HandedOver
        BY <1>2 DEF HandedOver
    <2>6. Published' = Published /\ Published = queue_checkpoint
        BY <1>1, <2>1 DEF Published
    <2>. QED  BY <2>1, <2>2, <2>3, <2>4, <2>5, <2>6
<1>4. PassInv'
    BY <1>1, <1>2, <1>3 DEF DeliveryInv, PassInv
<1>5. ContentsInv'
    BY <1>1, KeptContents DEF DeliveryInv
<1>6. StagedInv'
    BY <1>1, <1>3 DEF DeliveryInv, StagedInv
<1>7. Pending' = Pending
    <2>1. \A k \in HandedOver + 1 .. Published :
              /\ queue'[k] = queue[k]
              /\ ContentsIn(memory', payload_arena'.buffer, queue[k])
                    = ContentsIn(memory, payload_arena.buffer, queue[k])
        BY <1>1, <1>3, MailboxBounds
    <2>. QED  BY <1>3, <2>1, KeptPending
<1>8. UNCHANGED <<live, registry, Phase, received, result>>
    BY <1>1, <1>2 DEF Phase
<1>. QED  BY <1>4, <1>5, <1>6, <1>7, <1>8 DEF DeliveryInv, Promise!vars

\* With the last delivery the whole publication takes effect.
LEMMA EnqueueLastDelivers ==
    ASSUME IInv, DeliveryInv, EnqueueCopy, ~(Enqueued + 1 < Len(Recipients))
    PROVE  /\ DeliveryInv'
           /\ \E event \in PublishedContexts : Promise!Publish(event)
<1>. DEFINE m == queue_checkpoint
            h == HandedOver
            count == Len(Recipients)
<1>1. /\ pc = "enqueue" /\ InPublish
      /\ UNCHANGED <<payload_arena, memory>>
      /\ CopyCount' = CopyCount
      /\ \A k \in 1 .. CopyCount : Copies'[k] = Copies[k]
      /\ m \in Nat
      /\ count \in Nat
      /\ Len(queue) \in Nat
      /\ Len(queue) >= m
      /\ Len(queue) < m + count
      /\ Len(staged_listeners) = count
      /\ Enqueued \in Nat
      /\ Enqueued + 1 = (Len(queue) + 1) - m
      /\ Len(queue') = Len(queue) + 1
      /\ \A k \in 1 .. Len(queue) : queue'[k] = queue[k]
      /\ \A k \in m + 1 .. Len(queue') : queue'[k] = staged_listeners[k - m]
    BY PushedCopy, PushKeepsCopies
<1>2. /\ PublishReturns(TRUE)
      /\ UNCHANGED <<live, registry, processing, destroy_requested, cursor, received>>
    BY PushedCopy DEF EnqueueCopy, processVars
<1>3. /\ result' = TRUE
      /\ pc' = IF processing THEN "callback" ELSE "app"
      /\ ~InPublish'
    <2>1. /\ result' = TRUE
          /\ pc' = IF processing THEN "callback" ELSE "app"
        BY <1>2 DEF PublishReturns, Caller
    <2>. QED  BY <2>1 DEF InPublish
<1>4. /\ Len(queue') = m + count
      /\ count > 0
    BY <1>1
<1>5. /\ HandedOver' = h
      /\ Published = m
      /\ Published' = m + count
      /\ h \in Nat
      /\ h <= m
      /\ CommittedCount = m
      /\ CommittedCount' = m + count
    <2>1. HandedOver' = h
        BY <1>2 DEF HandedOver
    <2>2. Published = m /\ Published' = m + count
        BY <1>1, <1>3, <1>4 DEF Published
    <2>3. CommittedCount = m /\ CommittedCount' = m + count
        BY <1>1, <1>3, <1>4 DEF CommittedCount
    <2>. QED  BY <2>1, <2>2, <2>3, MailboxBounds
<1>6. PassInv'
    <2>. HIDE DEF m, count
    <2>1. CASE processing
        <3>1. received \in Messages /\ cursor <= m /\ cursor \in Nat
            BY <1>1, <1>5, <2>1, MailboxBounds DEF DeliveryInv, PassInv
        <3>2. cursor <= m + count
            BY <1>1, <3>1
        <3>. QED  BY <1>2, <1>3, <1>5, <2>1, <3>1, <3>2 DEF PassInv
    <2>2. CASE ~processing
        BY <1>2, <2>2 DEF DeliveryInv, PassInv
    <2>. QED  BY <2>1, <2>2
<1>7. ContentsInv'
    BY <1>1, KeptContents DEF DeliveryInv
<1>8. StagedInv'
    BY <1>3 DEF StagedInv
<1>9. /\ context \in PublishedContexts
      /\ \A k \in 1 .. count :
            /\ staged_listeners[k] =
                    Delivery(Recipients[k], context, staged_listeners[k].payload)
            /\ ContentsIn(memory, payload_arena.buffer, staged_listeners[k]) = context.payload
    BY <1>1 DEF DeliveryInv, StagedInv
<1>. DEFINE before == Pending
            after  == Pending'
            new    == Promise!MessagesFor(Recipients, context)
            buffer == payload_arena.buffer
<1>10. /\ before = [k \in 1 .. m - h |-> MessageIn(memory, buffer, queue[h + k])]
       /\ after  = [k \in 1 .. (m + count) - h |-> MessageIn(memory, buffer, queue'[h + k])]
    <2>1. /\ before = Mailbox(queue, h, m, memory, buffer)
          /\ after = Mailbox(queue', h, m + count, memory, buffer)
        BY <1>1, <1>5, PendingIsMailbox
    <2>. HIDE DEF h, m, count, before, after, buffer
    <2>. QED  BY <2>1 DEF Mailbox
<1>11. new = [k \in 1 .. count |-> Promise!Message(Recipients[k], context)]
    BY DEF Promise!MessagesFor
<1>12. ASSUME NEW k \in 1 .. count
       PROVE  MessageIn(memory, buffer, queue'[m + k]) = Promise!Message(Recipients[k], context)
    <2>1. queue'[m + k] = staged_listeners[k]
        <3>. HIDE DEF m, count
        <3>1. m + k \in m + 1 .. Len(queue') /\ (m + k) - m = k
            BY <1>1, <1>4
        <3>. QED  BY <1>1, <3>1
    <2>. DEFINE staged == staged_listeners[k]
    <2>2. /\ staged = Delivery(Recipients[k], context, staged.payload)
          /\ ContentsIn(memory, buffer, staged) = context.payload
        BY <1>9
    <2>. HIDE DEF staged, buffer
    <2>3. /\ staged.callback = Recipients[k].callback
          /\ staged.subscriber = Recipients[k].subscriber
          /\ staged.code = Recipients[k].code
          /\ staged.publisher = context.publisher
          /\ staged.alignment = context.alignment
        BY <2>2 DEF Delivery
    <2>4. MessageIn(memory, buffer, staged) = Promise!Message(Recipients[k], context)
        BY <2>2, <2>3 DEF MessageIn, Promise!Message
    <2>. QED  BY <2>1, <2>4 DEF staged
<1>13. ASSUME NEW k \in 1 .. m - h
       PROVE  queue'[h + k] = queue[h + k]
    <2>. HIDE DEF m, h
    <2>1. h + k \in 1 .. Len(queue)
        BY <1>1, <1>5
    <2>. QED  BY <1>1, <2>1
<1>14. after = before \o new
    <2>. DEFINE S == {after[k] : k \in 1 .. (m + count) - h}
    <2>. HIDE DEF h, m, count, before, after, new, buffer
    <2>1. /\ m - h \in Nat
          /\ (m + count) - h \in Nat
          /\ (m + count) - h = (m - h) + count
        BY <1>1, <1>5
    <2>2. ASSUME NEW k \in 1 .. m - h
          PROVE  /\ k \in 1 .. (m + count) - h
                 /\ after[k] = before[k]
        <3>1. k \in 1 .. (m + count) - h
            BY <1>1, <1>5, <2>1
        <3>. QED  BY <1>10, <1>13, <3>1
    <2>3. ASSUME NEW k \in 1 .. count
          PROVE  /\ (m - h) + k \in 1 .. (m + count) - h
                 /\ after[(m - h) + k] = new[k]
        <3>1. /\ (m - h) + k \in 1 .. (m + count) - h
              /\ h + ((m - h) + k) = m + k
            BY <1>1, <1>5, <2>1
        <3>. QED  BY <1>10, <1>11, <1>12, <3>1
    <2>4. after \in Seq(S) /\ Len(after) = (m + count) - h
        <3>1. after \in [1 .. (m + count) - h -> S]
            BY <1>10
        <3>. QED  BY <2>1, <3>1, FunctionIsSeq
    <2>5. before \in Seq(S) /\ Len(before) = m - h
        <3>1. before \in [1 .. m - h -> S]
            BY <1>10, <2>2
        <3>. QED  BY <2>1, <3>1, FunctionIsSeq
    <2>6. new \in Seq(S) /\ Len(new) = count
        <3>1. new \in [1 .. count -> S]
            BY <1>11, <2>3
        <3>2. count \in Nat
            BY <1>1
        <3>. QED  BY <3>1, <3>2, FunctionIsSeq
    <2>. HIDE DEF S
    <2>7. /\ Len(after) = Len(before) + Len(new)
          /\ \A k \in 1 .. Len(before) : after[k] = before[k]
          /\ \A k \in 1 .. Len(new) : after[Len(before) + k] = new[k]
        BY <2>1, <2>2, <2>3, <2>4, <2>5, <2>6
    <2>. QED  BY <2>4, <2>5, <2>6, <2>7, IsConcatenation
<1>15. /\ live
       /\ Phase' = Phase /\ Phase # "closing"
       /\ Recipients # <<>>
       /\ Promise!ApplicationRuns
    <2>1. live
        BY <1>1, DuringPublish
    <2>2. ~destroy_requested
        BY <1>1 DEF IInv, ControlInv, ImplOutlivesCalls
    <2>3. Phase' = Phase /\ Phase # "closing"
        BY <1>2, <2>2 DEF Phase
    <2>4. Recipients # <<>>
        BY <1>4
    <2>5. Promise!ApplicationRuns
        BY <1>1, CallsAreMade
    <2>. QED  BY <2>1, <2>3, <2>4, <2>5
<1>. HIDE DEF before, after, new
<1>16. Promise!Publish(context)
    <2>1. Recipients = registry[context.code]
        BY DEF Recipients
    <2>. QED
        BY <1>2, <1>3, <1>14, <1>15, <2>1 DEF Promise!Publish, before, after, new
<1>. QED  BY <1>6, <1>7, <1>8, <1>9, <1>16 DEF DeliveryInv

-----------------------------------------------------------------------------
(* A pass over the queue is a pass over the mailbox                        *)

\* The head and the tail of a mailbox.
LEMMA MailboxHead ==
    ASSUME NEW first \in Nat, NEW last \in Nat, first < last,
           NEW deliveries, NEW bytes, NEW buffer
    PROVE  LET box == Mailbox(deliveries, first, last, bytes, buffer)
           IN  /\ box # <<>>
               /\ Head(box) = MessageIn(bytes, buffer, deliveries[first + 1])
               /\ Tail(box) = Mailbox(deliveries, first + 1, last, bytes, buffer)
<1>. DEFINE box  == Mailbox(deliveries, first, last, bytes, buffer)
            rest == Mailbox(deliveries, first + 1, last, bytes, buffer)
            S    == {box[k] : k \in 1 .. last - first}
            at(k) == MessageIn(bytes, buffer, deliveries[k])
<1>1. /\ box = [k \in 1 .. last - first |-> at(first + k)]
      /\ rest = [k \in 1 .. last - (first + 1) |-> at((first + 1) + k)]
    BY DEF Mailbox
<1>2. last - first \in Nat /\ last - first >= 1 /\ last - (first + 1) = (last - first) - 1
    OBVIOUS
<1>. HIDE DEF at, box, rest
<1>3. box \in Seq(S) /\ Len(box) = last - first
    <2>1. box \in [1 .. last - first -> S]
        BY <1>1
    <2>. HIDE DEF S
    <2>. QED  BY <1>2, <2>1, FunctionIsSeq
<1>. HIDE DEF S
<1>4. box # <<>>
    BY <1>2, <1>3
<1>5. Head(box) = at(first + 1)
    BY <1>1, <1>2, <1>3, <1>4
<1>6. Tail(box) = rest
    <2>1. /\ Tail(box) \in Seq(S)
          /\ Len(Tail(box)) = (last - first) - 1
          /\ \A k \in 1 .. (last - first) - 1 : Tail(box)[k] = box[k + 1]
        BY <1>2, <1>3, <1>4
    <2>2. ASSUME NEW k \in 1 .. (last - first) - 1
          PROVE  box[k + 1] = at((first + 1) + k)
        <3>1. k + 1 \in 1 .. last - first /\ first + (k + 1) = (first + 1) + k
            BY <1>2
        <3>. QED  BY <1>1, <3>1
    <2>3. \A k \in 1 .. (last - first) - 1 : Tail(box)[k] = rest[k]
        BY <1>1, <1>2, <2>1, <2>2
    <2>4. rest \in [1 .. (last - first) - 1 -> S]
        <3>1. \A k \in 1 .. (last - first) - 1 : rest[k] \in S
            <4>1. \A k \in 1 .. (last - first) - 1 : Tail(box)[k] \in S
                BY <2>1
            <4>. QED  BY <2>3, <4>1
        <3>. QED  BY <1>1, <1>2, <3>1
    <2>5. rest \in Seq(S) /\ Len(rest) = (last - first) - 1
        BY <1>2, <2>4, FunctionIsSeq
    <2>. QED  BY <2>1, <2>3, <2>5, SeqEqual
<1>. QED  BY <1>4, <1>5, <1>6 DEF at, box, rest

\* event_bus_process on an empty queue.
LEMMA ProcessEmptyDelivers ==
    ASSUME IInv, DeliveryInv, ProcessEmpty
    PROVE  DeliveryInv' /\ Promise!EmptyPass
<1>. USE DEF ProcessEmpty
<1>1. ~InPublish
    BY DEF ApplicationRuns, InPublish
<1>2. DeliveryInv' /\ Pending' = Pending
    BY <1>1, Undisturbed DEF implVars, processVars
<1>3. Pending = <<>>
    <2>1. Published = 0
        BY <1>1 DEF Published, InPublish
    <2>2. HandedOver = 0
        BY <2>1, MailboxBounds
    <2>. QED  BY <2>1, <2>2, PendingIsMailbox, EmptyMailbox
<1>4. UNCHANGED <<live, registry, Phase, received>> /\ Phase = "idle"
    BY DEF implVars, processVars, Phase
<1>. QED  BY <1>2, <1>3, <1>4 DEF Promise!EmptyPass

\* event_bus_process begins a pass.
LEMMA ProcessDelivers ==
    ASSUME IInv, DeliveryInv, Process
    PROVE  DeliveryInv' /\ Promise!BeginPass
<1>. USE DEF Process
<1>1. /\ ~InPublish /\ ~InPublish'
      /\ received = Null /\ received' = Null
      /\ cursor = 0 /\ cursor' = 0
      /\ Len(queue) \in Nat
      /\ Len(queue) > 0
      /\ queue \in Seq(Deliveries)
    BY DEF InPublish, ApplicationRuns, DeliveryInv, PassInv, IInv, TypeOK
<1>2. /\ CopyCount' = CopyCount
      /\ \A k \in 1 .. CopyCount : Copies'[k] = Copies[k]
      /\ CommittedCount' = Len(queue)
    BY <1>1 DEF CopyCount, Copies, CommittedCount
<1>3. PassInv'
    BY <1>1, <1>2 DEF PassInv
<1>4. ContentsInv'
    BY <1>2, KeptContents DEF DeliveryInv
<1>5. StagedInv'
    BY <1>1 DEF StagedInv
<1>6. /\ HandedOver = 0 /\ HandedOver' = 0
      /\ Published = Len(queue) /\ Published' = Len(queue)
    BY <1>1 DEF HandedOver, Published, InPublish
<1>7. Pending' = Pending
    BY <1>6, KeptPending
<1>8. Pending # <<>>
    BY <1>1, <1>6, PendingIsMailbox, MailboxHead
<1>9. Phase = "idle" /\ Phase' = "pass"
    BY DEF Phase
<1>. QED
    BY <1>1, <1>3, <1>4, <1>5, <1>7, <1>8, <1>9 DEF DeliveryInv, Promise!BeginPass, publishVars

\* The callback is handed the oldest message of the mailbox.
LEMMA CallListenerDelivers ==
    ASSUME IInv, DeliveryInv, CallListener
    PROVE  DeliveryInv' /\ Promise!HandOver
<1>. USE DEF CallListener
<1>1. /\ ~InPublish /\ ~InPublish'
      /\ pc = "loop" /\ pc' = "callback"
      /\ live /\ processing /\ ~destroy_requested
      /\ cursor \in Nat /\ Len(queue) \in Nat
      /\ cursor < Len(queue)
      /\ received = Null
    BY DEF InPublish, IInv, TypeOK, ControlInv, ImplOutlivesCalls, DeliveryInv, PassInv
<1>2. UNCHANGED <<live, registry, queue, payload_arena, memory, processing,
                  destroy_requested, result, cursor>>
    BY DEF implVars
<1>3. /\ CopyCount' = CopyCount
      /\ \A k \in 1 .. CopyCount : Copies'[k] = Copies[k]
      /\ CommittedCount' = Len(queue)
    BY <1>1, <1>2 DEF CopyCount, Copies, CommittedCount
<1>. DEFINE message == MessageIn(memory, payload_arena.buffer, queue[cursor + 1])
<1>4. received' = message /\ message \in Messages
    <2>1. cursor + 1 \in 1 .. Len(queue)
        BY <1>1
    <2>2. /\ queue[cursor + 1] \in Deliveries
          /\ Contents(queue[cursor + 1]) \in ByteString
        BY <1>1, <2>1, QueuedContents
    <2>3. MessageOf(queue[cursor + 1]) \in Messages
        BY <2>2 DEF MessageOf, Messages, Deliveries, ByteString
    <2>4. MessageOf(queue[cursor + 1]) = message
        BY DEF MessageOf, MessageIn, Contents, ContentsIn
    <2>. QED  BY <2>3, <2>4
<1>. HIDE DEF message
<1>5. PassInv'
    BY <1>1, <1>2, <1>3, <1>4 DEF PassInv
<1>6. ContentsInv'
    BY <1>2, <1>3, KeptContents DEF DeliveryInv
<1>7. StagedInv'
    BY <1>1 DEF StagedInv
<1>8. /\ HandedOver = cursor /\ HandedOver' = cursor + 1
      /\ Published = Len(queue) /\ Published' = Len(queue)
    <2>1. received' # Null
        BY <1>4, NullAssumption
    <2>2. HandedOver = cursor /\ HandedOver' = cursor + 1
        BY <1>1, <1>2, <2>1 DEF HandedOver
    <2>. QED  BY <1>1, <1>2, <2>2 DEF Published
<1>9. /\ Pending # <<>>
      /\ Head(Pending) = message
      /\ Tail(Pending) = Pending'
    <2>1. /\ Pending = Mailbox(queue, cursor, Len(queue), memory, payload_arena.buffer)
          /\ Pending' = Mailbox(queue, cursor + 1, Len(queue), memory, payload_arena.buffer)
        BY <1>2, <1>8, PendingIsMailbox
    <2>. QED  BY <1>1, <2>1, MailboxHead DEF message
<1>10. Phase = "pass" /\ Phase' = "pass"
    BY <1>1, <1>2 DEF Phase
<1>. QED
    BY <1>1, <1>2, <1>4, <1>5, <1>6, <1>7, <1>9, <1>10 DEF DeliveryInv, Promise!HandOver

\* What a callback writes to its copy changes no message that is to come.
LEMMA CallbackWritesDelivers ==
    ASSUME IInv, DeliveryInv,
           NEW k \in 1 .. EventArenaSize, NEW byte \in Bytes, CallbackWrites(k, byte)
    PROVE  DeliveryInv' /\ UNCHANGED Promise!vars
<1>. USE DEF CallbackWrites, publishVars, processVars
<1>. DEFINE active  == active_listener
            i       == cursor + 1
            n       == CopyCount
            address == active.payload + (k - 1)
            buffer  == payload_arena.buffer
<1>1. /\ ~InPublish /\ ~InPublish'
      /\ pc = "callback" /\ pc' = pc
      /\ cursor \in Nat
      /\ i \in 1 .. n
      /\ active = Copies[i]
      /\ processing
      /\ k \in 1 .. active.size
      /\ memory' = Copied(<<byte>>, address)
    BY DEF InPublish, IInv, TypeOK, ControlInv, ImplOutlivesCalls, CommittedCount, CopyCount, Copies
<1>2. /\ CopyCount' = n
      /\ \A j \in 1 .. n : Copies'[j] = Copies[j]
      /\ CommittedCount' = CommittedCount
    BY <1>1 DEF CopyCount, Copies, CommittedCount
<1>3. /\ buffer \in Nat
      /\ payload_arena.size \in Nat
      /\ payload_arena.size <= EventArenaSize
      /\ EventArenaSize \in Nat
      /\ n \in Nat
    <2>1. /\ payload_arena.size <= EventArenaSize
          /\ payload_arena.size \in Word
          /\ payload_arena.buffer \in Word
        BY <1>1 DEF IInv, ControlInv, ImplOutlivesCalls, IsArena
    <2>. QED  BY <2>1, Constants, CopiesChain
<1>. HIDE DEF n
<1>4. ASSUME NEW j \in 1 .. n
      PROVE  /\ Copies[j].payload \in Nat
             /\ Copies[j].size \in Nat \ {0}
             /\ PayloadEnd(Copies[j]) = Copies[j].payload + Copies[j].size
             /\ buffer <= Copies[j].payload
             /\ Copies[j].payload + Copies[j].size <= buffer + EventArenaSize
    <2>1. /\ Copies[j].payload \in Nat
          /\ Copies[j].size \in Nat \ {0}
          /\ PayloadEnd(Copies[j]) = Copies[j].payload + Copies[j].size
          /\ buffer <= Copies[j].payload
          /\ PayloadEnd(Copies[j]) <= buffer + payload_arena.size
        BY CopyPlaces DEF n
    <2>. HIDE DEF buffer
    <2>. QED  BY <1>3, <2>1
<1>5. /\ active.payload \in Nat
      /\ active.size \in Nat
      /\ k \in Nat /\ k >= 1 /\ k <= active.size
      /\ address \in Nat
      /\ Len(<<byte>>) = 1
    <2>1. active.payload \in Nat /\ active.size \in Nat
        BY <1>1, <1>4
    <2>. HIDE DEF active
    <2>. QED  BY <1>1, <2>1
<1>6. ASSUME NEW j \in 1 .. n, j # i
      PROVE  ContentsIn(memory', buffer, Copies[j]) = ContentsIn(memory, buffer, Copies[j])
    <2>. DEFINE copy == Copies[j]
    <2>1. /\ copy.payload \in Nat
          /\ copy.size \in Nat
          /\ buffer <= copy.payload
          /\ copy.payload + copy.size <= buffer + EventArenaSize
        BY <1>4
    <2>2. \/ copy.payload + copy.size <= address
          \/ address + 1 <= copy.payload
        <3>1. CASE j < i
            <4>1. PayloadEnd(copy) <= active.payload
                BY <1>1, <3>1 DEF IInv, ArenaInv, PayloadsDisjoint, n
            <4>2. PayloadEnd(copy) = copy.payload + copy.size
                BY <1>4
            <4>. HIDE DEF copy, active
            <4>. QED  BY <1>5, <2>1, <4>1, <4>2
        <3>2. CASE j > i
            <4>1. PayloadEnd(active) <= copy.payload
                BY <1>1, <3>2 DEF IInv, ArenaInv, PayloadsDisjoint, n
            <4>2. PayloadEnd(active) = active.payload + active.size
                BY <1>1, <1>4
            <4>. HIDE DEF copy, active
            <4>. QED  BY <1>5, <2>1, <4>1, <4>2
        <3>. QED  BY <1>1, <1>6, <3>1, <3>2
    <2>. DEFINE bytes == <<byte>>
    <2>. HIDE DEF copy, address
    <2>4. /\ payload_arena.buffer \in Nat
          /\ payload_arena.buffer <= copy.payload
          /\ copy.payload + copy.size <= payload_arena.buffer + EventArenaSize
          /\ Len(bytes) \in Nat
          /\ \/ copy.payload + copy.size <= address
             \/ address + Len(bytes) <= copy.payload
        BY <1>3, <1>5, <2>1, <2>2
    <2>. HIDE DEF bytes
    <2>3. ContentsIn(Copied(bytes, address), payload_arena.buffer, copy)
            = ContentsIn(memory, payload_arena.buffer, copy)
        BY <1>5, <2>1, <2>4, CopiedKeeps
    <2>. QED  BY <1>1, <2>3 DEF copy, bytes
<1>7. ContentsIn(memory', buffer, Copies[i]) \in Payloads
    <2>. DEFINE old == ContentsIn(memory, buffer, active)
                new == ContentsIn(memory', buffer, active)
                at(j) == (active.payload - buffer) + (j - 1)
    <2>1. PICK sent \in {event \in Events : event.payload # Null} :
             old \in [1 .. Len(sent.payload) -> Bytes]
        BY <1>1 DEF DeliveryInv, ContentsInv, Payloads, n
    <2>2. /\ old = [j \in 1 .. active.size |-> memory[at(j)]]
          /\ new = [j \in 1 .. active.size |-> memory'[at(j)]]
        BY DEF ContentsIn
    <2>3. 1 .. active.size = 1 .. Len(sent.payload)
        <3>. HIDE DEF active, at, new
        <3>1. DOMAIN old = 1 .. active.size
            BY <2>2
        <3>2. DOMAIN old = 1 .. Len(sent.payload)
            BY <2>1
        <3>. QED  BY <3>1, <3>2
    <2>4. ASSUME NEW j \in 1 .. active.size PROVE memory'[at(j)] \in Bytes
        <3>1. at(j) \in Offsets
            <4>1. /\ active.size \in Nat
                  /\ buffer <= active.payload
                  /\ active.payload + active.size <= buffer + EventArenaSize
                BY <1>1, <1>4
            <4>. HIDE DEF active, buffer
            <4>2. at(j) \in 0 .. EventArenaSize - 1
                BY <1>3, <1>5, <4>1
            <4>. QED  BY <4>2 DEF Offsets
        <3>2. memory[at(j)] \in Bytes
            <4>1. old[j] = memory[at(j)]
                BY <2>2
            <4>2. old[j] \in Bytes
                <5>. HIDE DEF old, active
                <5>. QED  BY <2>1, <2>3
            <4>. QED  BY <4>1, <4>2
        <3>. HIDE DEF at, address
        <3>3. memory'[at(j)] = IF at(j) - (address - buffer) + 1 \in 1 .. Len(<<byte>>)
                               THEN <<byte>>[at(j) - (address - buffer) + 1]
                               ELSE memory[at(j)]
            BY <1>1, <3>1 DEF Copied
        <3>. QED  BY <3>2, <3>3
    <2>5. new \in [1 .. Len(sent.payload) -> Bytes]
        <3>. HIDE DEF at, active
        <3>. QED  BY <2>2, <2>3, <2>4
    <2>. HIDE DEF new
    <2>6. new \in Payloads
        BY <2>1, <2>5 DEF Payloads
    <2>. QED  BY <1>1, <2>6 DEF new
<1>8. ContentsInv'
    <2>1. ASSUME NEW j \in 1 .. n
          PROVE  /\ ContentsIn(memory', buffer, Copies[j]) \in Payloads
                 /\ IsPowerOfTwo(Copies[j].alignment)
        <3>1. /\ ContentsIn(memory, buffer, Copies[j]) \in Payloads
              /\ IsPowerOfTwo(Copies[j].alignment)
            BY DEF DeliveryInv, ContentsInv, n
        <3>2. CASE j = i
            BY <1>7, <3>1, <3>2
        <3>3. CASE j # i
            <4>1. ContentsIn(memory', buffer, Copies[j]) = ContentsIn(memory, buffer, Copies[j])
                BY <1>6, <3>3
            <4>. QED  BY <3>1, <4>1
        <3>. QED  BY <3>2, <3>3
    <2>2. payload_arena' = payload_arena
        OBVIOUS
    <2>. QED  BY <1>2, <2>1, <2>2 DEF ContentsInv
<1>9. PassInv' /\ StagedInv'
    BY <1>1, <1>2 DEF DeliveryInv, PassInv, StagedInv
<1>10. Pending' = Pending
    <2>1. HandedOver' = HandedOver
        BY DEF HandedOver
    <2>2. Published' = Published
        BY DEF Published
    <2>3. ASSUME NEW j \in HandedOver + 1 .. Published
          PROVE  /\ queue'[j] = queue[j]
                 /\ ContentsIn(memory', payload_arena'.buffer, queue[j])
                        = ContentsIn(memory, payload_arena.buffer, queue[j])
        <3>1. HandedOver = cursor + 1
            BY <1>1, MailboxBounds
        <3>2. j \in 1 .. n /\ j # i /\ queue[j] = Copies[j]
            BY <1>1, <3>1, MailboxBounds DEF n
        <3>3. ContentsIn(memory', buffer, Copies[j]) = ContentsIn(memory, buffer, Copies[j])
            BY <1>6, <3>2
        <3>. QED  BY <3>2, <3>3
    <2>. QED  BY <2>1, <2>2, <2>3, KeptPending
<1>11. UNCHANGED <<live, registry, Phase, received, result>>
    BY DEF Phase
<1>. QED  BY <1>8, <1>9, <1>10, <1>11 DEF DeliveryInv, Promise!vars

\* A callback returns.
LEMMA CallbackReturnsDelivers ==
    ASSUME IInv, DeliveryInv, CallbackReturns
    PROVE  DeliveryInv' /\ Promise!Return
<1>. USE DEF CallbackReturns, publishVars
<1>1. /\ ~InPublish /\ ~InPublish'
      /\ processing /\ ~destroy_requested
      /\ cursor \in Nat
      /\ cursor < CommittedCount
      /\ CommittedCount = Len(queue)
      /\ received # Null
    <2>1. /\ ~InPublish /\ ~InPublish'
          /\ processing /\ ~destroy_requested
          /\ cursor \in Nat
          /\ cursor < CommittedCount
        BY DEF InPublish, IInv, TypeOK, ControlInv, ImplOutlivesCalls
    <2>2. received # Null
        BY <2>1, NullAssumption DEF DeliveryInv, PassInv
    <2>. QED  BY <2>1, <2>2 DEF CommittedCount
<1>2. UNCHANGED <<live, registry, queue, payload_arena, memory, processing,
                  destroy_requested, result>>
    BY DEF implVars
<1>3. /\ CopyCount' = CopyCount
      /\ \A k \in 1 .. CopyCount : Copies'[k] = Copies[k]
      /\ CommittedCount' = Len(queue)
    BY <1>1, <1>2 DEF CopyCount, Copies, CommittedCount
<1>4. PassInv'
    <2>1. cursor' <= Len(queue)
        BY <1>1, MailboxBounds
    <2>. QED  BY <1>1, <1>2, <1>3, <2>1 DEF PassInv
<1>5. ContentsInv'
    BY <1>2, <1>3, KeptContents DEF DeliveryInv
<1>6. StagedInv'
    BY <1>1 DEF StagedInv
<1>7. Pending' = Pending
    <2>1. HandedOver' = HandedOver
        BY <1>1 DEF HandedOver
    <2>2. Published' = Published
        BY <1>2 DEF Published
    <2>. QED  BY <1>2, <2>1, <2>2, KeptPending
<1>8. Phase = "pass" /\ Phase' = "pass"
    BY <1>1, <1>2 DEF Phase
<1>. QED
    BY <1>1, <1>2, <1>4, <1>5, <1>6, <1>7, <1>8 DEF DeliveryInv, Promise!Return

\* The loop ends when the mailbox is empty, and with it the arena.
LEMMA ProcessEndsDelivers ==
    ASSUME IInv, DeliveryInv, ProcessEnds
    PROVE  DeliveryInv' /\ Promise!EndPass
<1>. USE DEF ProcessEnds
<1>1. /\ ~InPublish /\ ~InPublish'
      /\ processing /\ ~destroy_requested
      /\ cursor \in Nat
      /\ Len(queue) \in Nat
      /\ cursor >= Len(queue)
      /\ received = Null /\ received' = Null
      /\ queue' = <<>>
      /\ cursor' = 0
    BY DEF InPublish, IInv, TypeOK, ControlInv, ImplOutlivesCalls, DeliveryInv, PassInv
<1>2. CopyCount' = 0
    BY <1>1 DEF CopyCount
<1>3. DeliveryInv'
    BY <1>1, <1>2 DEF DeliveryInv, PassInv, ContentsInv, StagedInv
<1>4. Pending = <<>>
    <2>1. HandedOver = Published /\ Published \in Nat
        <3>1. Published = Len(queue) /\ HandedOver = cursor
            BY <1>1 DEF Published, HandedOver, InPublish
        <3>. QED  BY <1>1, <3>1, MailboxBounds
    <2>. QED  BY <2>1, PendingIsMailbox, EmptyMailbox
<1>5. Pending' = <<>>
    <2>1. HandedOver' = 0 /\ Published' = 0
        BY <1>1 DEF HandedOver, Published
    <2>. QED  BY <2>1, PendingIsMailbox, EmptyMailbox
<1>6. Phase = "pass" /\ Phase' = "idle"
    BY <1>1 DEF Phase
<1>. QED  BY <1>1, <1>3, <1>4, <1>5, <1>6 DEF Promise!EndPass

-----------------------------------------------------------------------------
(* The refinement                                                          *)

\* The bus starts as an empty mailbox that does not exist.
LEMMA InitDelivers == Init => DeliveryInv /\ Promise!Init
<1>. SUFFICES ASSUME Init PROVE DeliveryInv /\ Promise!Init
    OBVIOUS
<1>. USE DEF Init
<1>1. ~InPublish /\ CopyCount = 0
    BY DEF InPublish, CopyCount
<1>2. DeliveryInv
    BY <1>1 DEF DeliveryInv, PassInv, ContentsInv, StagedInv
<1>3. Pending = <<>>
    <2>1. HandedOver = 0 /\ Published = 0
        BY DEF HandedOver, Published
    <2>. QED  BY <2>1, PendingIsMailbox, EmptyMailbox
<1>4. Phase = "idle"
    BY DEF Phase
<1>5. registry = Promise!NoListeners
    BY DEF EmptyRegistry, Promise!NoListeners
<1>. QED  BY <1>2, <1>3, <1>4, <1>5 DEF Promise!Init

\* A step in which nothing happens.
LEMMA StutteringDelivers ==
    ASSUME IInv, DeliveryInv, UNCHANGED vars
    PROVE  DeliveryInv' /\ UNCHANGED Promise!vars
<1>. USE DEF vars, implVars, publishVars, processVars
<1>1. /\ InPublish' = InPublish
      /\ CommittedCount' = CommittedCount
      /\ CopyCount' = CopyCount
      /\ Copies' = Copies
    BY DEF InPublish, CommittedCount, CopyCount, Copies
<1>2. PassInv'
    BY <1>1 DEF DeliveryInv, PassInv
<1>3. ContentsInv'
    BY <1>1, KeptContents DEF DeliveryInv
<1>4. StagedInv'
    <2>1. Recipients' = Recipients
        BY DEF Recipients
    <2>. QED  BY <1>1, <2>1 DEF DeliveryInv, StagedInv
<1>5. Pending' = Pending
    <2>1. HandedOver' = HandedOver /\ Published' = Published
        BY DEF HandedOver, Published
    <2>2. queue' = queue /\ memory' = memory /\ payload_arena' = payload_arena
        OBVIOUS
    <2>. QED  BY <2>1, <2>2, PendingIsMailbox
<1>6. Phase' = Phase
    BY DEF Phase
<1>. QED  BY <1>2, <1>3, <1>4, <1>5, <1>6 DEF DeliveryInv, Promise!vars

\* Every step of the bus keeps DeliveryInv and is a step of the mailbox, or
\* leaves it alone.
LEMMA NextDelivers ==
    IInv /\ DeliveryInv /\ [Next]_vars => DeliveryInv' /\ [Promise!Next]_(Promise!vars)
<1>. DEFINE Goal == DeliveryInv' /\ [Promise!Next]_(Promise!vars)
<1>. SUFFICES ASSUME IInv, DeliveryInv, [Next]_vars PROVE Goal
    OBVIOUS
<1>1. ASSUME NEW buffer \in Buffers, Create(buffer) PROVE Goal
    BY <1>1, CreateDelivers DEF Promise!Next
<1>2. ASSUME DeliveryInv' /\ Promise!Refuse PROVE Goal
    BY <1>2 DEF Promise!Next
<1>3. CASE CreateFails
    BY <1>2, <1>3, RefusedDelivers DEF CreateFails, ApplicationRuns
<1>4. CASE Destroy
    BY <1>4, DestroyDelivers DEF Promise!Next
<1>5. CASE DestroyLater
    BY <1>5, DestroyLaterDelivers DEF Promise!Next
<1>6. ASSUME NEW descriptor \in Descriptors, Subscribe(descriptor) PROVE Goal
    BY <1>6, SubscribeDelivers DEF Promise!Next
<1>7. ASSUME NEW descriptor \in Descriptors, SubscribeRefused(descriptor) PROVE Goal
    BY <1>2, <1>7, RefusedDelivers DEF SubscribeRefused
<1>8. ASSUME NEW event \in Events, Publish(event) PROVE Goal
    <2>1. event \in PublishedContexts
        BY <1>8, AdmittedIsPublished DEF Publish
    <2>. QED  BY <1>8, <2>1, PublishDelivers
<1>9. ASSUME NEW event \in Events, PublishRefused(event) PROVE Goal
    BY <1>2, <1>9, RefusedDelivers DEF PublishRefused
<1>10. CASE pc = "callback" /\ Publish(ReceivedEvent)
    <2>1. ReceivedEvent \in PublishedContexts
        BY <1>10, ReceivedIsPublished
    <2>. QED  BY <1>10, <2>1, PublishDelivers
<1>11. CASE pc = "callback" /\ PublishRefused(ReceivedEvent)
    BY <1>2, <1>11, RefusedDelivers DEF PublishRefused
<1>12. CASE StageCopy
    BY <1>12, StageCopyDelivers
<1>13. CASE StageFails
    BY <1>2, <1>13, StageFailsDelivers
<1>14. CASE EnqueueCopy
    <2>1. CASE Enqueued + 1 < Len(Recipients)
        BY <1>14, <2>1, EnqueueOneDelivers
    <2>2. CASE ~(Enqueued + 1 < Len(Recipients))
        BY <1>14, <2>2, EnqueueLastDelivers DEF Promise!Next
    <2>. QED  BY <2>1, <2>2
<1>15. CASE ProcessRefused
    BY <1>2, <1>15, RefusedDelivers DEF ProcessRefused
<1>16. CASE ProcessEmpty
    BY <1>16, ProcessEmptyDelivers DEF Promise!Next
<1>17. CASE Process
    BY <1>17, ProcessDelivers DEF Promise!Next
<1>18. CASE CallListener
    BY <1>18, CallListenerDelivers DEF Promise!Next
<1>19. ASSUME NEW k \in 1 .. EventArenaSize, NEW byte \in Bytes, CallbackWrites(k, byte)
       PROVE  Goal
    BY <1>19, CallbackWritesDelivers
<1>20. CASE CallbackReturns
    BY <1>20, CallbackReturnsDelivers DEF Promise!Next
<1>21. CASE CallbackReturnsDestroyed
    BY <1>21, CallbackReturnsDestroyedDelivers DEF Promise!Next
<1>22. CASE ProcessEnds
    BY <1>22, ProcessEndsDelivers DEF Promise!Next
<1>23. CASE UNCHANGED vars
    BY <1>23, StutteringDelivers
<1>. HIDE DEF Goal
<1>. QED
    BY <1>1, <1>3, <1>4, <1>5, <1>6, <1>7, <1>8, <1>9, <1>10, <1>11, <1>12, <1>13,
       <1>14, <1>15, <1>16, <1>17, <1>18, <1>19, <1>20, <1>21, <1>22, <1>23
    DEF Next

\* DeliveryInv is an invariant of the bus: every copy keeps the bytes of the
\* event it was made of for as long as it is queued.
THEOREM DeliveryInvariance == Spec => []DeliveryInv
BY Invariance, InitDelivers, NextDelivers, PTL DEF Spec

\* The bus implements the mailbox: all or none of an event's listeners get it,
\* first in first out, once each, with the bytes that were published, whatever
\* callbacks do in the middle of a pass.
THEOREM BusImplementsDelivery == Spec => ImplementsDelivery
BY Invariance, InitDelivers, NextDelivers, DeliveryInvariance, PTL
   DEF Spec, ImplementsDelivery, Promise!Spec

=============================================================================
