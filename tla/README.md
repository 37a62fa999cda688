# UtiC in TLA+

UtiC is a small C library: an event bus, the allocators it is built on, a
dynamic array, a random generator, C strings and console output. It has no
threads and persists nothing. What is hard to test in it is

* **re-entrancy**: `event_bus_process` and `darray_for_each` call the
  application back in the middle of a loop, and the callback may call the same
  object again: publish into the queue that is being walked, subscribe,
  push, clear, destroy;
* **allocation failure**: every operation that allocates may fail half way, and
  must leave what was there before;
* **arithmetic at the end of a word**: addresses, sizes and capacities are
  rounded, doubled and multiplied close to the largest `usz`;
* **memory that several things share**: a header before a block, a string that overlaps
  another;
* **an environment that does half of what it was asked**: writes to the console that are cut
  short, interrupted or fail.

The modules in this directory model these parts. TLC checks them on small
instances, and TLAPS proves the safety of the event bus and its memory, the
arena, the system allocators, the counter, the dynamic array, the C strings, the
console and random ranges for every instance, refinements included. Paths below are relative to
`src/UtiC/src` (`.c`) and `src/UtiC/include/UtiC` (`.h`) of the repository.

## Inventory of the system

| Component | State | Operations | Calls | Modelled in |
|---|---|---|---|---|
| Event bus, `core/event_bus.c` | `EventBus.impl`; in it the registry (listeners of each code), the queue (a DArray), the payload arena, `processing`, `destroy_requested` | create, destroy, subscribe, publish, process, make_context | allocator, arena, DArray, the application's callbacks | `EventBus`, `EventDelivery`, `EventBusMemory` |
| Arena, `memory/arena.c` | buffer, capacity, size | create, destroy, clear, is_empty, get_allocator, alloc, free (nothing) | backing allocator | `ArenaOps`, `Arena`, `Heap` |
| Allocation interface, `memory/allocator.c` | none | alloc, alloc_zeroed, alloc_array, free, free_array | the allocator's two callbacks | `Allocator` |
| Allocator counter, `memory/allocator_counter.c` | five statistics | alloc and free behind an `Allocator`, get_allocator | backing allocator, an optional observer | `CountedHeap` |
| Dynamic array, `containers/darray.c` | buffer, element size and alignment, size, capacity | create, destroy, clear, push, push_zeroed, get_at, for_each | allocator, a callback | `DArray` |
| Random generator, `core/randy.c`, `core/detail/randy.inl.h` | four words | init, seed from time, next for every type, ranges, jump, long jump | clocks | `RandyRange`, `RandyOps`, `RandyEngine`, `JumpTables` |
| C strings, `string/cstr.c` | none (the caller's memory) | length, copy, append, compare | - | `CString` |
| System allocators, `platform/*/allocator_system.c` | a header before each block | alloc, free | malloc, HeapAlloc | `SystemAllocator`, `Heap` |
| Console, `platform/*/console.c` | none | write, writef, vwritef | write, WriteConsole, vsnprintf | `ConsoleWrite` |

How they interact: `event_bus_create` makes four allocations through one
`Allocator` (implementation, registry, queue array, arena buffer). Publishing
copies the payload into the arena once for each listener, stages a delivery for
each and then pushes the deliveries to the queue. Processing walks the queue by
index, hands each delivery to its callback, and clears queue and arena when the
index has reached the end. The tests put an `AllocatorCounter` between the
bus and the system allocator and expect its live counts to return to zero.

What makes the components correct:

* *Event bus.* Each publication reaches all listeners of its code or none; each
  delivery is handed over once, oldest first, with the bytes that were published
  and an alignment as asked for; payloads of different deliveries do not overlap;
  a refused publication leaves neither deliveries nor arena space behind; the queue is
  never reallocated (`event_bus_process` holds no pointer into it across the
  callback, but a failing growth is an error nobody handles completely); a pass
  ends; a bus destroyed in a callback stays until that callback returns, and then
  goes, with all four blocks, each freed with the size it was allocated with.
* *Arena.* Blocks are aligned, in bounds and disjoint; a request is
  refused only if it cannot be met; no sum wraps around.
* *Dynamic array.* It owns one block; a growth that fails changes nothing; the
  contents survive growth; element counts in bytes never overflow; a callback of
  `darray_for_each` gets an element that is there.
* *Counter.* Its statistics are those of the heap, never wrapped around.
* *Ranges.* The result lies in the range; all values of it are equally likely; the
  product computed from halves is the 128-bit product.
* *Generator.* No seed, draw or jump leads to the zero state, which draws do not change; a jump is
  exactly 2^128 or 2^64 draws, a long jump 2^192 or 2^96, so that streams that are a jump apart do not overlap.
* *System allocators.* Blocks are aligned, disjoint and inside what the system gave; the header before a
  block leads to its chunk for as long as the block is in use; no sum wraps around.
* *C strings.* Copy and append leave the intended string even if source and destination overlap,
  touch nothing else, refuse exactly what does not fit and tell the length that is needed.
* *Console.* What is shown is a prefix of the text, once and in order, all of it unless the system
  failed; the call returns.

## Modules

| Module | Extends | What it has |
|---|---|---|
| `Allocator` | | words of `WordMod` values, which requests the interface forwards and with which size |
| `ArenaOps` | `Allocator` | the arena's arithmetic on an `Arena` record, with every sum taken modulo `WordMod` |
| `Heap` | `ArenaOps` | abstract: what every allocator promises, blocks aligned and apart |
| `Arena` | `ArenaOps` | one arena, its allocator handle and the blocks it gave out; its refinement of `Heap` |
| `SystemAllocator` | `ArenaOps` | chunks of the system's heap, blocks in them and a byte memory with the headers; its refinement of `Heap` |
| `CountedHeap` | `Allocator` | a heap with its blocks, the `AllocatorCounter` in front of it and what the counter's callback was shown, as operators on one record |
| `DArray` / `MCDArray` | `CountedHeap` | one dynamic array, its heap and `darray_for_each` with its callback |
| `EventDelivery` | | abstract: what the bus promises, a first-in first-out mailbox |
| `EventBus` / `MCEventBus` | `ArenaOps` | the bus with queue, arena bytes, registry, control points; its refinement of `EventDelivery` |
| `EventBusMemory` / `MCEventBusMemory` | `CountedHeap` | who owns the bus's four blocks, with nested calls of `event_bus_process` as frames |
| `RandyRange` / `MCRandyRange` | | random integers from a range |
| `RandyOps` | | words as sets of bits; seeding, the change of the state by a draw, and jumps as operators on a state |
| `RandyEngine` / `MCRandyEngine` | `RandyOps` | the generator as a state machine |
| `JumpTables` | `RandyEngine` | the jump tables of the source against tables computed from the change of the state |
| `CString` | `Allocator` | one memory, and the string functions on pointers into it |
| `ConsoleWrite` | | the write loop, with what the operating system may answer |
| `MemoryProofs` | `ArenaOps`, `CountedHeap`, `TLAPS` | lemmas about the operators of both, which the proofs about components with memory cite |
| `ArenaProofs`, `SystemAllocatorProofs`, `DArrayProofs`, `EventBusProofs`, `EventBusMemoryProofs` | the module, `TLAPS` | its invariant and theorems |
| `RandyProofs` | `RandyRange`, `RandyOps`, `TLAPS` | the theorems of both, and of `RandyEngine` as an instance |
| `TextProofs` | `CString`, `ConsoleWrite`, `TLAPS` | the theorems of both (the specification of `ConsoleWrite` is `ConsoleSpec`, so that a module can extend both) |

### Correspondence with the code

`PROJECT.json`, under `map`, names the lines that every definition models.
In outline:

* **A call is one step unless it can be interrupted or fail in the middle.**
  `pc` names the line where the code is: in `EventBus`, `"loop"` is the head of
  the loop of `event_bus_process`, `"callback"` the application's code that it
  has called, `"stage"` and `"enqueue"` the two loops of `event_bus_publish`, one
  turn a step. In `EventBusMemory`, `"registry"`, `"queue"` and `"arena"` are the
  points of `event_bus_create` before its second, third and fourth allocation. In
  `ConsoleWrite`, `"write"` is the call of the system and `"check"` what the loop
  makes of its answer. There
  is one thread, so nothing interleaves with a call but the callbacks it makes and what the
  system does.
* **Callbacks** are the application: while `pc = "callback"` every operation the
  code allows may be called, any number of times, and the callback may write
  to its payload (`CallbackWrites`) or publish the context it was handed
  (`Publish(ReceivedEvent)`).
* **A refused call** is a step that sets `result` to `FALSE` (`SubscribeRefused`,
  `PublishRefused`, `ProcessRefused`, and `Refused` in `DArray`) under exactly the
  conditions of the early returns.
* **The arena** holds addresses, not offsets, and `memory` holds its bytes, so a payload
  that is overwritten, misplaced or cleared too early shows in what a callback
  receives. `arena_clear` and the rollback of a publication turn the bytes they
  release into `Junk`, which no listener may see.
* **The memory of `SystemAllocator`** has for each byte the base that it is part of, or `Junk`.
  `Write` lets the application overwrite a whole block, and `Free` finds the chunk by reading the memory,
  as `linux_free` does.
* **The memory of `CString`** is shared by all arguments of a call. `call` records the last call and
  what it returned, and the action properties compare the memory before and after.
* **A word of the generator** is the set of the positions of its bits that are 1, so that `^` is
  the symmetric difference and a shift adds to the positions. The widths and constants are fields of a
  build, as the library has one build for 32-bit and one for 64-bit words.
* **The queue** keeps the deliveries that were handed over until the pass ends, as the
  DArray does; `cursor` is the loop's index.
* **History variables** are named as such where they are declared: `received` (what the
  callback was handed), `blocks` (what an arena gave out), `heap.misused` (a free
  that does not match its allocation), `heap.observed` (the statistics that the counter's callback
  was last shown), `owned` (the application has a bus), `text` (what the console is to show), the
  `blocks` of `SystemAllocator`.
* **Mutations.** A definition preceded by a comment "Mutation of D" is D with a
  plausible mistake in it (a dropped rollback, a wrong size, a missing check). No specification
  uses it. Each property is listed in `PROJECT.json` with a mutation that violates it.

## What the runs check

| Run | Distinct states | What it shows |
|---|---|---|
| `event_bus` | 40,176 | payload copies in bounds, aligned, disjoint and accounted for; no reallocation of the queue; no duplicate listener; the implementation outlives the calls on it; **the bus implements the mailbox of `EventDelivery`** |
| `event_bus_liveness` | 11,560 | a pass ends even if every callback publishes again; a destruction requested in a callback happens |
| `event_bus_memory` | 277 | with any of the allocations failing and with destruction from the application and from callbacks: no leak, no double free, no free with another size, no use of a freed implementation |
| `event_bus_recreate` | violated | see the finding below |
| `arena` | 4,295 | blocks aligned, in bounds, disjoint; refusal only if the request fits nowhere; also at the last byte of the address space; **an arena implements `Heap`** |
| `system_allocator` | 4,875 | on both platforms, with sizes and alignments that overflow, are zero or no powers of two: the header of each block is aligned and keeps the base of its chunk; **the blocks implement `Heap`** |
| `darray` | 498,217 | one block, freed with its size; a push appends or, if it fails, changes no element, and only clearing and destroying take elements away; exact counters; live elements for callbacks |
| `randy_range` | 7,920 | every range of four types: in range, unbiased, exact product |
| `randy_engine` | 2,595 | two small builds: never the zero state; a jump is as many draws as two words have values, a long jump as three have |
| `jump_tables` | 1,058 | the tables of both real builds are those of 2^128 and 2^192, of 2^64 and 2^96 draws |
| `cstring` | 53,291 | copy, append and compare on every memory and with every legal pointer and capacity, overlaps included |
| `console_write` | 279 | with writes cut short, interrupted and failing: a prefix of the text, all of it unless the system failed; the call returns |

**Bounds.** The small sizes are chosen so that every limit is met and every early
return taken.

* `EventBus.cfg`: a queue of three deliveries and two listeners for one event, so a
  publication meets a queue with room for one of its two copies; an arena of four bytes
  at an even and at an odd address with payloads of one and two bytes aligned to one and
  two, so that copies need padding and the arena runs out between the copies of one event;
  two event codes and an event with and one without a publisher; one argument of each kind that is refused (`MCEvents`,
  `MCDescriptors`). The state space is finite because the queue and
  the arena are: no step bound is needed. Three deliveries are enough for a callback that
  publishes while another delivery waits.
* `EventBusLiveness.cfg`: the same without refused arguments (they change only
  `result`) and with one address.
* `EventBusMemory.cfg`: five blocks, one more than a bus needs, so that a
  freed address can come back; four different sizes, so that mixing two blocks up shows;
  `MaxAllocations` 13 allows three complete creations. The blocks are symmetric, as they are
  only compared. `event_bus_recreate` needs two creations.
* `Arena.cfg`: words of four bits; buffers of 0, 5 and 7 bytes at addresses 4, 9 and 11, where
  9 + 7 is the end of the address space; sizes up to the largest word; alignments that are
  powers of two and some that are not.
* `DArray.cfg`: words of four bits and elements of two and three bytes, so that
  the largest capacities, 7 and 5, are reached by a growth that cannot double; two blocks and four
  allocations (`MaxAllocations`), which is a creation and as many growths as it takes to get
  there from a capacity of three or one.
* `RandyRange.cfg`: draws of four bits with halves of two bits; types of three and of four
  bits, signed and not, all ranges of each. The code is the same at every width, and the theorems
  cover the widths that TLC cannot.
* `SystemAllocator.cfg`: words of five bits, pointers of two bytes; a size that is zero, an odd one, and one
  that overflows with any header; alignments below and above that of a pointer, zero, and one
  that is no power of two. The address space holds several chunks (three bytes with a header of two), so that blocks
  lie between others, are freed in any order, and the last byte is used.
* `RandyEngine.cfg`: one build for each way of seeding (words as wide as a seed, words half as wide), all seeds.
  Their shifts and rotations give cycles of 585 and of 255 states, so that a jump by a wrong number of draws
  shows, and their tables were computed as those of `JumpTables` are.
* `JumpTables.cfg`: the real widths, shifts, rotations and tables. The state space is one computation for each build,
  and its length is given by the widths.
* `CString.cfg`: five bytes of memory with two characters, every content; words of three
  bits, so that the lengths of a string and itself can have a sum that is no word.
* `ConsoleWrite.cfg`: texts of up to six bytes and a buffer of five, so that formatted text is cut by
  more than the null; six bytes are cut in every way.

**Deadlock** is checked in every run but `jump_tables`: the application can always make a call. The
computation of `JumpTables` ends.

**Fairness** (`FairSpec` of `EventBus`). The library's own steps are weakly fair: there is
one thread and what it has begun goes on. `CallbackReturns` is strongly fair: a
callback that calls the bus is suspended by each of its calls, so its return is not
continuously enabled, and it makes finitely many calls. Without this assumption on the application no call of
`event_bus_process` needs to end. Nothing makes the application call the bus at all.
Given that, the pass ends because deliveries already handed over count against
the limits of the queue and the arena until the pass is over. The abstract `EventDelivery` has
corresponding fairness conditions; the refinement is checked for safety.
In `ConsoleWrite` the loop goes on and a call of the system returns (weak fairness), and a `write` that is tried again
and again is not interrupted each time (strong fairness of `LinuxWrites \/ LinuxFails`): the loop has no
limit on interruptions, so without this a program under endless signals never returns. That the system shows
anything is not assumed: it may fail forever.

**Refinement.** `EventBus!Promise` maps the queue from the cursor on to `pending`, and the
control points to `"idle"`, `"pass"` and `"closing"`. A publication takes effect in the step
that pushes its last delivery; until then the deliveries pushed are invisible, as `Published`
says. `received` and `result` are shared. The mapping reads payloads out of `memory`, so it
relates arena, queue and cursor. `Arena` and `SystemAllocator` implement `Heap` with `blocks` as they are: `Heap` has
neither buffer nor chunks nor headers, and asks of each new block that it is an object of the address
space, aligned and apart from those in use. Releasing any set of blocks at once covers `free` as well as
`arena_clear` and `arena_destroy`.

### Finding

`event_bus_recreate` violates `DestroyedLeavesNothing`. A callback calls `event_bus_destroy` (which
only sets `destroy_requested`, since a pass is on) and then `event_bus_create` on the same handle, which begins
with `*bus = (EventBus) { 0 }` and does not look at what the handle held. When the callback
returns, `event_bus_process` tests `destroy_requested` of the implementation it began with but destroys
`bus->impl` (`core/event_bus.c:184`): the old implementation and its three blocks are never freed. In
TLC's counterexample the second creation fails, so `bus->impl` is NULL and
nothing is freed at all; if it succeeds, the new bus is destroyed in place of the old one.
`src/Tests/event_bus_tests.c:495` expects no live allocations after a destruction from a callback.
With `RecreateWhileDying = FALSE` (the application creates a bus only on a handle whose bus is gone) the
same property holds.

## What is proved

All proofs are checked by TLAPS 1.4.5 with Z3, Zenon and LS4; there is no unproved step. They hold for every
value of the constants that satisfies the named assumptions.

**Event bus** (`EventBusProofs`). Assumptions: the limits are natural numbers, those of the
listeners and of the queue positive (`LimitsAssumption`); the backing allocator returns blocks inside the address space
(`BuffersAssumption`); arguments are records of the shape of their C structs (`DescriptorsAssumption`,
`EventsAssumption`); a callback always has a context (`NullAssumption`); `WordAssumption`. Proved for every sequence of calls and callbacks: `TypeOK`, `ImplOutlivesCalls`, `PayloadsInBounds`,
`PayloadsDisjoint`, `NoLostArenaSpace`, `QueueNeverReallocates`, `NoDuplicateListeners`.

The properties are not inductive by themselves: that the arena gives out a fresh
block needs to know that its size is where the last copy ends, also in the middle of
a publication; that the rollback restores that needs to know that the checkpoint is where the last
committed copy ends; that a push succeeds in the second loop needs the room
promised by the check before the first. The inductive invariant is

    IInv == TypeOK /\ ControlInv /\ PublishInv /\ ArenaInv
                   /\ QueueNeverReallocates /\ NoDuplicateListeners

`ControlInv` relates the control point to `processing`, `cursor` and the delivery being handed
over; `PublishInv` has the checkpoints and the counts of a publication in progress; `ArenaInv`
says that the copies (queued, then staged) form a chain of disjoint blocks that ends at the
arena's size. The proof has one lemma for each action. `Chain` (in the proofs) is the chain as
a predicate on a sequence, with lemmas on appending to it (`ChainAppend`) and cutting it
(`ChainPrefix`), and the arena lemma below provides the appended block.

**The bus implements the mailbox** (second half of `EventBusProofs`). `BusImplementsDelivery` is the safety of the whole
component: `Spec => ImplementsDelivery`, with the refinement mapping above. `IInv` says where the copies lie; the mapping
reads their bytes, so a second invariant says what these are (`DeliveryInvariance`):

    DeliveryInv == PassInv /\ ContentsInv /\ StagedInv

`PassInv` relates `received`, `processing` and `cursor`; `ContentsInv` says that every copy, queued or staged, has the
bytes of an event and none of `Junk`; `StagedInv` that a running publication has staged, for each of the first listeners,
one delivery with the bytes of the event it was called with, which the mapping alone does not say: `Publish` of
the mailbox may choose the event. `CopiedKeeps` (a `memcpy` beside a copy),
`CopiedPuts` (one to it) and `ForgottenKeeps` (a rollback above it) are all that happens to memory; that copies are
disjoint and end where the arena ends (`ArenaInv`) makes them applicable. Then there is one lemma for each action
(`...Delivers`): the first loop of `event_bus_publish` and all but the last push of the second are
stutters, the last push is `Publish`, a copy that does not fit is `Refuse`, a turn of the loop of `event_bus_process` is `HandOver`, and what a
callback writes to its own copy changes no message that is still to come.

**Memory of the event bus** (`EventBusMemoryProofs`), for all block sizes and every order of failing allocations
(`MemoryAssumption`, `HeapAssumption`, `WordAssumption`). Two layers. For every application:

    IInv == HeapSound(heap) /\ TypeOK /\ frames \in Seq(Frames) /\ (pc = "loop" => frames # <<>>)
            /\ PartsHeld /\ FramesSound /\ WhileCreating

`PartsHeld` says that the bus's blocks are distinct and each of the size of what it is used for, as
far as the creation has come; `FramesSound` that each call of `event_bus_process` in progress is the only one on its
implementation, which is allocated, marked as processing, and no part of the current bus. From it: `TypeCorrect`, `FramesStayAlive`,
`FreesMatchAllocations`. These hold also for an application with the habit of the finding above, which loses memory but never uses or
frees it twice. The second layer excludes that habit (`~RecreateWhileDying`, without which the two properties are
false, as `event_bus_recreate` shows): `SoleBus` says that the blocks in use are those of the bus, that the only call in
progress is on it, and when a bus nobody owns any more may still be there. From it: `BlocksAreOwned` and
`DestructionLeavesCounterAtZero`.

**Counter and heap** (`MemoryProofs`). Lemmas on the operators on a heap record, used by the two components that have one.
`HeapSound` says that the counter is exact and nothing was misused; `AllocIsSound` and `FreeIsSound` that an allocation, and a
free with the size and alignment of the allocation, keep it. The counter computes modulo the word size: `WrapEither` and
`DifferenceOfTotals` show that live counts never wrap around, while totals may. The bytes outstanding are counted as a
set of numbered bytes, so that the library's facts on cardinalities tell how it changes, where a sum over blocks
would need induction.

**Dynamic array** (`DArrayProofs`), for all words, element sizes, alignments and initial capacities, with growths failing at any time.
All eight properties of the run are proved, from

    IInv == HeapSound(heap) /\ TypeOK /\ OwnsItsBuffer /\ BufferIsFreeable
            /\ ElementsWritten /\ DOMAIN cells = Blocks

`BufferIsFreeable` (a buffer's size in bytes is a `usz`, so that `allocator_free_array` forwards it) is what makes freeing
the old buffer of a growth succeed; `QuotientFits` shows it for the largest capacity and for the doubled one. `ContentsAreKept` ties
each change of the elements to its call: a successful push appends (`PushAppends`), a failed one changes no element, only
`darray_clear` and `darray_destroy` empty the array. That creating an array loses nothing needs `BufferIsFreeable`: an array without a buffer has no elements. `ContentsAreKept`,
`MovesWhenFull` and `CallsGetLiveElements` are action properties, proved with the invariant in the state before.

**Arena** (`MemoryProofs`, `ArenaProofs`). `AlignedAddress`: although rounding up wraps around at the
end of the address space, an allocation that passes the two comparisons of `_arena_alloc` has not
wrapped around. `AllocatedBlock` and `AllocatesLowest` say where the block is and that no lower one and,
if the request is refused, none at all would do. From these: `TypeCorrect`, `BlocksAreSound`, `EmptinessIsTold`, `AllocationIsExact`,
with the invariant `TypeOK /\ BlocksSound /\ EmptyIsEmpty`. `AlignmentAssumption` states that a power of two below
the word size divides the word size, which is true of the words of a machine. `ArenaImplementsHeap`
is the refinement: an allocation is an `Allocate` of a block apart from the others (`AllocIsAllocate`), everything else a
`Release` or a stutter.

**System allocators** (`SystemAllocatorProofs`). Assumptions: a pointer's size is a power of two and two of
them fit in a word (`SystemAssumption`); of two powers of two one divides the other
(`PowersAssumption`, stated for those it is needed for); `WordAssumption`. `AddressIsSound` is the
address arithmetic of both platforms: for a request that the checks admit and any chunk of the size computed, the
header lies in the chunk, is aligned as a pointer, and the block after it is aligned and ends in the chunk,
although rounding up is done by negating an unsigned address in one and by an addition in the other. The
invariant is

    IInv == OnPlatform /\ ChunksSound /\ ChunksApart /\ BlocksUsable
                       /\ OneBlockEach /\ HeadersIntact

`HeadersIntact` alone is not inductive: that freeing a block frees no other's chunk needs `OneBlockEach`, that a write
or a new header leaves the other headers alone needs chunks that are apart. Proved from it: `HeadersStayIntact`
and `SystemAllocatorImplementsHeap`.

**Generator** (`RandyProofs`). `DrawIsLinear`: the state after a draw from the sum of two states is the sum of
the states after draws from each, for every width, shift and rotation. This is what a jump by a
polynomial and the method of `JumpTables` rest on. `DrawIsOneToOne`: two states that a draw maps to one are one,
so no draw leads to the zero state and streams never merge; it follows from linearity and from
`OnlyZeroGivesZero`, which needs that a word equal to itself shifted is zero. `DrawsNeverReachZero` says so of behaviours: a
generator that only draws, from any state but zero, stays out of it. It is weaker than `Spec => []NeverZero`, as it leaves out what
a seed and a jump make. `JumpIsLinear`: a jump is linear too, with any table. `JumpCommutesWithDraw`: a jump
and a draw can change places, so that two generators that are a jump apart, and are drawn from equally often, stay a jump apart;
and a table that jumps right from one state does so from every state drawn from it, and from the sums of such states, which is
why `JumpTables` may look at one state for each build. Both are inductions on the turns of the loop of `randy_apply_jump`: the
turn before is one of two states, or of a state and the next, and `DrawIsLinear` carries the relation over the turn. The library's
induction theorems cannot be used, so `TurnByTurn` takes the least turn for which the relation does not hold; `LoopRuns` shows
in the same way that the recursive function of the model has a value at each turn. `BuildsAssumption`: words have bits and the shift is not zero.

**Ranges** (`RandyProofs`). `RangeIsKept`: the result lies in the range for types and draws of every
width, because the keys of the values of a type count them from the lowest (`EncodeCounts`,
`DecodeCounts`) and the high half of a product is less than its factor (`HighHalf`). The
invariant adds that a call that draws has a non-empty range. `RangeIsUnbiased`: as many accepted draws lead to one value of
the range as to any other. The products of the draws with the width are the multiples of the width below
its product with `DrawMod`; those with one high half lie in one stretch of `DrawMod` numbers; of the
stretch, what is left above the threshold `DrawMod % width` has a length that the width divides, so it holds
`DrawMod \div width` multiples wherever it begins (`AcceptsFromThreshold`, `DrawsWithHighHalf`).
`MultiplyHighIsProduct`: none of the sums and
products that are cut to a draw is cut off, and the halves are those of the product; `LimbsStayExact` says so of every call.

**C strings** (`TextProofs`), for all words, memories, alphabets and capacities (`MemoryAssumption`: the memory has at most as many
bytes as a word can count, and the null is no character; `WordAssumption`). `StringIsWritten` and `CallsReportTruly` are the two action
properties of the run. They hold of a step from any state, as the functions keep none: no invariant is needed. The lemmas
say what the operators return: `LengthIsFirstNull` and its converse `FirstNullIsLength` (that there is a first null, because
a set of numbers has a minimum), `SpelledString` (bytes that spell a text and end with a null are that string), `MovedBytes`
(the destination gets what the source was, although the two may overlap), `TerminatedIsFits` (the search for a null within the
capacity finds a string that fits there, or there is none). From these, `CopyIsRight` and `AppendIsRight`: the bytes before the end of the destination are not
moved, those after it are the source's, and the sum of the lengths, which is a word if `SumFits`, is cut nowhere. If it is no
word, no capacity would have been enough, so that the refusal tells the truth.

**Console** (`TextProofs`), for texts and buffers of every length, under `ConsoleAssumption`. `ConsoleShowsText` is `ShowsTheText`, which says nothing of what is
still to be shown. The invariant does:

    ConsoleInv: pc # "idle" => message # <<>> /\ text = shown \o Left

`Left` is the message, or what the last `write` left of it, when the pointer and the size of `linux_console_write_all` have not yet moved on. A `write` cuts a piece from the front of the rest and
shows it (`ShownAndLeft`, `ShowsKeepsText`); an interruption or failure does neither; the call ends well only when nothing is left.

**Only model-checked**: liveness, of the bus and of the console (fairness and ENABLED are beyond the prover), so
`ProcessTerminates`, `DestroyCompletes` and `WriteReturns`; that no seed or jump gives the zero state (it depends on the numbers of the
seeding and of the tables and holds for those of
`MCRandyEngine`; with the real constants the mixing is one to one and the numbers mixed are distinct, so that
only one of the two or four results can be zero); that jumps are draws (`JumpsAreDraws`) and that the tables are
right (`TablesAreRight`), which are facts about the numbers of the tables, found by computing with them; what carries them from one state to all is proved.

## What is not modelled, and why

* The scrambling that makes a result of a state word, floating-point draws and the seed from the clock: functions of a word without
  state, numbers that TLA+ does not have, and pure I/O.
* What `vsnprintf` puts into the buffer, and its errors: formatting. The buffer on Windows is static, which matters only to
  several threads, and the library has none.
* `EventBus` models one bus with one handle and creates it only when it has none; creation on a handle that still has a bus
  is in `EventBusMemory`. Two buses share nothing but their allocator.
* Nested calls of `event_bus_process` on the same bus are refused by the code (`processing`), and are
  modelled as such. Passes over two implementations of one handle, the older one dying, nest only in the run `event_bus_recreate`.
* `event_bus_make_context` and `types.h` have no state. Tests, examples, benchmarks and build files are clients.

## Plan

All components that keep state are modelled, and every safety property is proved but those that depend on the numbers of the seeding and of the tables. What is left:

1. That no seed gives the zero state. `DrawsNeverReachZero` has the draws; the seeding needs that a product with an odd
   number is one to one modulo a power of two, an induction on the exponent.
2. That the polynomial arithmetic of `JumpTables` is that of draws; with `JumpIsLinear` and `JumpCommutesWithDraw` its run would
   show `JumpsAreDraws` for the real builds.
3. Liveness, when the prover can reason about ENABLED.
