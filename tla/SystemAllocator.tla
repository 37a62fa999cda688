---------------------------- MODULE SystemAllocator ----------------------------
(***************************************************************************)
(* The allocators of the operating systems                                 *)
(* (platform/{linux,win32}/allocator_system.c).  A block is cut out of a   *)
(* larger chunk of the system's heap so that it is aligned, and the word   *)
(* before it, its header, says where the chunk begins: nothing else leads  *)
(* from the block to the chunk when the block is freed.  (On Windows the   *)
(* header also has the size of the chunk, which is never read.)            *)
(*                                                                         *)
(* The application may call the callbacks of the Allocator itself, not     *)
(* only through allocator_alloc, with any size and alignment.              *)
(***************************************************************************)
EXTENDS ArenaOps

CONSTANTS
    PointerSize,    \* sizeof(void*), and its alignment
    Sizes,          \* sizes and alignments that
    Alignments      \*   the application asks for

ASSUME SystemAssumption ==
    /\ PointerSize \in Word
    /\ IsPowerOfTwo(PointerSize)
    /\ 2 * PointerSize <= WordMax
    /\ Sizes \subseteq Word
    /\ Alignments \subseteq Word

\* Of two powers of two one divides the other, and the number of words is one.
ASSUME PowersAssumption ==
    \A alignment \in Word : IsPowerOfTwo(alignment) =>
        /\ WordMod % alignment = 0
        /\ alignment % PointerSize = 0 \/ PointerSize % alignment = 0

Junk == WordMod     \* the contents of a byte that is not part of a base

VARIABLES
    platform,   \* "linux" or "win32"
    chunks,     \* the chunks of the system's heap in use
    memory,     \* for each byte: the base it is part of, or Junk
    blocks      \* history: the blocks that the application holds

vars == <<platform, chunks, memory, blocks>>

-----------------------------------------------------------------------------

\* LinuxAllocatorHeader has one field, Win32AllocatorHeader has two words.
HeaderSize == IF platform = "linux" THEN PointerSize ELSE 2 * PointerSize

EffectiveAlignment(alignment) == IF alignment = 0 THEN PointerSize ELSE alignment

\* Mutation of Overhead: the header is as large as the padding it needs.
OverheadUnpadded(alignment) == (HeaderSize + 0 * alignment) % WordMod

Overhead(alignment) == (HeaderSize + (alignment - 1)) % WordMod

\* The sums below do not overflow for what passes.
Admits(size, alignment) ==
    /\ size # 0
    /\ IsPowerOfTwo(alignment)
    /\ alignment - 1 <= WordMax - HeaderSize
    /\ size <= WordMax - Overhead(alignment)

\* Mutation of AddressIn: the block is aligned within the chunk before the
\* header is placed.
AddressInTight(base, alignment) == AlignForward(base, alignment)

\* unaligned + (-unaligned & padding) on Linux, _align_forward on Windows.
AddressIn(base, alignment) ==
    LET unaligned == (base + HeaderSize) % WordMod
    IN  IF platform = "linux"
        THEN (unaligned + (((0 - unaligned) % WordMod) % alignment)) % WordMod
        ELSE AlignForward(unaligned, alignment)

\* malloc and HeapAlloc return an object apart from the others.
Obtainable(base, size) ==
    /\ IsObject(base, size)
    /\ base % PointerSize = 0
    /\ \A chunk \in chunks : base + size <= chunk.base \/ chunk.base + chunk.size <= base

Bytes(address, size) == address .. address + size - 1

-----------------------------------------------------------------------------

Init ==
    /\ platform \in {"linux", "win32"}
    /\ chunks = {}
    /\ memory = [byte \in Word |-> Junk]
    /\ blocks = {}

\* linux_alloc, _win32_alloc.  A request that is refused, by the callback or by
\* the system, changes nothing.
Alloc(size, requested, base) ==
    LET alignment == EffectiveAlignment(requested)
        total     == (size + Overhead(alignment)) % WordMod
        address   == AddressIn(base, alignment)
    IN  /\ Admits(size, alignment)
        /\ Obtainable(base, total)
        /\ chunks' = chunks \cup {[base |-> base, size |-> total]}
        /\ memory' = [byte \in Word |->
                        IF byte \in Bytes(address - HeaderSize, PointerSize) THEN base
                        ELSE IF byte \in Bytes(address - HeaderSize, HeaderSize) THEN Junk
                        ELSE memory[byte]]
        /\ blocks' = blocks \cup {[address |-> address, size |-> size,
                                   alignment |-> alignment]}
        /\ UNCHANGED platform

\* The application writes to a block, all over it.
Write(block) ==
    /\ memory' = [byte \in Word |->
                    IF byte \in Bytes(block.address, block.size) THEN Junk ELSE memory[byte]]
    /\ UNCHANGED <<platform, chunks, blocks>>

\* header->base
Base(block) == memory[block.address - HeaderSize]

\* linux_free, _win32_free: the size and alignment they are told do not matter.
\* The system's heap reuses the bytes of the chunk.
Free(block) ==
    LET freed == {chunk \in chunks : chunk.base = Base(block)}
    IN  /\ chunks' = chunks \ freed
        /\ memory' = [byte \in Word |->
                        IF \E chunk \in freed : byte \in Bytes(chunk.base, chunk.size)
                        THEN Junk ELSE memory[byte]]
        /\ blocks' = blocks \ {block}
        /\ UNCHANGED platform

Next ==
    \/ \E size \in Sizes, alignment \in Alignments, base \in Word :
            Alloc(size, alignment, base)
    \/ \E block \in blocks : Write(block)
    \/ \E block \in blocks : Free(block)

Spec == Init /\ [][Next]_vars

-----------------------------------------------------------------------------
(* Properties                                                              *)

\* The chunk that a block was cut out of, with its header before it.
CutFrom(block, chunk) ==
    /\ chunk.base + HeaderSize <= block.address
    /\ block.address + block.size <= chunk.base + chunk.size

\* Whatever is written to the blocks, every byte of the pointer in a header
\* keeps the base of the chunk that holds the header and the block, so that
\* freeing the block frees that chunk, and the header is aligned as a pointer
\* must be, also if the block is not; and no chunk is in use without a block.
HeadersIntact ==
    /\ \A block \in blocks :
          /\ (block.address - HeaderSize) % PointerSize = 0
          /\ \E chunk \in chunks :
                /\ CutFrom(block, chunk)
                /\ \A byte \in Bytes(block.address - HeaderSize, PointerSize) :
                      memory[byte] = chunk.base
    /\ \A chunk \in chunks : \E block \in blocks : CutFrom(block, chunk)

Promise == INSTANCE Heap

\* The blocks are usable and apart, although their addresses and the sizes of
\* the chunks are computed with arithmetic that wraps around.
ImplementsHeap == Promise!Spec

=============================================================================
