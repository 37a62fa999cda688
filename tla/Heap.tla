--------------------------------- MODULE Heap ---------------------------------
(***************************************************************************)
(* What every allocator of the library promises to those who hold it       *)
(* (memory/allocator.h): the blocks in use are objects of the address      *)
(* space, aligned as asked for, and share no byte.  There are no chunks    *)
(* behind the blocks here, no headers and no buffer.                       *)
(*                                                                         *)
(* A block is given back by its owner, or with others at once, by the      *)
(* destruction of what they were taken from.                               *)
(***************************************************************************)
EXTENDS ArenaOps

VARIABLE blocks     \* the blocks in use

Block == [address : Word, size : Word, alignment : Word]

BlockEnd(block) == block.address + block.size

Apart(b, c) == BlockEnd(b) <= c.address \/ BlockEnd(c) <= b.address

Usable(block) ==
    /\ block \in Block
    /\ block.size # 0
    /\ IsObject(block.address, block.size)
    /\ block.alignment # 0
    /\ block.address % block.alignment = 0

-----------------------------------------------------------------------------

Init == blocks = {}

Allocate(block) ==
    /\ Usable(block)
    /\ \A other \in blocks : Apart(block, other)
    /\ blocks' = blocks \cup {block}

Release == blocks' \subseteq blocks

Next ==
    \/ \E block \in blocks' \ blocks : Allocate(block)
    \/ Release

Spec == Init /\ [][Next]_blocks

=============================================================================
