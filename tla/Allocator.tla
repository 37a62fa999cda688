------------------------------ MODULE Allocator ------------------------------
(***************************************************************************)
(* The arithmetic of the common allocation interface (memory/allocator.c): *)
(* which requests it forwards to the alloc and free callbacks of an        *)
(* Allocator and which it turns into NULL.  Sizes and addresses are words: *)
(* usz and uptr are unsigned integers modulo WordMod, NULL is address 0.   *)
(*                                                                         *)
(* The module declares no variables: it is extended by the modules of the  *)
(* components that allocate.                                               *)
(***************************************************************************)
EXTENDS Integers

CONSTANT
    WordMod     \* 2 to the number of bits of a usz (and of a uptr)

ASSUME WordAssumption == WordMod \in Nat /\ WordMod > 1

-----------------------------------------------------------------------------

NullAddress == 0

\* Every value a usz can hold.
Word == 0 .. WordMod - 1

\* (usz)-1
WordMax == WordMod - 1

\* n != 0 && (n & (n - 1)) == 0: exactly one bit of n is set, that is, n has
\* no odd divisor but 1.
IsPowerOfTwo(n) ==
    /\ n # 0
    /\ \A d \in 1 .. n : n % d = 0 => d = 1 \/ d % 2 = 0

\* allocator_alloc and allocator_free forward these requests to the callbacks.
Forwards(size, alignment) ==
    /\ size # 0
    /\ IsPowerOfTwo(alignment)

\* allocator_alloc_array and allocator_free_array refuse a product that a usz
\* cannot hold, so what they forward is the true size of the array.
ArrayFits(element_size, count) ==
    /\ element_size # 0
    /\ count # 0
    /\ count <= WordMax \div element_size

ForwardsArray(element_size, alignment, count) ==
    /\ ArrayFits(element_size, count)
    /\ Forwards(element_size * count, alignment)

=============================================================================
