------------------------------- MODULE Malloc -------------------------------
(***************************************************************************)
(* What kalloc and kfree promise (mem.c:311, mem.h:94-100): "allocates     *)
(* memory in a malloc fashion" inside the kernel heap.  A block is a pair  *)
(* <<address, size>>, in units of a header; the unit before the block is   *)
(* its header.                                                             *)
(***************************************************************************)
EXTENDS Integers

CONSTANTS
  Heap,              \* the units of memory that the heap may ever use
  Sizes              \* the sizes asked for

VARIABLES
  blocks,            \* the blocks handed out and not freed
  ret                \* what the last call, if of kalloc, returned, or NULL

NULL == 0
Extent(b) == b[1] - 1 .. b[1] + b[2] - 1

Init == blocks = {} /\ ret = NULL

(* A block of n units, one more at most, or NULL.  The block and its       *)
(* header lie in the heap and overlap nothing that was handed out.         *)
Alloc(n) ==
  \/ \E p \in Heap, m \in {n, n + 1} :
       /\ ret' = p
       /\ blocks' = blocks \cup {<<p, m>>}
       /\ Extent(<<p, m>>) \subseteq Heap
       /\ \A b \in blocks : Extent(b) \cap Extent(<<p, m>>) = {}
  \/ ret' = NULL /\ UNCHANGED blocks

(* Freeing a block gives back that block and no other. *)
Free(b) == blocks' = blocks \ {b} /\ ret' = NULL

(* Freeing anything else has no effect. *)
FreeStray == ret' = NULL /\ UNCHANGED blocks

Next == (\E n \in Sizes : Alloc(n)) \/ (\E b \in blocks : Free(b)) \/ FreeStray

Spec == Init /\ [][Next]_<<blocks, ret>>
=============================================================================
