-------------------------------- MODULE Heap --------------------------------
(***************************************************************************)
(* The kernel's heap, kalloc and kfree of drivers/mem.c, on top of the     *)
(* physical allocator (here FrameAllocator, which module Frames            *)
(* implements).  Calls are made by the kernel's one thread and by no       *)
(* interrupt handler, so a call is one step.  Addresses and sizes are in   *)
(* units of sizeof(struct mem_entry).                                      *)
(*                                                                         *)
(* The list that starts at mem_head is the sequence list: next is the      *)
(* following element, prev is never read by the code, and mem_head itself, *)
(* which is neither free nor used, stands before the first.                *)
(***************************************************************************)
EXTENDS Integers, Sequences, SequencesExt

CONSTANTS
  ENTRY_SIZE,             \* bytes in a struct mem_entry: 16
  MEM_FRAME_SIZE,         \* mem.h:44
  MEM_KERNEL_FIRST_FRAME, \* mem.h:47
  MEM_USER_FIRST_FRAME,   \* mem.h:62
  ReservedFrames,         \* those of the heap's frames that mem_setup reserves
  Requests                \* the sizes of kalloc's callers, in bytes

ASSUME HeapAssumption ==
  /\ ENTRY_SIZE \in Nat \ {0}
  /\ MEM_FRAME_SIZE \in Nat \ {0} /\ MEM_FRAME_SIZE % ENTRY_SIZE = 0
  /\ MEM_FRAME_SIZE > ENTRY_SIZE
  /\ MEM_KERNEL_FIRST_FRAME \in Nat \ {0} /\ MEM_USER_FIRST_FRAME \in Nat
  /\ Requests \subseteq Nat

(* mem.c:18-19: reserved regions in the heap's range are not supported.    *)
(* The bitmap and the two stacks are at its two ends.                      *)
ASSUME NoHole ==
  \A a, b \in (MEM_KERNEL_FIRST_FRAME .. MEM_USER_FIRST_FRAME - 1) \ ReservedFrames :
    a .. b \cap ReservedFrames = {}

FRAME_UNITS == MEM_FRAME_SIZE \div ENTRY_SIZE
KernelFrame == 0 .. MEM_USER_FIRST_FRAME

VARIABLES
  frames,     \* the status of the kernel's page frames
  chunk,      \* the frame that mem_allocate_frames returned last, or NULL
  list,       \* the entries
  ret         \* what the last call, if of kalloc, returned, or NULL

vars == <<frames, chunk, list, ret>>

Physical == INSTANCE FrameAllocator WITH Frame <- KernelFrame, status <- frames, result <- chunk

NULL == 0
Entry == [addr : Nat, size : Nat, used : BOOLEAN]
Free(addr, size) == [addr |-> addr, size |-> size, used |-> FALSE]

(* kalloc_init (mem.c:304-309), called by mem_setup. *)
Init ==
  /\ frames = [g \in KernelFrame |->
       IF g \in ReservedFrames \/ g < MEM_KERNEL_FIRST_FRAME
       THEN Physical!RESERVED ELSE Physical!FREE]
  /\ chunk = NULL /\ list = <<>> /\ ret = NULL

-----------------------------------------------------------------------------
(* kalloc (mem.c:312-365).                                                 *)

Ceiling(a, b) == a \div b + (IF a % b > 0 THEN 1 ELSE 0)
Units(bytes)  == Ceiling(bytes, ENTRY_SIZE)                         \* 316-318
FramesFor(u)  == Ceiling((u + 1) * ENTRY_SIZE, MEM_FRAME_SIZE)      \* 350-352

(* Lines 326 and 331: the entry fits, exactly, or so that the unit left    *)
(* over would have no room for anything but a header, or with a remainder. *)
FirstFit(l, u) == SelectInSeq(l, LAMBDA e : ~e.used /\ e.size >= u)

Take_keep(l, k, u) ==             \* mutant: line 340 left out
  IF l[k].size <= u + 1
  THEN [l EXCEPT ![k].used = TRUE]
  ELSE InsertAt([l EXCEPT ![k].used = TRUE], k + 1,
                Free(l[k].addr + u + 1, l[k].size - u - 1))

(* Lines 326-343: the k-th entry becomes a block of u units. *)
Take(l, k, u) ==
  IF l[k].size <= u + 1
  THEN [l EXCEPT ![k].used = TRUE]
  ELSE InsertAt([l EXCEPT ![k].used = TRUE, ![k].size = u], k + 1,
                Free(l[k].addr + u + 1, l[k].size - u - 1))

(* An entry of the list fits. *)
KallocFit(bytes) ==
  LET u == Units(bytes)
      k == FirstFit(list, u)
  IN /\ k # 0
     /\ list' = Take(list, k, u)
     /\ ret' = list[k].addr + 1
     /\ UNCHANGED <<frames, chunk>>

(* None does: lines 350-363 append a chunk of frames as a free entry, and  *)
(* the loop goes on to take its block from that.                           *)
KallocGrow(bytes) ==
  LET u == Units(bytes)
      n == FramesFor(u)
      grown == Append(list, Free(chunk' * FRAME_UNITS, n * FRAME_UNITS - 1))
  IN /\ FirstFit(list, u) = 0
     /\ Physical!Allocate(n, MEM_KERNEL_FIRST_FRAME, MEM_USER_FIRST_FRAME)
     /\ IF chunk' = NULL
        THEN ret' = NULL /\ UNCHANGED list
        ELSE /\ list' = Take(grown, Len(grown), u)
             /\ ret' = chunk' * FRAME_UNITS + 1

kalloc(bytes) == KallocFit(bytes) \/ KallocGrow(bytes)

-----------------------------------------------------------------------------
(* kfree (mem.c:367-409).                                                  *)

Join_nohead(l, k) ==              \* mutant: the header of k + 1 is lost
  RemoveAt([l EXCEPT ![k].size = @ + l[k + 1].size], k + 1)
(* Lines 392-395 and 400-403: entry k takes in entry k + 1. *)
Join(l, k) == RemoveAt([l EXCEPT ![k].size = @ + l[k + 1].size + 1], k + 1)

JoinPrevious_none(l, k) == l      \* mutant: lines 398-404 left out
JoinPrevious(l, k) == IF k > 1 /\ ~l[k - 1].used THEN Join(l, k - 1) ELSE l
JoinNext(l, k) == IF k < Len(l) /\ ~l[k + 1].used THEN Join(l, k) ELSE l

(* A pointer that is no entry's, or a free entry's, is ignored. *)
kfree(p) ==
  LET k == SelectInSeq(list, LAMBDA e : e.addr + 1 = p)
  IN /\ list' = IF k = 0 \/ ~list[k].used THEN list
                ELSE JoinPrevious(JoinNext([list EXCEPT ![k].used = FALSE], k), k)
     /\ ret' = NULL
     /\ UNCHANGED <<frames, chunk>>

-----------------------------------------------------------------------------
HeapUnits == MEM_KERNEL_FIRST_FRAME * FRAME_UNITS .. MEM_USER_FIRST_FRAME * FRAME_UNITS - 1

Next ==
  \/ \E bytes \in Requests : kalloc(bytes)
  \/ \E p \in HeapUnits \cup {NULL} : kfree(p)

Spec == Init /\ [][Next]_vars
-----------------------------------------------------------------------------
(* Properties.                                                             *)

(* Type correctness.                                                       *)
TypeOK ==
  /\ frames \in [KernelFrame -> {Physical!FREE, Physical!USED, Physical!RESERVED}]
  /\ chunk \in KernelFrame
  /\ list \in Seq(Entry)
  /\ ret \in HeapUnits \cup {NULL}

(* The state is well typed, and the entries and their headers, in the      *)
(* order of the list, tile the frames that the heap has taken: no memory   *)
(* is lost between them, none belongs to two (mem.c:331-340, 391-404).     *)
UnitsOf(e) == e.addr .. e.addr + e.size
Tiles ==
  /\ TypeOK
  /\ \A k \in 1..Len(list) - 1 : list[k + 1].addr = list[k].addr + list[k].size + 1
  /\ UNION {UnitsOf(list[k]) : k \in 1..Len(list)}
       = UNION {g * FRAME_UNITS .. (g + 1) * FRAME_UNITS - 1 :
                  g \in {h \in KernelFrame : frames[h] = Physical!USED}}

(* No two neighbours are free: what was freed is joined, so that when      *)
(* everything has been freed the heap is one entry again (mem.c:389-404).  *)
NoFreeNeighbours ==
  \A k \in 1..Len(list) - 1 : list[k].used \/ list[k + 1].used

Blocks == {<<list[k].addr + 1, list[k].size>> : k \in {j \in 1..Len(list) : list[j].used}}
Malloc == INSTANCE Malloc WITH Heap <- HeapUnits, Sizes <- {Units(b) : b \in Requests},
                               blocks <- Blocks

(* kalloc hands out blocks large enough that overlap no other block or     *)
(* header, and kfree takes back the one block it is given; a stray or a    *)
(* second kfree has no effect (mem.c:311, 376-385).                        *)
ImplementsMalloc == Malloc!Spec
=============================================================================
