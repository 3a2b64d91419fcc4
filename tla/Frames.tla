------------------------------- MODULE Frames -------------------------------
(***************************************************************************)
(* The physical page frame allocator of drivers/mem.c: mem_setup, which    *)
(* builds the bitmap from the memory map of the BIOS, kmain's request for  *)
(* its stack, and mem_allocate_frames and mem_release_frames for the       *)
(* kernel heap and for user processes.  The scan of the bitmap advances a  *)
(* frame a step; it runs between lock and unlock, so nothing else happens  *)
(* to the bitmap meanwhile (module Serial is about lock itself).           *)
(***************************************************************************)
EXTENDS Integers, FiniteSets

CONSTANTS
  MaxFrames,              \* the frames there are entries for: 2^20 in the code
  MEM_FRAME_SIZE,         \* in bytes: 4096 in mem.h:44
  MEM_KERNEL_FIRST_FRAME, \* mem.h:47, where the bitmap and the heap start
  MEM_USER_FIRST_FRAME,   \* mem.h:62
  Maps,                   \* the memory maps considered: sets of regions
  HeapCounts, UserCounts  \* the sizes of the requests of kalloc and proc_exec

(* A region as INT 15h, AX = E820h describes it (mem.c:81-85), in bytes.   *)
Region == [base : Nat, size : Nat, available : BOOLEAN]
Frame  == 0 .. MaxFrames

ASSUME FramesAssumption ==
  /\ MaxFrames \in Nat /\ MEM_FRAME_SIZE \in Nat \ {0}
  /\ MEM_KERNEL_FIRST_FRAME \in Nat \ {0} /\ MEM_USER_FIRST_FRAME \in Frame
  /\ MEM_KERNEL_FIRST_FRAME + 2 <= MEM_USER_FIRST_FRAME
  /\ HeapCounts \subseteq Frame \ {0} /\ UserCounts \subseteq Frame \ {0}

(* mem.h:53-58, in frames.  MEM_KERNEL_ISTACK_FRAME is computed from       *)
(* MEM_KERNEL_STACK_TOP, and so is MEM_KERNEL_STACK_FRAME.                 *)
MEM_KERNEL_ISTACK_TOP   == MEM_USER_FIRST_FRAME
MEM_KERNEL_STACK_TOP    == MEM_KERNEL_ISTACK_TOP - 1
MEM_KERNEL_ISTACK_FRAME == MEM_KERNEL_STACK_TOP - 1
MEM_KERNEL_STACK_FRAME  == MEM_KERNEL_STACK_TOP - 1

VARIABLES
  pc,                 \* stack, ready, scan, panic
  map,                \* the memory map the BIOS left
  mem_total_frames,
  bitmap,             \* the entry of each frame
  count, first, last, \* the request being served
  f, free_f,          \* the loop variables of mem_allocate_frames
  r,                  \* the block got last, as a frame number, or NULL
  held                \* history: the blocks given out and not released

vars == <<pc, map, mem_total_frames, bitmap, count, first, last, f, free_f, r, held>>
request == <<count, first, last>>

Allocator == INSTANCE FrameAllocator WITH status <- bitmap, result <- r

NULL == Allocator!NULL
FREE == Allocator!FREE
USED == Allocator!USED
RESERVED == Allocator!RESERVED
Block(s, n) == s .. s + n - 1

-----------------------------------------------------------------------------
(* mem_setup (mem.c:122-200), with which the allocator starts to exist.    *)

EndOf(e) == e.base + e.size

(* Lines 128-134: the end of the region that ends last. *)
TotalFrames(m) ==
  (CHOOSE a \in {EndOf(e) : e \in m} : \A e \in m : EndOf(e) <= a) \div MEM_FRAME_SIZE

(* What the BIOS returns: regions of an address space that has MaxFrames.  *)
ASSUME MapsAssumption ==
  \A m \in Maps : m \subseteq Region /\ TotalFrames(m) \in Frame

(* Lines 140-153: an available region must hold the bitmap, for which the  *)
(* code counts two bytes a frame where two bits would do.                  *)
BITMAP_ADDR == MEM_KERNEL_FIRST_FRAME * MEM_FRAME_SIZE
BitmapFits(m, total) ==
  \E e \in m : e.available /\ e.base <= BITMAP_ADDR
                           /\ EndOf(e) >= BITMAP_ADDR + total * 2

RegionFrames_none(m) == {}                  \* mutant: the loop left out

(* Lines 160-178: the regions that are not available, each through the     *)
(* frame in which it ends.                                                 *)
RegionFrames(m) ==
  UNION { e.base \div MEM_FRAME_SIZE .. EndOf(e) \div MEM_FRAME_SIZE :
            e \in {d \in m : ~d.available} }

(* Lines 179-190: everything up to the end of the bitmap.                  *)
KernelFrames_exclusive(total) ==            \* mutant: < for <= at line 183
  0 .. ((BITMAP_ADDR + total \div 4) \div MEM_FRAME_SIZE) - 1
KernelFrames(total) == 0 .. (BITMAP_ADDR + total \div 4) \div MEM_FRAME_SIZE

StackFrames == {MEM_KERNEL_ISTACK_FRAME, MEM_KERNEL_STACK_FRAME}   \* 192-194

Init ==
  /\ map \in Maps
  /\ mem_total_frames = TotalFrames(map)
  /\ bitmap = [g \in Frame |->
       IF g \in RegionFrames(map) \cup KernelFrames(mem_total_frames) \cup StackFrames
       THEN RESERVED ELSE FREE]
  /\ pc = IF BitmapFits(map, mem_total_frames) THEN "stack" ELSE "panic"
  /\ count = 1 /\ first = 0 /\ last = 0 /\ f = 0 /\ free_f = 0
  /\ r = NULL /\ held = {}

-----------------------------------------------------------------------------
(* mem_allocate_frames (mem.c:206-236).                                    *)

Call_noclamp(n, from, to) ==                \* mutant: last > mem_total_frames forgotten
  /\ count' = n /\ first' = from
  /\ last' = IF to = 0 THEN mem_total_frames ELSE to
  /\ f' = from /\ free_f' = 0
  /\ pc' = "scan"
  /\ UNCHANGED <<map, mem_total_frames, bitmap, r, held>>

(* Lines 211-216. *)
Call(n, from, to) ==
  /\ count' = n /\ first' = from
  /\ last' = IF to = 0 \/ to > mem_total_frames THEN mem_total_frames ELSE to
  /\ f' = from /\ free_f' = 0
  /\ pc' = "scan"
  /\ UNCHANGED <<map, mem_total_frames, bitmap, r, held>>

(* kmain, for its stack (kernel.c:43-49). *)
AllocateStack ==
  /\ pc = "stack"
  /\ Call(1, MEM_KERNEL_STACK_FRAME, MEM_USER_FIRST_FRAME)

(* kalloc (mem.c:353-355) and proc_exec (proc.c:158-160). *)
AllocateHeap ==
  /\ pc = "ready"
  /\ \E n \in HeapCounts : Call(n, MEM_KERNEL_FIRST_FRAME, MEM_USER_FIRST_FRAME)
AllocateUser ==
  /\ pc = "ready"
  /\ \E n \in UserCounts : Call(n, MEM_USER_FIRST_FRAME, 0)

Run_keep == free_f + 1                      \* mutant: line 220 left out
Run == IF bitmap[f] = FREE THEN free_f + 1 ELSE 0

(* One turn of the loop, lines 216-231. *)
Scan ==
  /\ pc = "scan" /\ f < last
  /\ IF Run = count
     THEN /\ bitmap' = Allocator!Mark(bitmap, f - count + 1 .. f, USED)
          /\ r' = f - count + 1
          /\ held' = held \cup {<<r', count>>}
          /\ pc' = "ready"
          /\ UNCHANGED <<f, free_f>>
     ELSE /\ free_f' = Run /\ f' = f + 1
          /\ UNCHANGED <<bitmap, r, held, pc>>
  /\ UNCHANGED <<map, mem_total_frames, request>>

(* The end of the loop without a block; kmain panics then, and it is the   *)
(* caller for which nothing was handed out before. *)
ScanEnd ==
  /\ pc = "scan" /\ f >= last
  /\ r' = NULL
  /\ pc' = IF held = {} THEN "panic" ELSE "ready"
  /\ UNCHANGED <<map, mem_total_frames, bitmap, request, f, free_f, held>>

(* mem_release_frames (mem.c:241-262), as proc_exec and                    *)
(* proc_release_memory call it: with a block of a process.  The latter     *)
(* releases each block twice, as code and as data segment (proc.c:59-60);  *)
(* the second time finds no used frame.                                    *)
mem_release_frames_short(s, n) ==               \* mutant: the last one kept
  bitmap' = Allocator!Mark(bitmap,
              {g \in Block(s, n - 1) : g < mem_total_frames /\ bitmap[g] = USED}, FREE)
mem_release_frames(s, n) ==
  bitmap' = Allocator!Mark(bitmap,
              {g \in Block(s, n) : g < mem_total_frames /\ bitmap[g] = USED}, FREE)

Release ==
  /\ pc = "ready"
  /\ \E b \in held :
       /\ b[1] >= MEM_USER_FIRST_FRAME
       /\ mem_release_frames(b[1], b[2])
       /\ held' = held \ {b}
  /\ UNCHANGED <<pc, map, mem_total_frames, request, f, free_f, r>>

Next == AllocateStack \/ AllocateHeap \/ AllocateUser \/ Scan \/ ScanEnd
          \/ Release

Spec == Init /\ [][Next]_vars
-----------------------------------------------------------------------------
(* Properties.                                                             *)

(* Type correctness; the scan is never sent beyond the last frame of the   *)
(* memory (mem.c:211-212).                                                 *)
TypeOK ==
  /\ pc \in {"stack", "ready", "scan", "panic"}
  /\ map \in Maps /\ mem_total_frames \in Frame
  /\ bitmap \in [Frame -> {FREE, USED, RESERVED}]
  /\ count \in Frame \ {0} /\ first \in Frame /\ last \in 0..mem_total_frames
  /\ f \in Nat /\ free_f \in Nat /\ r \in Frame
  /\ held \subseteq Frame \X (Frame \ {0})

(* No frame is in two blocks that were handed out and not released: the    *)
(* heap and the processes never share memory (mem.c:222-226).              *)
HeldDisjoint ==
  \A a, b \in held : a # b => Block(a[1], a[2]) \cap Block(b[1], b[2]) = {}

(* The bitmap says USED of the frames of these blocks and of no others: no *)
(* frame leaks, and none is free while someone has it (mem.c:254-259).     *)
UsedIsHeld ==
  {g \in Frame : bitmap[g] = USED} = UNION {Block(b[1], b[2]) : b \in held}

(* Reserved frames are reserved for ever: no call hands one out and no     *)
(* release frees one (mem.c:238-240).                                      *)
ReservedForever ==
  [][\A g \in Frame : bitmap[g] = RESERVED => bitmap'[g] = RESERVED]_vars

(* The bitmap itself, the kernel below it and the stack frame of mem_setup *)
(* are never part of a block (mem.c:179-194).                              *)
KernelKept ==
  \A b \in held, g \in Frame :
    g \in Block(b[1], b[2]) =>
      /\ g * MEM_FRAME_SIZE > BITMAP_ADDR + mem_total_frames \div 4
      /\ g # MEM_KERNEL_STACK_FRAME

(* Each call does what mem.h:82-92 says of it: the lowest run of free      *)
(* frames that fits, or NULL only when there is none.                      *)
ImplementsAllocator == Allocator!Spec

(* What is handed out is memory, byte for byte, if the BIOS describes all  *)
(* of it: the bytes of a block are in available regions (mem.c:68:         *)
(* mem_total_frames "keeps the actual number of pages in main memory").    *)
Bytes(e) == e.base .. EndOf(e) - 1
FrameBytes(from, n) == from * MEM_FRAME_SIZE .. (from + n) * MEM_FRAME_SIZE - 1
NoGaps == \A a \in FrameBytes(0, mem_total_frames) : \E e \in map : a \in Bytes(e)
HandsOutMemory ==
  NoGaps => \A b \in held : \A a \in FrameBytes(b[1], b[2]) :
              \E e \in map : e.available /\ a \in Bytes(e)
=============================================================================
