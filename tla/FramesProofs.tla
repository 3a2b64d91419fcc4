---------------------------- MODULE FramesProofs ----------------------------
(***************************************************************************)
(* Proofs about Frames: the bitmap and the blocks handed out agree for     *)
(* every memory map and every number of frames, and the scan of the bitmap *)
(* implements the allocation in one step of FrameAllocator.                *)
(***************************************************************************)
EXTENDS Frames, TLAPS

(* The scan starts where the request does.                                 *)
RequestOK == pc = "scan" => first <= f

(* What the loop of mem_allocate_frames knows: the last free_f frames      *)
(* before f are free, the one before them, if the scan has seen it, is     *)
(* not, and no count free frames have been passed by.                      *)
ScanOK ==
  pc = "scan" =>
    /\ f <= last \/ f = first
    /\ free_f < count /\ first + free_f <= f
    /\ \A g \in f - free_f .. f - 1 : bitmap[g] = FREE
    /\ first + free_f < f => bitmap[f - free_f - 1] # FREE
    /\ \A s \in first .. f - count : \E g \in Block(s, count) : bitmap[g] # FREE

(* Blocks lie in memory; their frames, and no others, are used.            *)
BlocksInMemory == \A b \in held : b[1] + b[2] <= mem_total_frames
UsedExactly ==
  \A g \in Frame : bitmap[g] = USED <=> \E b \in held : g \in Block(b[1], b[2])

(* What mem_setup reserves stays reserved.                                 *)
SetupKept ==
  /\ mem_total_frames = TotalFrames(map)
  /\ \A g \in Frame :
       g \in RegionFrames(map) \cup KernelFrames(mem_total_frames) \cup StackFrames
         => bitmap[g] = RESERVED

IInv == /\ TypeOK /\ RequestOK /\ ScanOK
        /\ BlocksInMemory /\ UsedExactly /\ HeldDisjoint /\ SetupKept

(* The places of the stack that kmain asks for are frames.                 *)
LEMMA StackBounds ==
  /\ MEM_KERNEL_STACK_FRAME \in Frame /\ MEM_USER_FIRST_FRAME \in Frame
  /\ MEM_KERNEL_FIRST_FRAME \in Frame
BY FramesAssumption DEF Frame, MEM_KERNEL_STACK_FRAME, MEM_KERNEL_STACK_TOP,
   MEM_KERNEL_ISTACK_TOP

(* The three states of a frame are different.                              *)
LEMMA StatusDistinct ==
  /\ FREE # USED /\ FREE # RESERVED /\ USED # RESERVED
BY DEF FREE, USED, RESERVED, Allocator!FREE, Allocator!USED, Allocator!RESERVED

(* What marking frames does to the bitmap.                                 *)
LEMMA MarkLemma ==
  ASSUME bitmap \in [Frame -> {FREE, USED, RESERVED}], NEW S, NEW new,
         new \in {FREE, USED, RESERVED}
  PROVE  /\ Allocator!Mark(bitmap, S, new) \in [Frame -> {FREE, USED, RESERVED}]
         /\ \A g \in Frame : Allocator!Mark(bitmap, S, new)[g]
                               = IF g \in S THEN new ELSE bitmap[g]
BY DEF Allocator!Mark

(* The initial state, left by mem_setup, satisfies the invariant.          *)
THEOREM InitInv == Init => IInv
<1> SUFFICES ASSUME Init PROVE IInv
  OBVIOUS
<1>1. mem_total_frames \in Frame
  BY MapsAssumption DEF Init
<1>2. \A g \in Frame : bitmap[g] # USED
  BY StatusDistinct DEF Init
<1>3. TypeOK
  <2>1. bitmap \in [Frame -> {FREE, USED, RESERVED}]
    BY DEF Init
  <2>2. NULL \in Frame /\ 0 \in Frame /\ 1 \in Frame \ {0} /\ 0 \in 0..mem_total_frames
    BY <1>1, FramesAssumption DEF NULL, Allocator!NULL, Frame
  <2> QED
    BY <1>1, <2>1, <2>2 DEF Init, TypeOK
<1>4. RequestOK
  BY <1>1 DEF Init, RequestOK, Frame
<1>5. ScanOK /\ BlocksInMemory /\ HeldDisjoint
  BY DEF Init, ScanOK, BlocksInMemory, HeldDisjoint
<1>6. UsedExactly
  BY <1>2 DEF Init, UsedExactly
<1>7. SetupKept
  BY DEF Init, SetupKept
<1> QED
  BY <1>3, <1>4, <1>5, <1>6, <1>7 DEF IInv

(* A call only records the request; its limits become a range of frames.   *)
LEMMA CallInv ==
  ASSUME IInv, NEW n \in Frame \ {0}, NEW from \in Frame, NEW to \in Frame, Call(n, from, to)
  PROVE  IInv'
<1>1. TypeOK'
  BY DEF Call, IInv, TypeOK, Frame
<1>2. RequestOK' /\ ScanOK'
  BY DEF Call, IInv, TypeOK, RequestOK, ScanOK, Frame
<1>3. BlocksInMemory' /\ UsedExactly' /\ HeldDisjoint' /\ SetupKept'
  BY DEF Call, IInv, BlocksInMemory, UsedExactly, HeldDisjoint, SetupKept
<1> QED
  BY <1>1, <1>2, <1>3 DEF IInv

(* The scan stops at the first run of count free frames, the lowest there  *)
(* is.                                                                     *)
LEMMA FoundBlock ==
  ASSUME IInv, pc = "scan", f < last, Run = count
  PROVE  /\ f - count + 1 \in first .. last - count
         /\ f - count + 1 \in Frame
         /\ \A g \in Block(f - count + 1, count) : g \in Frame /\ bitmap[g] = FREE
         /\ \A s \in first .. f - count : \E g \in Block(s, count) : bitmap[g] # FREE
<1>1. count \in Nat \ {0} /\ f \in Nat /\ free_f \in Nat /\ first \in Nat /\ last \in Nat
      /\ MaxFrames \in Nat /\ last <= MaxFrames /\ f \in Frame
  BY FramesAssumption DEF IInv, TypeOK, Frame
<1>2. bitmap[f] = FREE /\ free_f + 1 = count
  BY <1>1 DEF Run, IInv, ScanOK
<1>3. first + free_f <= f /\ \A g \in f - free_f .. f - 1 : bitmap[g] = FREE
  BY DEF IInv, ScanOK
<1>4. \A g \in Block(f - count + 1, count) : g \in Frame /\ bitmap[g] = FREE
  BY <1>1, <1>2, <1>3 DEF Block, Frame
<1>5. f - count + 1 \in first .. last - count /\ f - count + 1 \in Frame
  BY <1>1, <1>2, <1>3 DEF Frame
<1> QED
  BY <1>4, <1>5 DEF IInv, ScanOK

(* One turn of the loop.  A block found is made of free frames, so no      *)
(* block held before has any of them.                                      *)
LEMMA ScanInv ==
  ASSUME IInv, Scan
  PROVE  IInv'
<1> USE FramesAssumption
<1>1. CASE Run = count
  <2> DEFINE s == f - count + 1
             B == f - count + 1 .. f
  <2>1. /\ bitmap' = Allocator!Mark(bitmap, B, USED) /\ r' = s
        /\ held' = held \cup {<<s, count>>} /\ pc' = "ready"
        /\ UNCHANGED <<map, mem_total_frames, count, first, last, f, free_f>>
    BY <1>1 DEF Scan, request
  <2>2. /\ s \in first .. last - count /\ s \in Frame
        /\ \A g \in Block(s, count) : g \in Frame /\ bitmap[g] = FREE
    BY <1>1, FoundBlock DEF Scan
  <2>3. B = Block(s, count)
    BY DEF Block, IInv, TypeOK, Frame
  <2>4. /\ bitmap' \in [Frame -> {FREE, USED, RESERVED}]
        /\ \A g \in Frame : bitmap'[g] = IF g \in B THEN USED ELSE bitmap[g]
    BY <2>1, MarkLemma DEF IInv, TypeOK
  <2> HIDE DEF s, B
  <2>5. TypeOK'
    BY <2>1, <2>2, <2>4 DEF IInv, TypeOK
  <2>6. RequestOK' /\ ScanOK'
    BY <2>1 DEF IInv, RequestOK, ScanOK
  <2>7. BlocksInMemory'
    <3>1. s + count <= mem_total_frames
      BY <2>2 DEF IInv, TypeOK, RequestOK, Frame
    <3> QED
      BY <3>1, <2>1 DEF IInv, BlocksInMemory
  <2>8. UsedExactly'
    <3> SUFFICES ASSUME NEW g \in Frame
                 PROVE  bitmap'[g] = USED <=> \E b \in held' : g \in Block(b[1], b[2])
      BY DEF UsedExactly
    <3>1. bitmap'[g] = USED <=> g \in B \/ bitmap[g] = USED
      BY <2>4
    <3>2. (\E b \in held' : g \in Block(b[1], b[2]))
            <=> g \in Block(s, count) \/ \E b \in held : g \in Block(b[1], b[2])
      <4>1. <<s, count>>[1] = s /\ <<s, count>>[2] = count
        OBVIOUS
      <4>2. \A b : b \in held' <=> b \in held \/ b = <<s, count>>
        BY <2>1
      <4> QED
        BY <4>1, <4>2, Zenon
    <3> QED
      BY <3>1, <3>2, <2>3 DEF IInv, UsedExactly
  <2>9. HeldDisjoint'
    <3>1. \A b \in held : Block(b[1], b[2]) \cap Block(s, count) = {}
      BY <2>2, StatusDistinct DEF IInv, UsedExactly
    <3> QED
      BY <3>1, <2>1 DEF IInv, HeldDisjoint
  <2>10. SetupKept'
    BY <2>1, <2>2, <2>3, <2>4, StatusDistinct DEF IInv, SetupKept
  <2> QED
    BY <2>5, <2>6, <2>7, <2>8, <2>9, <2>10 DEF IInv
<1>2. CASE Run # count
  <2>1. /\ pc = "scan" /\ pc' = "scan" /\ free_f' = Run /\ f' = f + 1 /\ f < last
        /\ UNCHANGED <<bitmap, r, held, map, mem_total_frames, count, first, last>>
    BY <1>2 DEF Scan, request
  <2>2. /\ count \in Nat \ {0} /\ f \in Nat /\ free_f \in Nat /\ first \in Nat
        /\ last \in Nat
    BY DEF IInv, TypeOK, Frame
  <2>3. TypeOK'
    BY <2>1, <2>2 DEF IInv, TypeOK, Run
  <2>4. RequestOK'
    BY <2>1, <2>2 DEF IInv, RequestOK
  <2>5. ScanOK'
    <3>1. /\ free_f < count /\ first + free_f <= f
          /\ \A g \in f - free_f .. f - 1 : bitmap[g] = FREE
          /\ first + free_f < f => bitmap[f - free_f - 1] # FREE
          /\ \A s \in first .. f - count : \E g \in Block(s, count) : bitmap[g] # FREE
      BY <2>1 DEF IInv, ScanOK
    <3>2. CASE bitmap[f] = FREE
      <4>1. free_f' = free_f + 1 /\ free_f + 1 < count
        BY <3>1, <3>2, <2>1, <2>2, <1>2 DEF Run
      <4>2. \A g \in f' - free_f' .. f' - 1 : bitmap'[g] = FREE
        BY <4>1, <3>1, <3>2, <2>1, <2>2
      <4>3. first + free_f' < f' => bitmap'[f' - free_f' - 1] # FREE
        <5>1. f' - free_f' - 1 = f - free_f - 1 /\ (first + free_f' < f' => first + free_f < f)
          BY <4>1, <2>1, <2>2
        <5> QED
          BY <5>1, <3>1, <2>1
      <4>4. ASSUME NEW s \in first .. f + 1 - count
            PROVE  \E g \in Block(s, count) : bitmap[g] # FREE
        <5>1. CASE s = f + 1 - count
          <6>1. first + free_f < f /\ f - free_f - 1 \in Block(s, count)
            BY <5>1, <4>1, <2>2 DEF Block
          <6> QED
            BY <6>1, <3>1
        <5>2. CASE s # f + 1 - count
          BY <5>2, <3>1, <2>2
        <5> QED
          BY <5>1, <5>2
      <4> QED
        BY <4>1, <4>2, <4>3, <4>4, <3>1, <2>1, <2>2 DEF ScanOK
    <3>3. CASE bitmap[f] # FREE
      <4>1. free_f' = 0
        BY <3>3, <2>1 DEF Run
      <4>2. ASSUME NEW s \in first .. f + 1 - count
            PROVE  \E g \in Block(s, count) : bitmap[g] # FREE
        <5>1. CASE s = f + 1 - count
          <6>1. f \in Block(s, count)
            BY <5>1, <2>2 DEF Block
          <6> QED
            BY <6>1, <3>3
        <5>2. CASE s # f + 1 - count
          BY <5>2, <3>1, <2>2
        <5> QED
          BY <5>1, <5>2
      <4> QED
        BY <4>1, <4>2, <3>1, <3>3, <2>1, <2>2 DEF ScanOK
    <3> QED
      BY <3>2, <3>3
  <2>6. BlocksInMemory' /\ UsedExactly' /\ HeldDisjoint' /\ SetupKept'
    BY <2>1 DEF IInv, BlocksInMemory, UsedExactly, HeldDisjoint, SetupKept
  <2> QED
    BY <2>3, <2>4, <2>5, <2>6 DEF IInv
<1> QED
  BY <1>1, <1>2

(* A scan that ends without a block leaves the bitmap alone.               *)
LEMMA ScanEndInv ==
  ASSUME IInv, ScanEnd
  PROVE  IInv'
<1>1. NULL \in Frame
  BY FramesAssumption DEF NULL, Allocator!NULL, Frame
<1>2. TypeOK'
  BY <1>1 DEF ScanEnd, request, IInv, TypeOK
<1>3. RequestOK' /\ ScanOK'
  BY DEF ScanEnd, request, IInv, RequestOK, ScanOK
<1>4. BlocksInMemory' /\ UsedExactly' /\ HeldDisjoint' /\ SetupKept'
  BY DEF ScanEnd, request, IInv, BlocksInMemory, UsedExactly, HeldDisjoint, SetupKept
<1> QED
  BY <1>2, <1>3, <1>4 DEF IInv

(* A release frees the frames of the block, all of them used, and those of *)
(* no other block.                                                         *)
LEMMA ReleaseInv ==
  ASSUME IInv, Release
  PROVE  IInv'
<1>1. PICK b \in held : mem_release_frames(b[1], b[2]) /\ held' = held \ {b}
  BY DEF Release
<1>2. pc' = pc /\ UNCHANGED <<map, mem_total_frames, count, first, last, f, free_f, r>>
  BY DEF Release, request
<1>3. /\ bitmap' \in [Frame -> {FREE, USED, RESERVED}]
      /\ \A g \in Frame : bitmap'[g] =
           IF g \in Block(b[1], b[2]) /\ g < mem_total_frames /\ bitmap[g] = USED
           THEN FREE ELSE bitmap[g]
  BY <1>1, MarkLemma DEF IInv, TypeOK, mem_release_frames
<1>4. \A g \in Block(b[1], b[2]) : g < mem_total_frames /\ g \in Frame
  BY FramesAssumption DEF IInv, TypeOK, BlocksInMemory, Block, Frame
<1>5. TypeOK'
  BY <1>1, <1>2, <1>3 DEF IInv, TypeOK
<1>6. RequestOK' /\ ScanOK'
  BY <1>2 DEF Release, IInv, RequestOK, ScanOK
<1>7. BlocksInMemory' /\ HeldDisjoint'
  BY <1>1, <1>2 DEF IInv, BlocksInMemory, HeldDisjoint
<1>8. UsedExactly'
  <2> SUFFICES ASSUME NEW g \in Frame
               PROVE  bitmap'[g] = USED <=> \E c \in held' : g \in Block(c[1], c[2])
    BY DEF UsedExactly
  <2>1. bitmap[g] = USED <=> \E c \in held : g \in Block(c[1], c[2])
    BY DEF IInv, UsedExactly
  <2>2. bitmap'[g] = USED <=> bitmap[g] = USED /\ g \notin Block(b[1], b[2])
    BY <1>3, <1>4, StatusDistinct
  <2>3. \A c \in held : c # b => ~ (g \in Block(c[1], c[2]) /\ g \in Block(b[1], b[2]))
    BY DEF IInv, HeldDisjoint
  <2> QED
    BY <1>1, <2>1, <2>2, <2>3
<1>9. SetupKept'
  BY <1>2, <1>3, StatusDistinct DEF IInv, SetupKept
<1> QED
  BY <1>5, <1>6, <1>7, <1>8, <1>9 DEF IInv

(* The invariant is inductive.                                             *)
THEOREM NextInv == IInv /\ [Next]_vars => IInv'
<1> SUFFICES ASSUME IInv, [Next]_vars PROVE IInv'
  OBVIOUS
<1>1. CASE AllocateStack
  <2>1. 1 \in Frame \ {0}
    BY FramesAssumption DEF Frame
  <2> QED
    BY <1>1, <2>1, StackBounds, CallInv DEF AllocateStack
<1>2. CASE AllocateHeap
  BY <1>2, FramesAssumption, StackBounds, CallInv DEF AllocateHeap
<1>3. CASE AllocateUser
  <2>1. 0 \in Frame
    BY FramesAssumption DEF Frame
  <2> QED
    BY <1>3, <2>1, FramesAssumption, StackBounds, CallInv DEF AllocateUser
<1>4. CASE Scan
  BY <1>4, ScanInv
<1>5. CASE ScanEnd
  BY <1>5, ScanEndInv
<1>6. CASE Release
  BY <1>6, ReleaseInv
<1>7. CASE UNCHANGED vars
  BY <1>7 DEF vars, request, IInv, TypeOK, RequestOK, ScanOK, BlocksInMemory,
     UsedExactly, HeldDisjoint, SetupKept
<1> QED
  BY <1>1, <1>2, <1>3, <1>4, <1>5, <1>6, <1>7 DEF Next

(* The invariant holds of every behaviour.                                 *)
THEOREM Invariance == Spec => []IInv
BY InitInv, NextInv, PTL DEF Spec

(* Type correctness.                                                       *)
THEOREM TypeCorrect == Spec => []TypeOK
<1>1. IInv => TypeOK
  BY DEF IInv
<1> QED
  BY <1>1, Invariance, PTL

(* The heap and the processes never share a frame (mem.c:206-262).         *)
THEOREM Disjointness == Spec => []HeldDisjoint
<1>1. IInv => HeldDisjoint
  BY DEF IInv
<1> QED
  BY <1>1, Invariance, PTL

(* No frame leaks and none is free while someone has it (mem.c:206-262).   *)
THEOREM NoLeak == Spec => []UsedIsHeld
<1>1. IInv => UsedIsHeld
  <2> SUFFICES ASSUME IInv PROVE UsedIsHeld
    OBVIOUS
  <2>1. \A b \in held : Block(b[1], b[2]) \subseteq Frame
    BY FramesAssumption DEF IInv, TypeOK, BlocksInMemory, Block, Frame
  <2>2. \A g : g \in Frame /\ bitmap[g] = USED <=> \E b \in held : g \in Block(b[1], b[2])
    BY <2>1 DEF IInv, UsedExactly
  <2>3. \A g : g \in UNION {Block(b[1], b[2]) : b \in held}
                <=> \E b \in held : g \in Block(b[1], b[2])
    OBVIOUS
  <2> QED
    BY <2>2, <2>3 DEF UsedIsHeld
<1> QED
  BY <1>1, Invariance, PTL

(* Reserved frames stay reserved: a call marks only free frames and a      *)
(* release only used ones (mem.c:238-240).                                 *)
THEOREM ReservedKept == Spec => ReservedForever
<1>1. ASSUME IInv, [Next]_vars, NEW g \in Frame, bitmap[g] = RESERVED
      PROVE  bitmap'[g] = RESERVED
  <2>1. CASE Scan /\ Run = count
    <3> DEFINE B == f - count + 1 .. f
    <3>1. bitmap' = Allocator!Mark(bitmap, B, USED)
      BY <2>1 DEF Scan
    <3>2. \A h \in Block(f - count + 1, count) : bitmap[h] = FREE
      BY <1>1, <2>1, FoundBlock DEF Scan
    <3>3. B = Block(f - count + 1, count)
      BY <1>1 DEF Block, IInv, TypeOK, Frame
    <3>4. g \notin B
      BY <1>1, <3>2, <3>3, StatusDistinct
    <3> HIDE DEF B
    <3> QED
      BY <1>1, <3>1, <3>4, MarkLemma DEF IInv, TypeOK
  <2>2. CASE Release
    <3>1. PICK b \in held : mem_release_frames(b[1], b[2])
      BY <2>2 DEF Release
    <3> DEFINE B == {h \in Block(b[1], b[2]) : h < mem_total_frames /\ bitmap[h] = USED}
    <3>2. bitmap' = Allocator!Mark(bitmap, B, FREE)
      BY <3>1 DEF mem_release_frames
    <3>3. g \notin B
      BY <1>1, StatusDistinct
    <3> HIDE DEF B
    <3> QED
      BY <1>1, <3>2, <3>3, MarkLemma DEF IInv, TypeOK
  <2>3. CASE ~(Scan /\ Run = count) /\ ~Release
    <3>1. UNCHANGED bitmap
      BY <1>1, <2>3 DEF Next, AllocateStack, AllocateHeap, AllocateUser, Call, Scan, ScanEnd, vars
    <3> QED
      BY <1>1, <3>1
  <2> QED
    BY <2>1, <2>2, <2>3
<1>2. IInv /\ [Next]_vars
        => [\A g \in Frame : bitmap[g] = RESERVED => bitmap'[g] = RESERVED]_vars
  BY <1>1
<1> QED
  BY <1>2, Invariance, PTL DEF Spec, ReservedForever

(* A frame above the one in which an address lies starts above the address. *)
LEMMA AboveFrame ==
  ASSUME NEW x \in Nat, NEW size \in Nat \ {0}, NEW g \in Nat, g > x \div size
  PROVE  g * size > x
<1> DEFINE q == x \div size
<1>1. q \in Nat /\ x < (q + 1) * size
  OBVIOUS
<1>2. g >= q + 1
  BY <1>1
<1> HIDE DEF q
<1>3. g * size >= (q + 1) * size
  BY <1>1, <1>2
<1> QED
  BY <1>1, <1>3

(* The kernel, the bitmap and the frame of mem_setup's stack are in no     *)
(* block (mem.c:179-194).                                                  *)
THEOREM KernelSafe == Spec => []KernelKept
<1>1. IInv => KernelKept
  <2> SUFFICES ASSUME IInv, NEW b \in held, NEW g \in Frame, g \in Block(b[1], b[2])
               PROVE  /\ g * MEM_FRAME_SIZE > BITMAP_ADDR + mem_total_frames \div 4
                      /\ g # MEM_KERNEL_STACK_FRAME
    BY DEF KernelKept
  <2>1. bitmap[g] # RESERVED
    BY StatusDistinct DEF IInv, UsedExactly
  <2>2. g \notin KernelFrames(mem_total_frames) /\ g \notin StackFrames
    BY <2>1 DEF IInv, SetupKept
  <2>3. g # MEM_KERNEL_STACK_FRAME
    BY <2>2 DEF StackFrames
  <2>4. g \in Nat /\ mem_total_frames \in Nat /\ BITMAP_ADDR \in Nat
    BY FramesAssumption DEF Frame, IInv, TypeOK, BITMAP_ADDR
  <2>5. BITMAP_ADDR + mem_total_frames \div 4 \in Nat
    BY <2>4
  <2>6. g > (BITMAP_ADDR + mem_total_frames \div 4) \div MEM_FRAME_SIZE
    <3>1. g \notin 0 .. (BITMAP_ADDR + mem_total_frames \div 4) \div MEM_FRAME_SIZE
      BY <2>2 DEF KernelFrames
    <3>2. (BITMAP_ADDR + mem_total_frames \div 4) \div MEM_FRAME_SIZE \in Int
      BY <2>5, FramesAssumption
    <3> QED
      BY <3>1, <3>2, <2>4
  <2> QED
    BY <2>3, <2>4, <2>5, <2>6, AboveFrame, FramesAssumption
<1> QED
  BY <1>1, Invariance, PTL

(* The frame in which an address lies.                                     *)
LEMMA FrameOfAddress ==
  ASSUME NEW size \in Nat \ {0}, NEW g \in Nat, NEW n \in Nat,
         NEW a \in g * size .. (g + n) * size - 1
  PROVE  a \div size \in g .. g + n - 1
<1> DEFINE q == a \div size
<1>1. g * size \in Nat /\ (g + n) * size \in Nat
  OBVIOUS
<1>2. a \in Nat /\ g * size <= a /\ a < (g + n) * size
  BY <1>1
<1>3. q \in Nat /\ q * size <= a /\ a < (q + 1) * size
  BY <1>2
<1> HIDE DEF q
<1>4. ~ q + 1 <= g
  <2> SUFFICES ASSUME q + 1 <= g PROVE FALSE
    OBVIOUS
  <2>1. (q + 1) * size <= g * size
    BY <1>3
  <2> QED
    BY <2>1, <1>1, <1>2, <1>3
<1>5. ~ g + n <= q
  <2> SUFFICES ASSUME g + n <= q PROVE FALSE
    OBVIOUS
  <2>1. (g + n) * size <= q * size
    BY <1>3
  <2> QED
    BY <2>1, <1>1, <1>2, <1>3
<1>6. q \in g .. g + n - 1
  BY <1>3, <1>4, <1>5
<1> QED
  BY <1>6 DEF q

(* Division keeps the order.                                               *)
LEMMA DivisionOrder ==
  ASSUME NEW size \in Nat \ {0}, NEW x \in Nat, NEW y \in Nat, x <= y
  PROVE  x \div size <= y \div size
<1> DEFINE p == x \div size
           q == y \div size
<1>1. /\ p \in Nat /\ p * size <= x /\ x < (p + 1) * size
      /\ q \in Nat /\ q * size <= y /\ y < (q + 1) * size
  OBVIOUS
<1> HIDE DEF p, q
<1>2. ~ q + 1 <= p
  <2> SUFFICES ASSUME q + 1 <= p PROVE FALSE
    OBVIOUS
  <2>1. (q + 1) * size <= p * size
    BY <1>1
  <2> QED
    BY <2>1, <1>1
<1>3. p <= q
  BY <1>1, <1>2
<1> QED
  BY <1>3 DEF p, q

(* What is handed out lies in available regions, whichever regions the     *)
(* BIOS describes without gaps: a frame that one of the others touches is  *)
(* reserved (mem.c:160-178).                                               *)
THEOREM MemoryHandedOut == Spec => []HandsOutMemory
<1>1. IInv => HandsOutMemory
  <2> SUFFICES ASSUME IInv, NoGaps, NEW b \in held, NEW a \in FrameBytes(b[1], b[2])
               PROVE  \E e \in map : e.available /\ a \in Bytes(e)
    BY DEF HandsOutMemory
  <2> DEFINE g == a \div MEM_FRAME_SIZE
  <2>1. /\ b[1] \in Nat /\ b[2] \in Nat /\ mem_total_frames \in Nat
        /\ b[1] + b[2] <= mem_total_frames /\ mem_total_frames \in Frame
        /\ MEM_FRAME_SIZE \in Nat \ {0}
    BY FramesAssumption DEF IInv, TypeOK, BlocksInMemory, Frame
  <2>2. g \in b[1] .. b[1] + b[2] - 1
    BY <2>1, FrameOfAddress DEF FrameBytes
  <2> HIDE DEF g
  <2>3. g \in Frame /\ g \in Block(b[1], b[2])
    BY <2>1, <2>2, FramesAssumption DEF Frame, Block
  <2>4. bitmap[g] # RESERVED
    BY <2>3, StatusDistinct DEF IInv, UsedExactly
  <2>5. g \notin RegionFrames(map)
    BY <2>3, <2>4 DEF IInv, SetupKept
  <2>6. a \in FrameBytes(0, mem_total_frames)
    <3>1. /\ b[1] * MEM_FRAME_SIZE \in Nat /\ (b[1] + b[2]) * MEM_FRAME_SIZE \in Nat
          /\ mem_total_frames * MEM_FRAME_SIZE \in Nat
      BY <2>1
    <3>2. (b[1] + b[2]) * MEM_FRAME_SIZE <= mem_total_frames * MEM_FRAME_SIZE
      BY <2>1
    <3>3. a \in Int /\ a >= b[1] * MEM_FRAME_SIZE /\ a <= (b[1] + b[2]) * MEM_FRAME_SIZE - 1
      BY <3>1 DEF FrameBytes
    <3>4. a \in 0 .. mem_total_frames * MEM_FRAME_SIZE - 1
      BY <3>1, <3>2, <3>3
    <3>5. 0 * MEM_FRAME_SIZE = 0 /\ 0 + mem_total_frames = mem_total_frames
      BY <2>1
    <3> QED
      BY <3>4, <3>5 DEF FrameBytes
  <2>7. PICK e \in map : a \in Bytes(e)
    BY <2>6 DEF NoGaps
  <2>8. e.base \in Nat /\ e.size \in Nat /\ e.available \in BOOLEAN
    BY MapsAssumption DEF IInv, TypeOK, Region
  <2>9. EndOf(e) \in Nat /\ a \in Nat /\ e.base <= a /\ a <= EndOf(e)
    BY <2>7, <2>8 DEF Bytes, EndOf
  <2>10. CASE ~e.available
    <3>1. /\ e.base \div MEM_FRAME_SIZE <= a \div MEM_FRAME_SIZE
          /\ a \div MEM_FRAME_SIZE <= EndOf(e) \div MEM_FRAME_SIZE
      BY <2>1, <2>8, <2>9, DivisionOrder
    <3>2. /\ e.base \div MEM_FRAME_SIZE \in Int /\ EndOf(e) \div MEM_FRAME_SIZE \in Int
          /\ a \div MEM_FRAME_SIZE \in Int
      BY <2>1, <2>8, <2>9
    <3>3. g \in e.base \div MEM_FRAME_SIZE .. EndOf(e) \div MEM_FRAME_SIZE
      BY <3>1, <3>2 DEF g
    <3>4. g \in RegionFrames(map)
      BY <3>3, <2>10 DEF RegionFrames
    <3> QED
      BY <3>4, <2>5
  <2> QED
    BY <2>7, <2>8, <2>10
<1> QED
  BY <1>1, Invariance, PTL

-----------------------------------------------------------------------------
(* Refinement.                                                             *)

(* The turn of the loop that finds a block allocates it, in one step.      *)
LEMMA FoundAllocates ==
  ASSUME IInv, Scan, Run = count
  PROVE  Allocator!Allocate(count, first, last)
<1> DEFINE s == f - count + 1
<1>1. /\ bitmap' = Allocator!Mark(bitmap, s .. f, USED) /\ r' = s
  BY DEF Scan
<1>2. /\ s \in first .. last - count
      /\ \A g \in Block(s, count) : bitmap[g] = FREE
      /\ \A t \in first .. f - count : \E g \in Block(t, count) : bitmap[g] # FREE
  BY FoundBlock DEF Scan
<1>3. /\ s .. f = Block(s, count) /\ f \in Int /\ count \in Int /\ first \in Int /\ last \in Int
  BY DEF Block, IInv, TypeOK, Frame
<1> HIDE DEF s
<1>4. \A t, n : Allocator!Block(t, n) = Block(t, n)
  BY DEF Block, Allocator!Block
<1>5. s \in Allocator!Fits(bitmap, count, first, last)
  BY <1>2, <1>3, <1>4 DEF Allocator!Fits, FREE
<1>6. \A t \in Allocator!Fits(bitmap, count, first, last) : s <= t
  <2> SUFFICES ASSUME NEW t \in Allocator!Fits(bitmap, count, first, last), ~(s <= t)
               PROVE  FALSE
    OBVIOUS
  <2>1. t \in first .. last - count /\ \A g \in Block(t, count) : bitmap[g] = FREE
    BY <1>3, <1>4 DEF Allocator!Fits, FREE
  <2>2. t \in first .. f - count
    BY <2>1, <1>3 DEF s
  <2> QED
    BY <2>1, <2>2, <1>2
<1>7. r' = s /\ bitmap' = Allocator!Mark(bitmap, Allocator!Block(s, count), Allocator!USED)
  BY <1>1, <1>2, <1>3, <1>4 DEF USED
<1> QED
  BY <1>5, <1>6, <1>7, Zenon DEF Allocator!Allocate

(* The end of the loop is the allocation that fails.                       *)
LEMMA EndAllocates ==
  ASSUME IInv, ScanEnd
  PROVE  Allocator!Allocate(count, first, last)
<1>1. /\ f >= last /\ (f <= last \/ f = first)
      /\ \A s \in first .. f - count : \E g \in Block(s, count) : bitmap[g] # FREE
  BY DEF ScanEnd, IInv, ScanOK
<1>2. /\ count \in Nat \ {0} /\ f \in Nat /\ first \in Nat /\ last \in Nat
  BY DEF IInv, TypeOK, Frame
<1>3. \A s \in first .. last - count : \E g \in Block(s, count) : bitmap[g] # FREE
  BY <1>1, <1>2
<1>4. Allocator!Fits(bitmap, count, first, last) = {}
  BY <1>3 DEF Allocator!Fits, Allocator!Block, Block, FREE
<1> QED
  BY <1>4 DEF ScanEnd, Allocator!Allocate, NULL

(* mem_allocate_frames and mem_release_frames do what mem.h says of them.  *)
THEOREM Refinement == Spec => ImplementsAllocator
<1>1. Init => Allocator!Init
  BY DEF Init, Allocator!Init, NULL, FREE, RESERVED
<1>2. IInv /\ [Next]_vars => [Allocator!Next]_<<bitmap, r>>
  <2> SUFFICES ASSUME IInv, [Next]_vars
               PROVE  Allocator!Next \/ UNCHANGED <<bitmap, r>>
    OBVIOUS
  <2>1. count \in Frame \ {0} /\ first \in Frame /\ last \in Frame
    BY FramesAssumption DEF IInv, TypeOK, Frame
  <2>2. CASE Scan /\ Run = count
    BY <2>1, <2>2, FoundAllocates DEF Allocator!Next
  <2>3. CASE ScanEnd
    BY <2>1, <2>3, EndAllocates DEF Allocator!Next
  <2>4. CASE Release
    <3>1. PICK b \in held : mem_release_frames(b[1], b[2])
      BY <2>4 DEF Release
    <3>2. b[1] \in Frame /\ b[2] \in Frame \ {0}
      BY DEF IInv, TypeOK
    <3>3. \A g \in Block(b[1], b[2]) : g < mem_total_frames /\ g \in Frame
      BY FramesAssumption DEF IInv, TypeOK, BlocksInMemory, Block, Frame
    <3>4. {g \in Block(b[1], b[2]) : g < mem_total_frames /\ bitmap[g] = USED}
            = {g \in Block(b[1], b[2]) : g \in Frame /\ bitmap[g] = USED}
      BY <3>3
    <3>5. Allocator!Release(b[1], b[2])
      BY <3>1, <3>4, <2>4 DEF mem_release_frames, Allocator!Release, Release,
         Block, Allocator!Block, FREE, USED
    <3> QED
      BY <3>2, <3>5 DEF Allocator!Next
  <2>5. CASE ~(Scan /\ Run = count) /\ ~ScanEnd /\ ~Release
    BY <2>5 DEF Next, AllocateStack, AllocateHeap, AllocateUser, Call, Scan, vars
  <2> QED
    BY <2>2, <2>3, <2>4, <2>5
<1> QED
  BY <1>1, <1>2, Invariance, PTL DEF Spec, ImplementsAllocator, Allocator!Spec
=============================================================================
