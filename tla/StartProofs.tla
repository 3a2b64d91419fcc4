---------------------------- MODULE StartProofs ----------------------------
(***************************************************************************)
(* Proofs about Proc and Boot.  Proc: the frames of user space in use are  *)
(* those of the segments, a call of proc_exec that fails changes nothing,  *)
(* no process is written over before it is replaced, and the one that      *)
(* starts is the one in the file, for every frame size and number of       *)
(* frames, every table of segments, and all binaries and files cut short.  *)
(* Boot: once pic_init has masked the lines no interrupt finds itself      *)
(* without a handler, whichever devices there are, whatever the BIOS left  *)
(* masked and whenever the devices interrupt.                              *)
(***************************************************************************)
EXTENDS Proc, Boot, SequenceTheorems, TLAPS

-----------------------------------------------------------------------------
(* Proc. *)

Desc == [kind : {"null", "kernel", "user"}, base : Nat, limit : Nat]

(* The slots and the frames of the process, and those that the call that   *)
(* is under way has got so far.                                            *)
LiveSlots == {segs.cs, segs.ds} \ {0}
LiveBlock == IF segs.cs = 0 THEN {} ELSE Live

Building == pc \in {"cs", "ds", "text", "data", "close", "replace"}
NewBlock == IF Building THEN Block(result, Limit) ELSE {}
NewSlots == IF pc = "ds" THEN {cs}
            ELSE IF pc \in {"text", "data", "close", "replace"} THEN {cs, ds} ELSE {}

(* What the variables hold. *)
TypeInv ==
  /\ status \in [Frame -> {FREE, USED, RESERVED}] /\ result \in Frame
  /\ memory \in [0 .. MEM_TOTAL_FRAMES * MEM_FRAME_SIZE - 1 -> Int]
  /\ h \in Binaries /\ cs \in DOMAIN gdt /\ ds \in DOMAIN gdt
  /\ segs \in [cs : DOMAIN gdt, ds : DOMAIN gdt]
  /\ pc \in {"kernel", "header", "frames", "cs", "ds", "text", "data", "close", "replace", "user"}
  /\ opened = IF pc \in {"kernel", "replace", "user"} THEN 0 ELSE 1
  /\ f_pos \in Nat /\ br \in Nat

(* The slots of the table that are taken are the process's and the new     *)
(* ones, and each describes its block.                                     *)
GdtInv ==
  /\ \E n \in GdtSizes : gdt \in [0 .. n - 1 -> Desc]
  /\ gdt[0] = GDT_NULL_ENTRY /\ \A i \in 1 .. 3 : gdt[i].kind = "kernel"
  /\ \A i \in DOMAIN gdt \ 0 .. 3 :
       IF i \in LiveSlots \cup NewSlots THEN gdt[i].kind = "user" ELSE gdt[i] = GDT_NULL_ENTRY
  /\ LiveSlots \cup NewSlots \subseteq DOMAIN gdt \ 0 .. 3
  /\ LiveSlots \cap NewSlots = {}
  /\ segs.cs = 0 <=> segs.ds = 0
  /\ segs.cs # 0 => /\ gdt[segs.ds].base = gdt[segs.cs].base
                    /\ gdt[segs.ds].limit = gdt[segs.cs].limit
  /\ \A i \in NewSlots : gdt[i] = Descriptor("user", result, Limit)

(* The frames in use are those of the process and the new ones, which are  *)
(* apart.                                                                  *)
FrameInv ==
  /\ {f \in Frame : f >= MEM_USER_FIRST_FRAME /\ status[f] = USED} = LiveBlock \cup NewBlock
  /\ LiveBlock \cap NewBlock = {}
  /\ Building => result >= MEM_USER_FIRST_FRAME /\ result + Limit <= MEM_TOTAL_FRAMES

(* Without what the call has got, the table and the frames are what they   *)
(* were when it began.                                                     *)
BeforeInv ==
  pc \notin {"kernel", "user"} =>
    before = << [i \in DOMAIN gdt |-> IF i \in NewSlots THEN GDT_NULL_ENTRY ELSE gdt[i]],
                [f \in Frame |-> IF f \in NewBlock THEN FREE ELSE status[f]] >>

(* How much of the file is in its place.                                   *)
TextTo(n) == \A k \in 0 .. n - 1 : memory[result * MEM_FRAME_SIZE + k] = k
DataTo(n) == \A k \in 0 .. n - 1 : memory[DataStart + k] = Text + k
BssClear == \A k \in h.data .. h.data + h.bss - 1 : memory[DataStart + k] = Zero

LoadInv ==
  /\ pc = "text" => br <= Text /\ f_pos = br /\ TextTo(br)
  /\ pc = "data" => br <= h.data /\ f_pos = Text + br /\ TextTo(Text) /\ DataTo(br)
  /\ pc \in {"close", "replace"} => TextTo(Text) /\ DataTo(h.data)
  /\ pc = "replace" => BssClear

IInv == TypeInv /\ GdtInv /\ FrameInv /\ BeforeInv /\ LoadInv /\ LoadedRight

-----------------------------------------------------------------------------
(* Bytes and frames.                                                       *)

(* Multiplication by a positive number is monotonic and distributes.       *)
LEMMA TimesLemma ==
  ASSUME NEW x \in Nat, NEW y \in Nat, NEW z \in Nat \ {0}
  PROVE  /\ x * z \in Nat
         /\ x <= y => x * z <= y * z
         /\ x < y => x * z + z <= y * z
         /\ (x + y) * z = x * z + y * z
<1>1. x * z \in Nat /\ y * z \in Nat /\ (x + y) * z = x * z + y * z
  OBVIOUS
<1>2. ASSUME x <= y PROVE x * z <= y * z
  <2>1. PICK d \in Nat : y = x + d
    BY <1>2
  <2>2. y * z = x * z + d * z /\ d * z >= 0
    BY <2>1
  <2> QED
    BY <1>1, <2>2
<1>3. ASSUME x < y PROVE x * z + z <= y * z
  <2>1. PICK d \in Nat : y = x + 1 + d
    BY <1>3
  <2>2. y * z = x * z + z + d * z /\ d * z >= 0
    BY <2>1
  <2> QED
    BY <1>1, <2>2
<1> QED
  BY <1>1, <1>2, <1>3

(* The frame of an address is the one whose bytes surround it.             *)
LEMMA FrameOf ==
  ASSUME NEW a \in Nat, NEW z \in Nat \ {0}
  PROVE  /\ a \div z \in Nat
         /\ (a \div z) * z <= a /\ a < (a \div z) * z + z
         /\ \A q \in Nat : q * z <= a /\ a < q * z + z => a \div z = q
<1>1. a \div z \in Nat /\ (a \div z) * z <= a /\ a < (a \div z) * z + z
  <2>1. a \div z \in Int /\ a \div z >= 0
    OBVIOUS
  <2>2. a % z \in 0 .. z - 1 /\ a = z * (a \div z) + (a % z)
    OBVIOUS
  <2>3. z * (a \div z) = (a \div z) * z
    BY <2>1
  <2> QED
    BY <2>1, <2>2, <2>3
<1>2. ASSUME NEW q \in Nat, q * z <= a, a < q * z + z
      PROVE  a \div z = q
  <2>1. PICK d \in Nat : d = a \div z
    BY <1>1
  <2>2. d * z <= a /\ a < d * z + z
    BY <1>1, <2>1
  <2>3. d * z \in Nat /\ q * z \in Nat
    OBVIOUS
  <2>4. ~(d < q)
    BY TimesLemma, <1>2, <2>2, <2>3
  <2>5. ~(q < d)
    BY TimesLemma, <1>2, <2>2, <2>3
  <2> QED
    BY <2>1, <2>4, <2>5
<1> QED
  BY <1>1, <1>2

(* Lines 147-155 round up.                                                 *)
LEMMA FramesForLemma ==
  ASSUME NEW b \in Nat
  PROVE  FramesFor(b) \in Nat /\ b <= FramesFor(b) * MEM_FRAME_SIZE
<1>1. MEM_FRAME_SIZE \in Nat \ {0}
  BY ProcAssumption
<1>2. PICK a \in Nat : a = b + MEM_FRAME_SIZE - 1
  BY <1>1
<1>3. FramesFor(b) = a \div MEM_FRAME_SIZE
  BY <1>2 DEF FramesFor
<1>4. /\ a \div MEM_FRAME_SIZE \in Nat
      /\ a < (a \div MEM_FRAME_SIZE) * MEM_FRAME_SIZE + MEM_FRAME_SIZE
  BY <1>1, FrameOf
<1>5. (a \div MEM_FRAME_SIZE) * MEM_FRAME_SIZE \in Nat
  BY <1>1, <1>4
<1> QED
  BY <1>1, <1>2, <1>3, <1>4, <1>5

(* The sections fit in the frames that are asked for, and the stack above. *)
LEMMA ImageLemma ==
  ASSUME h \in Binaries
  PROVE  /\ h.text \in Nat /\ h.data \in Nat /\ h.bss \in Nat /\ h.size \in Nat
         /\ Text \in Nat \ {0} /\ Text <= code_limit * MEM_FRAME_SIZE
         /\ code_limit \in Nat /\ data_limit \in Nat \ {0}
         /\ h.data + h.bss + MEM_FRAME_SIZE <= data_limit * MEM_FRAME_SIZE
         /\ Limit \in Nat \ {0} /\ Limit = code_limit + data_limit
<1>1. /\ MEM_FRAME_SIZE \in Nat \ {0} /\ HEADER \in Nat \ {0}
      /\ h.text \in Nat /\ h.data \in Nat /\ h.bss \in Nat /\ h.size \in Nat
  BY ProcAssumption
<1>2. Text \in Nat \ {0}
  BY <1>1 DEF Text
<1>3. code_limit \in Nat /\ Text <= code_limit * MEM_FRAME_SIZE
  BY <1>2, FramesForLemma DEF code_limit
<1>4. PICK b \in Nat : b = h.data + h.bss
  BY <1>1
<1>5. PICK q \in Nat : q = FramesFor(b) /\ b <= q * MEM_FRAME_SIZE
  BY FramesForLemma
<1>6. data_limit = q + 1
  BY <1>4, <1>5 DEF data_limit
<1>7. (q + 1) * MEM_FRAME_SIZE = q * MEM_FRAME_SIZE + MEM_FRAME_SIZE
  BY <1>1
<1>8. q * MEM_FRAME_SIZE \in Nat
  BY <1>1
<1>9. h.data + h.bss + MEM_FRAME_SIZE <= data_limit * MEM_FRAME_SIZE
  BY <1>1, <1>4, <1>5, <1>6, <1>7, <1>8
<1>10. data_limit \in Nat \ {0}
  BY <1>6
<1>11. Limit = code_limit + data_limit
  BY DEF Limit
<1>12. Limit \in Nat \ {0}
  BY <1>3, <1>10, <1>11
<1> QED
  BY <1>1, <1>2, <1>3, <1>9, <1>10, <1>11, <1>12

(* Where the text and the data go, in a block of frames from f on.         *)
Place(f, S, D, E) ==
  /\ S = f * MEM_FRAME_SIZE /\ D = (f + code_limit) * MEM_FRAME_SIZE
  /\ D = S + code_limit * MEM_FRAME_SIZE /\ E = S + Limit * MEM_FRAME_SIZE
  /\ S + Text <= D /\ D + h.data + h.bss + MEM_FRAME_SIZE <= E
  /\ E <= MEM_TOTAL_FRAMES * MEM_FRAME_SIZE
  /\ \A a \in S .. E - 1 : a \div MEM_FRAME_SIZE \in Block(f, Limit)
  /\ \A g \in Block(f, Limit) : /\ g * MEM_FRAME_SIZE \in S .. E - 1
                                /\ (g * MEM_FRAME_SIZE) \div MEM_FRAME_SIZE = g

(* The sections have their place, and their frames are those of the block. *)
LEMMA PlaceLemma ==
  ASSUME h \in Binaries, NEW f \in Nat, f + Limit <= MEM_TOTAL_FRAMES
  PROVE  \E S \in Nat, D \in Nat, E \in Nat : Place(f, S, D, E)
<1> DEFINE Z == MEM_FRAME_SIZE
<1>1. /\ Z \in Nat \ {0} /\ Text \in Nat \ {0} /\ Text <= code_limit * Z
      /\ code_limit \in Nat /\ data_limit \in Nat \ {0} /\ h.data \in Nat /\ h.bss \in Nat
      /\ h.data + h.bss + Z <= data_limit * Z
      /\ Limit \in Nat \ {0} /\ Limit = code_limit + data_limit
  BY ProcAssumption, ImageLemma
<1> HIDE DEF Z
<1>2. PICK S \in Nat : S = f * Z
  BY <1>1
<1>3. PICK C \in Nat : C = code_limit * Z
  BY <1>1
<1>4. PICK T \in Nat : T = data_limit * Z
  BY <1>1
<1>5. PICK D \in Nat : D = S + C
  OBVIOUS
<1>6. (f + code_limit) * Z = D
  BY <1>1, <1>2, <1>3, <1>5, TimesLemma
<1>7. PICK E \in Nat : E = D + T
  OBVIOUS
<1>8. Limit * Z = C + T
  BY <1>1, <1>3, <1>4, TimesLemma
<1>9. (f + Limit) * Z = E
  BY <1>1, <1>2, <1>8, <1>5, <1>7, TimesLemma
<1>10. E = S + Limit * Z
  BY <1>5, <1>7, <1>8
<1>11. S + Text <= D /\ D + h.data + h.bss + Z <= E
  BY <1>1, <1>3, <1>4, <1>5, <1>7
<1>12. E <= MEM_TOTAL_FRAMES * Z
  <2>1. MEM_TOTAL_FRAMES \in Nat /\ f + Limit \in Nat
    BY <1>1, ProcAssumption
  <2> QED
    BY <2>1, <1>1, <1>9, TimesLemma
<1>13. ASSUME NEW a \in S .. E - 1 PROVE a \div Z \in Block(f, Limit)
  <2>0. a \in Nat
    BY <1>2, <1>7
  <2>1. PICK d \in Nat : d = a \div Z /\ d * Z <= a /\ a < d * Z + Z
    BY <1>1, <2>0, FrameOf
  <2>2. d * Z \in Nat /\ f + Limit \in Nat
    BY <1>1
  <2>3. ~(d < f)
    BY <1>1, <1>2, <2>1, <2>2, TimesLemma
  <2>4. ~(f + Limit <= d)
    BY <1>1, <1>9, <2>1, <2>2, TimesLemma
  <2> QED
    BY <1>1, <2>1, <2>2, <2>3, <2>4 DEF Block
<1>14. ASSUME NEW g \in Block(f, Limit)
       PROVE  g * Z \in S .. E - 1 /\ (g * Z) \div Z = g
  <2>1. g \in Nat /\ f <= g /\ g < f + Limit /\ f + Limit \in Nat
    BY <1>1 DEF Block
  <2>2. PICK a \in Nat : a = g * Z
    BY <1>1, <2>1
  <2>3. S <= a /\ a + Z <= E
    BY <1>1, <1>2, <1>9, <2>1, <2>2, TimesLemma
  <2>4. a \div Z = g
    BY <1>1, <2>1, <2>2, FrameOf
  <2> QED
    BY <1>1, <2>2, <2>3, <2>4
<1> QED
  BY <1>2, <1>3, <1>5, <1>6, <1>10, <1>11, <1>12, <1>13, <1>14 DEF Z, Place

-----------------------------------------------------------------------------
(* The invariant.                                                          *)

(* What the invariant says of the table, in terms of its size.             *)
LEMMA TableLemma ==
  ASSUME IInv
  PROVE  \E n \in Nat :
           /\ n >= 4 /\ n \in GdtSizes /\ DOMAIN gdt = 0 .. n - 1
           /\ gdt \in [0 .. n - 1 -> Desc]
           /\ gdt[0] = GDT_NULL_ENTRY /\ GDT_NULL_ENTRY \in Desc
           /\ GDT_NULL_ENTRY.kind = "null"
           /\ \A i \in 1 .. 3 : gdt[i].kind = "kernel"
           /\ \A i \in Room : i \in 4 .. n - 1 /\ i \notin LiveSlots \cup NewSlots
<1>1. PICK n \in GdtSizes : gdt \in [0 .. n - 1 -> Desc]
  BY DEF IInv, GdtInv
<1>2. n \in Nat /\ n >= 4
  BY ProcAssumption
<1>3. GDT_NULL_ENTRY \in Desc /\ GDT_NULL_ENTRY.kind = "null"
  BY DEF GDT_NULL_ENTRY, Descriptor, Desc
<1>4. DOMAIN gdt = 0 .. n - 1
  BY <1>1
<1>5. ASSUME NEW i \in Room PROVE i \in 4 .. n - 1 /\ i \notin LiveSlots \cup NewSlots
  <2>1. i \in 0 .. n - 1 /\ i # 0 /\ gdt[i].kind = "null"
    BY <1>3, <1>4 DEF Room
  <2>2. i \notin 1 .. 3
    BY <2>1 DEF IInv, GdtInv
  <2>3. i \in DOMAIN gdt \ 0 .. 3
    BY <2>1, <2>2, <1>4
  <2> QED
    BY <1>4, <2>1, <2>3 DEF IInv, GdtInv
<1> QED
  BY <1>1, <1>2, <1>3, <1>4, <1>5 DEF IInv, GdtInv

(* The three states of a frame are different.                              *)
LEMMA StatusDistinct ==
  /\ FREE # USED /\ FREE # RESERVED /\ USED # RESERVED
BY DEF FREE, USED, RESERVED

(* What marking frames does.                                               *)
LEMMA MarkLemma ==
  ASSUME status \in [Frame -> {FREE, USED, RESERVED}], NEW S, NEW new,
         new \in {FREE, USED, RESERVED}
  PROVE  /\ Mark(status, S, new) \in [Frame -> {FREE, USED, RESERVED}]
         /\ \A g \in Frame : Mark(status, S, new)[g] = IF g \in S THEN new ELSE status[g]
BY DEF Mark

(* mem_setup and gdt_setup leave no used frame in user space and no user   *)
(* segment.                                                                *)
THEOREM InitInv == ExecInit => IInv
<1> SUFFICES ASSUME ExecInit PROVE IInv
  OBVIOUS
<1>1. PICK n \in GdtSizes : gdt = gdt_setup(n)
  BY DEF ExecInit
<1>2. n \in Nat /\ n >= 4 /\ MEM_TOTAL_FRAMES \in Nat
  BY ProcAssumption
<1>3. /\ pc = "kernel" /\ h \in Binaries /\ cs = 0 /\ ds = 0 /\ result = 0
      /\ segs = [cs |-> 0, ds |-> 0] /\ opened = 0 /\ f_pos = 0 /\ br = 0
  BY DEF ExecInit, NULL
<1>4. LiveSlots = {} /\ NewSlots = {} /\ LiveBlock = {} /\ NewBlock = {} /\ ~Building
  BY <1>3 DEF LiveSlots, NewSlots, LiveBlock, NewBlock, Building
<1>5. gdt \in [0 .. n - 1 -> Desc] /\ DOMAIN gdt = 0 .. n - 1
  BY <1>1, <1>2 DEF gdt_setup, Descriptor, GDT_NULL_ENTRY, Desc
<1>6. TypeInv
  <2>1. status \in [Frame -> {FREE, USED, RESERVED}]
    BY DEF ExecInit
  <2>2. memory \in [0 .. MEM_TOTAL_FRAMES * MEM_FRAME_SIZE - 1 -> Int]
    BY DEF ExecInit, Junk
  <2>3. 0 \in DOMAIN gdt
    BY <1>2, <1>5
  <2>4. result \in Frame
    BY <1>3, ProcAssumption
  <2> QED
    BY <1>3, <2>1, <2>2, <2>3, <2>4 DEF TypeInv
<1>7. GdtInv
  <2>1. gdt[0] = GDT_NULL_ENTRY
    BY <1>1, <1>2 DEF gdt_setup
  <2>2. \A i \in 1 .. 3 : gdt[i].kind = "kernel"
    BY <1>1, <1>2 DEF gdt_setup, Descriptor
  <2>3. \A i \in DOMAIN gdt \ 0 .. 3 : gdt[i] = GDT_NULL_ENTRY
    BY <1>1, <1>2 DEF gdt_setup
  <2> QED
    BY <1>3, <1>4, <1>5, <2>1, <2>2, <2>3 DEF GdtInv
<1>8. FrameInv
  <2>1. \A f \in Frame : f >= MEM_USER_FIRST_FRAME => status[f] # USED
    BY StatusDistinct, ProcAssumption DEF ExecInit
  <2> QED
    BY <1>4, <2>1 DEF FrameInv
<1> QED
  BY <1>3, <1>6, <1>7, <1>8 DEF IInv, BeforeInv, LoadInv, LoadedRight

(* proc_exec begins.                                                       *)
LEMMA ExecInv ==
  ASSUME IInv, NEW b \in Binaries, Exec(b)
  PROVE  IInv'
<1>1. /\ pc = "kernel" /\ pc' = "header" /\ h' = b /\ opened' = 1 /\ f_pos' = 0
      /\ before' = <<gdt, status>> /\ cs' = 0 /\ ds' = 0 /\ br' = 0
      /\ UNCHANGED <<status, result, gdt, memory, segs, esp>>
  BY DEF Exec, At, procVars, IInv, TypeInv
<1>2. PICK n \in Nat : n >= 4 /\ DOMAIN gdt = 0 .. n - 1 /\ gdt \in [0 .. n - 1 -> Desc]
  BY TableLemma
<1>3. /\ NewSlots = {} /\ NewBlock = {} /\ NewSlots' = {} /\ NewBlock' = {}
      /\ LiveSlots' = LiveSlots /\ LiveBlock' = LiveBlock /\ ~Building /\ ~Building'
  BY <1>1 DEF NewSlots, NewBlock, LiveSlots, LiveBlock, Live, Building
<1>4. TypeInv'
  <2>1. 0 \in DOMAIN gdt
    BY <1>2
  <2> QED
    BY <1>1, <2>1 DEF IInv, TypeInv
<1>5. GdtInv'
  BY <1>1, <1>3 DEF IInv, GdtInv
<1>6. FrameInv'
  BY <1>1, <1>3 DEF IInv, FrameInv
<1>7. BeforeInv'
  <2>1. gdt = [i \in DOMAIN gdt |-> gdt[i]]
    BY <1>2
  <2>2. status = [f \in Frame |-> status[f]]
    BY DEF IInv, TypeInv
  <2> QED
    BY <1>1, <1>3, <2>1, <2>2 DEF BeforeInv
<1> QED
  BY <1>1, <1>4, <1>5, <1>6, <1>7 DEF IInv, LoadInv, LoadedRight

(* The ways out: what has been taken is what is given back.                *)
LEMMA FailLemma ==
  ASSUME IInv, NEW slots, NEW frames, Fail(slots, frames),
         pc \notin {"kernel", "replace", "user"},
         slots \cap 1 .. 3 = {}, slots \ {0} = NewSlots,
         Block(result, frames) = NewBlock
  PROVE  /\ IInv' /\ pc' = "kernel" /\ opened' = 0
         /\ <<gdt, status>>' = before /\ UNCHANGED <<memory, segs>>
<1>1. /\ pc' = "kernel" /\ opened' = 0 /\ result' = result
      /\ UNCHANGED <<memory, segs, esp, h, cs, ds, f_pos, br, before>>
      /\ gdt' = [i \in DOMAIN gdt |-> IF i \in slots THEN GDT_NULL_ENTRY ELSE gdt[i]]
      /\ status' = Mark(status, {f \in NewBlock : f \in Frame /\ status[f] = USED}, FREE)
  BY DEF Fail, gdt_dealloc, Release, procVars, IInv, TypeInv
<1>2. PICK n \in Nat : /\ n >= 4 /\ n \in GdtSizes
                       /\ DOMAIN gdt = 0 .. n - 1 /\ gdt \in [0 .. n - 1 -> Desc]
                       /\ gdt[0] = GDT_NULL_ENTRY /\ GDT_NULL_ENTRY \in Desc
                       /\ \A i \in 1 .. 3 : gdt[i].kind = "kernel"
  BY TableLemma
<1>3. /\ NewSlots' = {} /\ NewBlock' = {} /\ ~Building'
      /\ LiveSlots' = LiveSlots
  BY <1>1 DEF NewSlots, NewBlock, LiveSlots, Building
<1>4. /\ gdt' \in [0 .. n - 1 -> Desc] /\ DOMAIN gdt' = 0 .. n - 1
      /\ gdt' = [i \in DOMAIN gdt |-> IF i \in NewSlots THEN GDT_NULL_ENTRY ELSE gdt[i]]
  <2>1. \A i \in DOMAIN gdt : gdt'[i] = IF i \in NewSlots THEN GDT_NULL_ENTRY ELSE gdt[i]
    BY <1>1, <1>2
  <2> QED
    BY <1>1, <1>2, <2>1
<1>5. \A f \in Frame : f \in NewBlock => status[f] = USED /\ f >= MEM_USER_FIRST_FRAME
  BY DEF IInv, FrameInv
<1>6. /\ status' \in [Frame -> {FREE, USED, RESERVED}]
      /\ \A f \in Frame : status'[f] = IF f \in NewBlock THEN FREE ELSE status[f]
  BY <1>1, <1>5, MarkLemma DEF IInv, TypeInv
<1>7. status' = [f \in Frame |-> IF f \in NewBlock THEN FREE ELSE status[f]]
  BY <1>6
<1>8. <<gdt', status'>> = before
  BY <1>4, <1>7 DEF IInv, BeforeInv
<1>9. \A i \in LiveSlots : gdt'[i] = gdt[i]
  BY <1>2, <1>4 DEF IInv, GdtInv
<1>10. LiveBlock' = LiveBlock
  BY <1>1, <1>9 DEF LiveBlock, Live, LiveSlots
<1>11. TypeInv'
  BY <1>1, <1>2, <1>4, <1>6 DEF IInv, TypeInv
<1>12. GdtInv'
  <2>1. \E k \in GdtSizes : gdt' \in [0 .. k - 1 -> Desc]
    BY <1>2, <1>4
  <2>2. gdt'[0] = GDT_NULL_ENTRY /\ \A i \in 1 .. 3 : gdt'[i].kind = "kernel"
    <3>1. \A i \in 0 .. 3 : i \notin NewSlots /\ i \in DOMAIN gdt
      BY <1>2 DEF IInv, GdtInv
    <3> QED
      BY <1>2, <1>4, <3>1
  <2>3. \A i \in DOMAIN gdt' \ 0 .. 3 :
          IF i \in LiveSlots' \cup NewSlots' THEN gdt'[i].kind = "user"
                                             ELSE gdt'[i] = GDT_NULL_ENTRY
    <3> SUFFICES ASSUME NEW i \in DOMAIN gdt \ 0 .. 3
                 PROVE  IF i \in LiveSlots THEN gdt'[i].kind = "user"
                                           ELSE gdt'[i] = GDT_NULL_ENTRY
      BY <1>2, <1>3, <1>4
    <3>1. IF i \in LiveSlots \cup NewSlots THEN gdt[i].kind = "user"
                                           ELSE gdt[i] = GDT_NULL_ENTRY
      BY DEF IInv, GdtInv
    <3>2. gdt'[i] = IF i \in NewSlots THEN GDT_NULL_ENTRY ELSE gdt[i]
      BY <1>4
    <3> QED
      BY <1>9, <3>1, <3>2
  <2>4. LiveSlots' \subseteq DOMAIN gdt' \ 0 .. 3
    BY <1>2, <1>3, <1>4 DEF IInv, GdtInv
  <2>5. /\ segs.cs = 0 <=> segs.ds = 0
        /\ segs.cs # 0 => /\ gdt'[segs.ds].base = gdt'[segs.cs].base
                          /\ gdt'[segs.ds].limit = gdt'[segs.cs].limit
    BY <1>9 DEF IInv, GdtInv, LiveSlots
  <2> QED
    BY <1>1, <1>3, <2>1, <2>2, <2>3, <2>4, <2>5 DEF GdtInv
<1>13. FrameInv'
  <2>1. {f \in Frame : f >= MEM_USER_FIRST_FRAME /\ status'[f] = USED} = LiveBlock
    <3>1. {f \in Frame : f >= MEM_USER_FIRST_FRAME /\ status[f] = USED} = LiveBlock \cup NewBlock
      BY DEF IInv, FrameInv
    <3>2. LiveBlock \cap NewBlock = {}
      BY DEF IInv, FrameInv
    <3> QED
      BY <1>6, <3>1, <3>2, StatusDistinct
  <2> QED
    BY <1>3, <1>10, <2>1 DEF FrameInv
<1> QED
  BY <1>1, <1>8, <1>11, <1>12, <1>13 DEF IInv, BeforeInv, LoadInv, LoadedRight

(* As long as the header is the same, so is what is computed from it.      *)
LEMMA SameHeader ==
  ASSUME h' = h
  PROVE  UNCHANGED <<Text, code_limit, data_limit, Limit>>
BY DEF Text, code_limit, data_limit, Limit, FramesFor

(* A step that neither takes nor gives back.                               *)
LEMMA KeepLemma ==
  ASSUME IInv, UNCHANGED <<status, result, gdt, segs, before, cs, ds, h>>,
         Building' <=> Building, NewSlots' = NewSlots,
         pc' \notin {"kernel", "user"} => pc \notin {"kernel", "user"}
  PROVE  GdtInv' /\ FrameInv' /\ BeforeInv'
<1>1. UNCHANGED <<Limit, LiveSlots, LiveBlock, NewBlock>>
  BY SameHeader DEF LiveSlots, LiveBlock, Live, NewBlock
<1>2. GdtInv'
  BY <1>1 DEF IInv, GdtInv
<1>3. FrameInv'
  BY <1>1 DEF IInv, FrameInv
<1>4. BeforeInv'
  BY <1>1 DEF IInv, BeforeInv
<1> QED
  BY <1>2, <1>3, <1>4

(* The header has been read, in whole or not.                              *)
LEMMA ReadHeaderInv ==
  ASSUME IInv, ReadHeader
  PROVE  /\ IInv' /\ UNCHANGED <<memory, segs>>
         /\ pc' = "kernel" => <<gdt, status>>' = before /\ opened' = 0
<1>1. pc = "header" /\ NewSlots = {} /\ NewBlock = {}
  BY DEF ReadHeader, NewSlots, NewBlock, Building
<1>2. CASE h.size < HEADER
  <2>1. Fail({}, 0)
    BY <1>2 DEF ReadHeader
  <2>2. result \in Int
    BY ProcAssumption DEF IInv, TypeInv
  <2>3. Block(result, 0) = {}
    BY <2>2 DEF Block
  <2> QED
    BY <1>1, <2>1, <2>3, FailLemma
<1>3. CASE ~(h.size < HEADER)
  <2>1. /\ pc' = "frames" /\ f_pos' = HEADER
        /\ UNCHANGED <<status, result, gdt, memory, segs, esp, h, cs, ds, opened, br, before>>
    BY <1>3 DEF ReadHeader, procVars
  <2>2. GdtInv' /\ FrameInv' /\ BeforeInv'
    BY <1>1, <2>1, KeepLemma DEF Building, NewSlots
  <2>3. TypeInv'
    <3>1. HEADER \in Nat
      BY ProcAssumption
    <3> QED
      BY <1>1, <2>1, <3>1 DEF IInv, TypeInv
  <2> QED
    BY <2>1, <2>2, <2>3 DEF IInv, LoadInv, LoadedRight
<1> QED
  BY <1>2, <1>3

(* The frames got were free, so that they are none of the process's.       *)
LEMMA AllocateInv ==
  ASSUME IInv, AllocateFrames
  PROVE  /\ IInv' /\ UNCHANGED <<memory, segs>>
         /\ pc' = "kernel" => <<gdt, status>>' = before /\ opened' = 0
<1>1. /\ pc = "frames" /\ opened = 1 /\ NewSlots = {} /\ NewBlock = {} /\ ~Building
      /\ UNCHANGED <<gdt, memory, segs, esp, h, cs, ds, f_pos, br, before>>
  BY DEF AllocateFrames, NewSlots, NewBlock, Building, procVars, IInv, TypeInv
<1>2. PICK n \in Nat : DOMAIN gdt = 0 .. n - 1 /\ gdt \in [0 .. n - 1 -> Desc]
  BY TableLemma
<1>3. before = <<gdt, status>>
  <2>1. gdt = [i \in DOMAIN gdt |-> gdt[i]]
    BY <1>2
  <2>2. status = [f \in Frame |-> status[f]]
    BY DEF IInv, TypeInv
  <2> QED
    BY <1>1, <2>1, <2>2 DEF IInv, BeforeInv
<1>4. UNCHANGED <<Limit, LiveSlots, LiveBlock>>
  BY <1>1, SameHeader DEF LiveSlots, LiveBlock, Live
<1>5. CASE UNCHANGED status /\ result' = NULL
  <2>1. pc' = "kernel" /\ opened' = 0
    BY <1>1, <1>5 DEF AllocateFrames
  <2>2. TypeInv'
    <3>1. NULL \in Frame
      BY ProcAssumption DEF NULL
    <3> QED
      BY <1>1, <1>5, <2>1, <3>1 DEF IInv, TypeInv
  <2>3. NewSlots' = {} /\ NewBlock' = {} /\ ~Building'
    BY <2>1 DEF NewSlots, NewBlock, Building
  <2>4. GdtInv'
    BY <1>1, <1>4, <2>3 DEF IInv, GdtInv
  <2>5. FrameInv'
    BY <1>1, <1>4, <1>5, <2>3 DEF IInv, FrameInv
  <2> QED
    BY <1>1, <1>3, <1>5, <2>1, <2>2, <2>4, <2>5 DEF IInv, BeforeInv, LoadInv, LoadedRight
<1>6. CASE \E s \in Fits(status, Limit, MEM_USER_FIRST_FRAME, MEM_TOTAL_FRAMES) :
              result' = s /\ status' = Mark(status, Block(s, Limit), USED)
  <2>1. PICK s \in Fits(status, Limit, MEM_USER_FIRST_FRAME, MEM_TOTAL_FRAMES) :
              result' = s /\ status' = Mark(status, Block(s, Limit), USED)
    BY <1>6
  <2>2. /\ Limit \in Nat \ {0} /\ MEM_TOTAL_FRAMES \in Nat
        /\ MEM_USER_FIRST_FRAME \in Nat \ {0} /\ Frame = 0 .. MEM_TOTAL_FRAMES - 1
    BY ImageLemma, ProcAssumption DEF IInv, TypeInv, NULL
  <2>3. /\ s \in Nat /\ s >= MEM_USER_FIRST_FRAME /\ s + Limit <= MEM_TOTAL_FRAMES
        /\ \A f \in Block(s, Limit) : status[f] = FREE
    BY <2>2 DEF Fits
  <2>4. s \in Frame /\ s # NULL
    BY <2>2, <2>3 DEF NULL
  <2>5. pc' = "cs" /\ opened' = 1
    BY <1>1, <2>1, <2>4 DEF AllocateFrames
  <2>6. NewSlots' = {} /\ NewBlock' = Block(s, Limit) /\ Building'
    BY <1>4, <2>1, <2>5 DEF NewSlots, NewBlock, Building
  <2>7. /\ status' \in [Frame -> {FREE, USED, RESERVED}]
        /\ \A f \in Frame : status'[f] = IF f \in Block(s, Limit) THEN USED ELSE status[f]
    BY <2>1, MarkLemma DEF IInv, TypeInv
  <2>8. TypeInv'
    BY <1>1, <2>1, <2>4, <2>5, <2>7 DEF IInv, TypeInv
  <2>9. GdtInv'
    BY <1>1, <1>4, <2>6 DEF IInv, GdtInv
  <2>10. \A f \in Block(s, Limit) : f \in Frame /\ f >= MEM_USER_FIRST_FRAME
    BY <2>2, <2>3 DEF Block
  <2>11. FrameInv'
    <3>1. {f \in Frame : f >= MEM_USER_FIRST_FRAME /\ status[f] = USED} = LiveBlock
      BY <1>1 DEF IInv, FrameInv
    <3>2. {f \in Frame : f >= MEM_USER_FIRST_FRAME /\ status'[f] = USED}
            = LiveBlock \cup Block(s, Limit)
      BY <2>7, <2>10, <3>1
    <3>3. LiveBlock \cap Block(s, Limit) = {}
      BY <2>3, <3>1, StatusDistinct
    <3> QED
      BY <1>4, <2>1, <2>3, <2>6, <3>2, <3>3 DEF FrameInv
  <2>12. BeforeInv'
    <3>1. \A f \in Frame : status[f] = IF f \in Block(s, Limit) THEN FREE ELSE status'[f]
      BY <2>3, <2>7
    <3>2. status = [f \in Frame |-> IF f \in Block(s, Limit) THEN FREE ELSE status'[f]]
      BY <3>1 DEF IInv, TypeInv
    <3>3. gdt = [i \in DOMAIN gdt |-> gdt[i]]
      BY <1>2
    <3> QED
      BY <1>1, <1>3, <2>6, <3>2, <3>3 DEF BeforeInv
  <2> QED
    BY <1>1, <2>5, <2>8, <2>9, <2>11, <2>12 DEF IInv, LoadInv, LoadedRight
<1> QED
  BY <1>5, <1>6 DEF AllocateFrames, Allocate

(* A slot taken from the table.                                            *)
LEMMA SlotLemma ==
  ASSUME IInv, pc \in {"cs", "ds"}, NEW s \in Room,
         gdt' = [gdt EXCEPT ![s] = Descriptor("user", result, Limit)],
         UNCHANGED <<status, result, segs, before, h>>,
         Building', NewSlots' = NewSlots \cup {s}
  PROVE  /\ GdtInv' /\ FrameInv' /\ BeforeInv'
         /\ DOMAIN gdt' = DOMAIN gdt /\ s \in DOMAIN gdt
<1>1. PICK n \in Nat : /\ n >= 4 /\ n \in GdtSizes
                       /\ DOMAIN gdt = 0 .. n - 1 /\ gdt \in [0 .. n - 1 -> Desc]
                       /\ gdt[0] = GDT_NULL_ENTRY
                       /\ \A i \in 1 .. 3 : gdt[i].kind = "kernel"
                       /\ s \in 4 .. n - 1 /\ s \notin LiveSlots \cup NewSlots
  BY TableLemma
<1>2. Descriptor("user", result, Limit) \in Desc /\ Descriptor("user", result, Limit).kind = "user"
  <2>1. Limit \in Nat /\ result \in Nat
    BY ImageLemma, ProcAssumption DEF IInv, TypeInv
  <2> QED
    BY <2>1 DEF Descriptor, Desc
<1>3. /\ gdt' \in [0 .. n - 1 -> Desc] /\ DOMAIN gdt' = 0 .. n - 1
      /\ gdt'[s] = Descriptor("user", result, Limit)
      /\ \A i \in 0 .. n - 1 : i # s => gdt'[i] = gdt[i]
  BY <1>1, <1>2
<1>4. \A i \in LiveSlots \cup NewSlots : gdt'[i] = gdt[i]
  BY <1>1, <1>3 DEF IInv, GdtInv
<1>5. UNCHANGED <<Limit, LiveSlots, LiveBlock, NewBlock>>
  BY <1>4, SameHeader DEF LiveSlots, LiveBlock, Live, NewBlock, Building
<1>6. GdtInv'
  <2>1. \E k \in GdtSizes : gdt' \in [0 .. k - 1 -> Desc]
    BY <1>1, <1>3
  <2>2. gdt'[0] = GDT_NULL_ENTRY /\ \A i \in 1 .. 3 : gdt'[i].kind = "kernel"
    BY <1>1, <1>3
  <2>3. \A i \in DOMAIN gdt' \ 0 .. 3 :
          IF i \in LiveSlots' \cup NewSlots' THEN gdt'[i].kind = "user"
                                             ELSE gdt'[i] = GDT_NULL_ENTRY
    <3> SUFFICES ASSUME NEW i \in DOMAIN gdt \ 0 .. 3
                 PROVE  IF i \in LiveSlots \cup (NewSlots \cup {s})
                        THEN gdt'[i].kind = "user" ELSE gdt'[i] = GDT_NULL_ENTRY
      BY <1>1, <1>3, <1>5
    <3>1. IF i \in LiveSlots \cup NewSlots THEN gdt[i].kind = "user"
                                           ELSE gdt[i] = GDT_NULL_ENTRY
      BY DEF IInv, GdtInv
    <3> QED
      BY <1>1, <1>2, <1>3, <3>1
  <2>4. LiveSlots' \cup NewSlots' \subseteq DOMAIN gdt' \ 0 .. 3
    <3>1. s \in DOMAIN gdt' \ 0 .. 3
      BY <1>1, <1>3
    <3> QED
      BY <1>1, <1>3, <1>5, <3>1 DEF IInv, GdtInv
  <2>5. LiveSlots' \cap NewSlots' = {}
    BY <1>1, <1>5 DEF IInv, GdtInv
  <2>6. /\ segs.cs = 0 <=> segs.ds = 0
        /\ segs.cs # 0 => /\ gdt'[segs.ds].base = gdt'[segs.cs].base
                          /\ gdt'[segs.ds].limit = gdt'[segs.cs].limit
    BY <1>4 DEF IInv, GdtInv, LiveSlots
  <2>7. \A i \in NewSlots' : gdt'[i] = Descriptor("user", result, Limit)
    BY <1>3, <1>4 DEF IInv, GdtInv
  <2> QED
    BY <1>5, <2>1, <2>2, <2>3, <2>4, <2>5, <2>6, <2>7 DEF GdtInv
<1>7. FrameInv'
  BY <1>5 DEF IInv, FrameInv, Building
<1>8. BeforeInv'
  <2>1. before = << [i \in DOMAIN gdt |-> IF i \in NewSlots THEN GDT_NULL_ENTRY ELSE gdt[i]],
                    [f \in Frame |-> IF f \in NewBlock THEN FREE ELSE status[f]] >>
    BY DEF IInv, BeforeInv
  <2>2. gdt[s] = GDT_NULL_ENTRY
    BY DEF Room
  <2>3. \A i \in DOMAIN gdt : (IF i \in NewSlots THEN GDT_NULL_ENTRY ELSE gdt[i])
           = IF i \in NewSlots \cup {s} THEN GDT_NULL_ENTRY ELSE gdt'[i]
    BY <1>1, <1>3, <2>2
  <2>4. [i \in DOMAIN gdt |-> IF i \in NewSlots THEN GDT_NULL_ENTRY ELSE gdt[i]]
          = [i \in DOMAIN gdt' |-> IF i \in NewSlots' THEN GDT_NULL_ENTRY ELSE gdt'[i]]
    BY <1>1, <1>3, <2>3
  <2> QED
    BY <1>5, <2>1, <2>4 DEF BeforeInv
<1> QED
  BY <1>1, <1>3, <1>6, <1>7, <1>8

(* The code segment.                                                       *)
LEMMA CodeSegmentInv ==
  ASSUME IInv, CodeSegment
  PROVE  /\ IInv' /\ UNCHANGED <<memory, segs>>
         /\ pc' = "kernel" => <<gdt, status>>' = before /\ opened' = 0
<1>1. pc = "cs" /\ NewSlots = {} /\ NewBlock = Block(result, Limit)
  BY DEF CodeSegment, NewSlots, NewBlock, Building
<1>2. CASE Room = {}
  BY <1>1, <1>2, FailLemma DEF CodeSegment
<1>3. CASE Room # {}
  <2>1. /\ pc' = "ds" /\ cs' \in Room /\ gdt' = [gdt EXCEPT ![cs'] = Descriptor("user", result, Limit)]
        /\ UNCHANGED <<status, result, memory, segs, esp, h, ds, opened, f_pos, br, before>>
    BY <1>3 DEF CodeSegment, gdt_alloc, procVars, fileVars
  <2>2. Building' /\ NewSlots' = {cs'}
    BY <2>1 DEF Building, NewSlots
  <2>3. PICK s \in Room : s = cs'
    BY <2>1
  <2>4. NewSlots' = NewSlots \cup {s} /\ gdt' = [gdt EXCEPT ![s] = Descriptor("user", result, Limit)]
    BY <1>1, <2>1, <2>2, <2>3
  <2>5. GdtInv' /\ FrameInv' /\ BeforeInv' /\ DOMAIN gdt' = DOMAIN gdt /\ s \in DOMAIN gdt
    BY <1>1, <2>1, <2>2, <2>4, SlotLemma
  <2>6. TypeInv'
    BY <1>1, <2>1, <2>3, <2>5 DEF IInv, TypeInv
  <2> QED
    BY <2>1, <2>5, <2>6 DEF IInv, LoadInv, LoadedRight
<1> QED
  BY <1>2, <1>3

(* The data segment.                                                       *)
LEMMA DataSegmentInv ==
  ASSUME IInv, DataSegment
  PROVE  /\ IInv' /\ UNCHANGED <<memory, segs>>
         /\ pc' = "kernel" => <<gdt, status>>' = before /\ opened' = 0
<1>1. pc = "ds" /\ NewSlots = {cs} /\ NewBlock = Block(result, Limit)
  BY DEF DataSegment, NewSlots, NewBlock, Building
<1>2. CASE Room = {}
  <2>1. {cs} \cap 1 .. 3 = {} /\ {cs} \ {0} = NewSlots
    <3>1. cs \in DOMAIN gdt \ 0 .. 3
      BY <1>1 DEF IInv, GdtInv
    <3>2. cs \notin 0 .. 3
      BY <3>1
    <3> QED
      BY <1>1, <3>2
  <2> QED
    BY <1>1, <1>2, <2>1, FailLemma DEF DataSegment
<1>3. CASE Room # {}
  <2>1. /\ pc' = "text" /\ ds' \in Room /\ gdt' = [gdt EXCEPT ![ds'] = Descriptor("user", result, Limit)]
        /\ f_pos' = 0 /\ br' = 0
        /\ UNCHANGED <<status, result, memory, segs, esp, h, cs, opened, before>>
    BY <1>3 DEF DataSegment, gdt_alloc, procVars
  <2>2. Building' /\ NewSlots' = {cs, ds'}
    BY <2>1 DEF Building, NewSlots
  <2>3. PICK s \in Room : s = ds'
    BY <2>1
  <2>4. NewSlots' = NewSlots \cup {s} /\ gdt' = [gdt EXCEPT ![s] = Descriptor("user", result, Limit)]
    BY <1>1, <2>1, <2>2, <2>3
  <2>5. GdtInv' /\ FrameInv' /\ BeforeInv' /\ DOMAIN gdt' = DOMAIN gdt /\ s \in DOMAIN gdt
    BY <1>1, <2>1, <2>2, <2>4, SlotLemma
  <2>6. TypeInv'
    BY <1>1, <2>1, <2>3, <2>5 DEF IInv, TypeInv
  <2>7. LoadInv'
    <3>1. Text' \in Nat
      BY <2>1, SameHeader, ImageLemma DEF IInv, TypeInv
    <3> QED
      BY <2>1, <3>1 DEF LoadInv, TextTo
  <2> QED
    BY <2>1, <2>5, <2>6, <2>7 DEF IInv, LoadedRight
<1> QED
  BY <1>2, <1>3

(* Undoing, from the loops.                                                *)
LEMMA UndoLemma ==
  ASSUME IInv, pc \in {"text", "data"}, Undo
  PROVE  /\ IInv' /\ UNCHANGED <<memory, segs>>
         /\ pc' = "kernel" /\ <<gdt, status>>' = before /\ opened' = 0
<1>1. NewSlots = {cs, ds} /\ NewBlock = Block(result, Limit)
  BY DEF NewSlots, NewBlock, Building
<1>2. {cs, ds} \cap 1 .. 3 = {} /\ {cs, ds} \ {0} = NewSlots
  <2>1. cs \notin 0 .. 3 /\ ds \notin 0 .. 3
    BY <1>1 DEF IInv, GdtInv
  <2> QED
    BY <1>1, <2>1
<1> QED
  BY <1>1, <1>2, FailLemma DEF Undo

(* A step writes to none of the frames of the process.                     *)
Apart == segs.cs # 0 => \A a \in DOMAIN memory :
           a \div MEM_FRAME_SIZE \in Live => memory'[a] = memory[a]

(* The frames of the image that is being built are not the process's.      *)
LEMMA ApartLemma ==
  ASSUME IInv, Building, NEW S, NEW E,
         \A a \in S .. E - 1 : a \div MEM_FRAME_SIZE \in Block(result, Limit),
         \A a \in DOMAIN memory : a \notin S .. E - 1 => memory'[a] = memory[a]
  PROVE  Apart
<1> SUFFICES ASSUME segs.cs # 0, NEW a \in DOMAIN memory, a \div MEM_FRAME_SIZE \in Live
             PROVE  memory'[a] = memory[a]
  BY DEF Apart
<1>1. LiveBlock = Live /\ NewBlock = Block(result, Limit)
  BY DEF LiveBlock, NewBlock
<1>2. a \div MEM_FRAME_SIZE \notin Block(result, Limit)
  BY <1>1 DEF IInv, FrameInv
<1> QED
  BY <1>2

(* The loop that loads the text.                                           *)
LEMMA LoadTextInv ==
  ASSUME IInv, LoadText
  PROVE  /\ IInv' /\ segs' = segs /\ Apart
         /\ pc' = "kernel" => <<gdt, status>>' = before /\ opened' = 0
<1>1. pc = "text" /\ Building /\ NewSlots = {cs, ds}
  BY DEF LoadText, Load, Building, NewSlots
<1>2. /\ h \in Binaries /\ result \in Nat /\ result + Limit <= MEM_TOTAL_FRAMES
      /\ br \in Nat /\ br <= Text /\ f_pos = br /\ TextTo(br)
  BY <1>1, ProcAssumption DEF IInv, TypeInv, FrameInv, LoadInv
<1>3. PICK S \in Nat, D \in Nat, E \in Nat : Place(result, S, D, E)
  BY <1>2, PlaceLemma
<1>31. /\ S = result * MEM_FRAME_SIZE /\ D = (result + code_limit) * MEM_FRAME_SIZE
       /\ S + Text <= D /\ D + h.data + h.bss + MEM_FRAME_SIZE <= E
       /\ E <= MEM_TOTAL_FRAMES * MEM_FRAME_SIZE
       /\ \A a \in S .. E - 1 : a \div MEM_FRAME_SIZE \in Block(result, Limit)
  BY <1>3 DEF Place
<1>4. /\ Text \in Nat \ {0} /\ h.data \in Nat /\ h.bss \in Nat /\ MEM_FRAME_SIZE \in Nat
      /\ MEM_TOTAL_FRAMES * MEM_FRAME_SIZE \in Nat
  BY <1>2, ImageLemma, ProcAssumption
<1>5. DataStart = D
  BY <1>31 DEF DataStart
<1>6. CASE br >= Text /\ pc' = "data" /\ br' = 0
           /\ UNCHANGED <<status, result, gdt, memory, segs, esp, h, cs, ds, opened, f_pos, before>>
  <2>1. GdtInv' /\ FrameInv' /\ BeforeInv'
    BY <1>1, <1>6, KeepLemma DEF Building, NewSlots
  <2>2. TypeInv'
    BY <1>1, <1>6 DEF IInv, TypeInv
  <2>3. UNCHANGED <<Text, code_limit>>
    BY <1>6, SameHeader
  <2>4. br = Text
    BY <1>2, <1>4, <1>6
  <2>5. LoadInv'
    BY <1>2, <1>4, <1>6, <2>3, <2>4 DEF LoadInv, TextTo, DataTo
  <2>6. Apart
    BY <1>6 DEF Apart
  <2> QED
    BY <1>6, <2>1, <2>2, <2>5, <2>6 DEF IInv, LoadedRight, procVars
<1>7. CASE Undo
  <2>1. /\ IInv' /\ UNCHANGED <<memory, segs>>
        /\ pc' = "kernel" /\ <<gdt, status>>' = before /\ opened' = 0
    BY <1>1, <1>7, UndoLemma
  <2> QED
    BY <2>1 DEF Apart
<1>8. CASE /\ \E r \in Reads(Text) : Read(result * MEM_FRAME_SIZE + br, r)
           /\ UNCHANGED <<status, result, gdt, segs, esp, pc, h, cs, ds, opened, before>>
  <2>1. PICK r \in Reads(Text) : Read(S + br, r)
    BY <1>31, <1>8
  <2>2. r \in Nat /\ r >= 1 /\ br + r <= Text
    BY <1>2, <1>4 DEF Reads
  <2>3. PICK a \in Nat : a = S + br
    BY <1>2
  <2>4. /\ f_pos' = br + r /\ br' = br + r
        /\ memory' = [x \in DOMAIN memory |->
                        IF x \in a .. a + r - 1 THEN br + x - a ELSE memory[x]]
    BY <1>2, <2>1, <2>3 DEF Read
  <2>5. PICK M \in Nat : M = MEM_TOTAL_FRAMES * MEM_FRAME_SIZE
    BY <1>4
  <2>6. DOMAIN memory = 0 .. M - 1 /\ memory \in [0 .. M - 1 -> Int]
    BY <2>5 DEF IInv, TypeInv
  <2>7. memory' \in [0 .. M - 1 -> Int]
    BY <1>2, <2>2, <2>4, <2>6
  <2>8. GdtInv' /\ FrameInv' /\ BeforeInv'
    BY <1>1, <1>8, KeepLemma DEF Building, NewSlots
  <2>9. TypeInv'
    BY <1>1, <1>2, <1>8, <2>2, <2>4, <2>5, <2>7 DEF IInv, TypeInv
  <2>10. Text' = Text
    BY <1>8, SameHeader
  <2>11. \A k \in 0 .. br + r - 1 : memory'[S + k] = k
    <3> SUFFICES ASSUME NEW k \in 0 .. br + r - 1 PROVE memory'[S + k] = k
      OBVIOUS
    <3>1. S + k \in 0 .. M - 1
      BY <1>2, <1>31, <1>4, <2>2, <2>5
    <3>2. CASE k < br
      <4>1. memory'[S + k] = memory[S + k]
        BY <1>2, <2>2, <2>3, <2>4, <2>6, <3>1, <3>2
      <4> QED
        BY <1>2, <1>31, <3>2, <4>1 DEF TextTo
    <3>3. CASE k >= br
      BY <1>2, <2>2, <2>3, <2>4, <2>6, <3>1, <3>3
    <3> QED
      BY <1>2, <2>2, <3>2, <3>3
  <2>12. LoadInv'
    <3>0. result' * MEM_FRAME_SIZE = S /\ br' = br + r
      BY <1>31, <1>8, <2>4
    <3>1. \A k \in 0 .. br' - 1 : memory'[result' * MEM_FRAME_SIZE + k] = k
      <4>1. br' - 1 = br + r - 1
        BY <1>2, <2>2, <3>0
      <4> QED
        BY <2>11, <3>0, <4>1, Zenon
    <3>2. TextTo(br)'
      BY <3>1 DEF TextTo
    <3> QED
      BY <1>1, <1>8, <2>2, <2>4, <2>10, <3>2 DEF LoadInv
  <2>13. Apart
    <3>0. S + Text <= E
      BY <1>2, <1>31, <1>4
    <3>1. \A x \in DOMAIN memory : x \notin S .. E - 1 => memory'[x] = memory[x]
      <4> SUFFICES ASSUME NEW x \in DOMAIN memory, x \notin S .. E - 1
                   PROVE  memory'[x] = memory[x]
        OBVIOUS
      <4>1. x \in Int
        BY <2>5, <2>6
      <4>3. S <= a /\ a + r <= S + Text
        BY <1>2, <1>4, <2>2, <2>3
      <4>4. a + r <= E
        BY <1>4, <2>2, <3>0, <4>3
      <4>2. x \notin a .. a + r - 1
        BY <2>2, <4>1, <4>3, <4>4
      <4> QED
        BY <2>4, <4>2
    <3> QED
      BY <1>1, <1>31, <3>1, ApartLemma
  <2> QED
    BY <1>1, <1>8, <2>8, <2>9, <2>12, <2>13 DEF IInv, LoadedRight, procVars
<1> QED
  BY <1>6, <1>7, <1>8 DEF LoadText, Load, AtEnd, procVars

(* The loop that loads the data, above the text.                           *)
LEMMA LoadDataInv ==
  ASSUME IInv, LoadData
  PROVE  /\ IInv' /\ segs' = segs /\ Apart
         /\ pc' = "kernel" => <<gdt, status>>' = before /\ opened' = 0
<1>1. pc = "data" /\ Building /\ NewSlots = {cs, ds}
  BY DEF LoadData, Load, Building, NewSlots
<1>2. /\ h \in Binaries /\ result \in Nat /\ result + Limit <= MEM_TOTAL_FRAMES
      /\ br \in Nat /\ br <= h.data /\ f_pos = Text + br /\ TextTo(Text) /\ DataTo(br)
  BY <1>1, ProcAssumption DEF IInv, TypeInv, FrameInv, LoadInv
<1>3. PICK S \in Nat, D \in Nat, E \in Nat : Place(result, S, D, E)
  BY <1>2, PlaceLemma
<1>4. /\ S = result * MEM_FRAME_SIZE /\ D = (result + code_limit) * MEM_FRAME_SIZE
      /\ S + Text <= D /\ D + h.data + h.bss + MEM_FRAME_SIZE <= E
      /\ E <= MEM_TOTAL_FRAMES * MEM_FRAME_SIZE
      /\ \A a \in S .. E - 1 : a \div MEM_FRAME_SIZE \in Block(result, Limit)
  BY <1>3 DEF Place
<1>5. /\ Text \in Nat \ {0} /\ h.data \in Nat /\ h.bss \in Nat /\ MEM_FRAME_SIZE \in Nat
      /\ MEM_TOTAL_FRAMES * MEM_FRAME_SIZE \in Nat
  BY <1>2, ImageLemma, ProcAssumption
<1>6. DataStart = D
  BY <1>4 DEF DataStart
<1>7. CASE br >= h.data /\ pc' = "close" /\ br' = 0
           /\ UNCHANGED <<status, result, gdt, memory, segs, esp, h, cs, ds, opened, f_pos, before>>
  <2>1. GdtInv' /\ FrameInv' /\ BeforeInv'
    BY <1>1, <1>7, KeepLemma DEF Building, NewSlots
  <2>2. TypeInv'
    BY <1>1, <1>7 DEF IInv, TypeInv
  <2>3. UNCHANGED <<Text, code_limit, DataStart>>
    BY <1>7, SameHeader DEF DataStart
  <2>4. br = h.data
    BY <1>2, <1>5, <1>7
  <2>5. LoadInv'
    BY <1>2, <1>7, <2>3, <2>4 DEF LoadInv, TextTo, DataTo
  <2>6. Apart
    BY <1>7 DEF Apart
  <2> QED
    BY <1>7, <2>1, <2>2, <2>5, <2>6 DEF IInv, LoadedRight
<1>8. CASE Undo
  <2>1. /\ IInv' /\ UNCHANGED <<memory, segs>>
        /\ pc' = "kernel" /\ <<gdt, status>>' = before /\ opened' = 0
    BY <1>1, <1>8, UndoLemma
  <2> QED
    BY <2>1 DEF Apart
<1>9. CASE /\ \E r \in Reads(h.data) : Read(DataStart + br, r)
           /\ UNCHANGED <<status, result, gdt, segs, esp, pc, h, cs, ds, opened, before>>
  <2>1. PICK r \in Reads(h.data) : Read(D + br, r)
    BY <1>6, <1>9
  <2>2. r \in Nat /\ r >= 1 /\ br + r <= h.data
    BY <1>2, <1>5 DEF Reads
  <2>3. PICK a \in Nat : a = D + br
    BY <1>2
  <2>4. /\ f_pos' = Text + br + r /\ br' = br + r
        /\ memory' = [x \in DOMAIN memory |->
                        IF x \in a .. a + r - 1 THEN Text + br + x - a ELSE memory[x]]
    BY <1>2, <2>1, <2>3 DEF Read
  <2>5. PICK M \in Nat : M = MEM_TOTAL_FRAMES * MEM_FRAME_SIZE
    BY <1>5
  <2>6. DOMAIN memory = 0 .. M - 1 /\ memory \in [0 .. M - 1 -> Int]
    BY <2>5 DEF IInv, TypeInv
  <2>7. memory' \in [0 .. M - 1 -> Int]
    BY <1>2, <1>5, <2>2, <2>4, <2>6
  <2>8. GdtInv' /\ FrameInv' /\ BeforeInv'
    BY <1>1, <1>9, KeepLemma DEF Building, NewSlots
  <2>9. TypeInv'
    BY <1>1, <1>2, <1>5, <1>9, <2>2, <2>4, <2>5, <2>7 DEF IInv, TypeInv
  <2>10. UNCHANGED <<Text, code_limit, DataStart>>
    BY <1>9, SameHeader DEF DataStart
  <2>11. TextTo(Text)'
    <3>1. \A k \in 0 .. Text - 1 : memory'[S + k] = k
      <4> SUFFICES ASSUME NEW k \in 0 .. Text - 1 PROVE memory'[S + k] = k
        OBVIOUS
      <4>1. S + k \in 0 .. M - 1 /\ S + k < a
        BY <1>2, <1>4, <1>5, <2>3, <2>5
      <4>2. memory'[S + k] = memory[S + k]
        BY <2>2, <2>4, <2>6, <4>1
      <4> QED
        BY <1>2, <1>4, <4>2 DEF TextTo
    <3>2. result' * MEM_FRAME_SIZE = S
      BY <1>4, <1>9
    <3> QED
      BY <2>10, <3>1, <3>2, Zenon DEF TextTo
  <2>12. DataTo(br)'
    <3>1. \A k \in 0 .. br + r - 1 : memory'[D + k] = Text + k
      <4> SUFFICES ASSUME NEW k \in 0 .. br + r - 1 PROVE memory'[D + k] = Text + k
        OBVIOUS
      <4>1. D + k \in 0 .. M - 1
        BY <1>2, <1>4, <1>5, <2>2, <2>5
      <4>2. CASE k < br
        <5>1. memory'[D + k] = memory[D + k]
          BY <1>2, <2>2, <2>3, <2>4, <2>6, <4>1, <4>2
        <5> QED
          BY <1>2, <1>6, <4>2, <5>1 DEF DataTo
      <4>3. CASE k >= br
        <5>1. D + k \in a .. a + r - 1 /\ Text + br + (D + k) - a = Text + k
          BY <1>2, <1>5, <2>2, <2>3, <4>3
        <5> QED
          BY <1>2, <1>5, <2>2, <2>3, <2>4, <2>6, <4>1, <5>1
      <4> QED
        BY <1>2, <2>2, <4>2, <4>3
    <3>2. br' - 1 = br + r - 1
      BY <1>2, <2>2, <2>4
    <3> QED
      BY <1>6, <2>10, <3>1, <3>2, Zenon DEF DataTo
  <2>13. LoadInv'
    BY <1>1, <1>2, <1>5, <1>9, <2>2, <2>4, <2>10, <2>11, <2>12 DEF LoadInv
  <2>14. Apart
    <3>1. \A x \in DOMAIN memory : x \notin S .. E - 1 => memory'[x] = memory[x]
      <4>1. \A x \in a .. a + r - 1 : x \in S .. E - 1
        BY <1>2, <1>4, <1>5, <2>2, <2>3
      <4> QED
        BY <2>4, <2>6, <4>1
    <3> QED
      BY <1>1, <1>4, <3>1, ApartLemma
  <2> QED
    BY <1>1, <1>9, <2>8, <2>9, <2>13, <2>14 DEF IInv, LoadedRight
<1> QED
  BY <1>7, <1>8, <1>9 DEF LoadData, Load, AtEnd, procVars

(* The file is closed and .bss, above the data, is cleared.                *)
LEMMA ClearBssInv ==
  ASSUME IInv, ClearBss
  PROVE  IInv' /\ segs' = segs /\ Apart /\ pc' # "kernel"
<1>1. /\ pc = "close" /\ pc' = "replace" /\ Building /\ NewSlots = {cs, ds} /\ opened' = 0
      /\ UNCHANGED <<status, result, gdt, segs, esp, h, cs, ds, f_pos, br, before>>
  BY DEF ClearBss, At, Building, NewSlots, procVars, IInv, TypeInv
<1>2. /\ h \in Binaries /\ result \in Nat /\ result + Limit <= MEM_TOTAL_FRAMES
      /\ TextTo(Text) /\ DataTo(h.data)
  BY <1>1, ProcAssumption DEF IInv, TypeInv, FrameInv, LoadInv
<1>3. PICK S \in Nat, D \in Nat, E \in Nat : Place(result, S, D, E)
  BY <1>2, PlaceLemma
<1>4. /\ S = result * MEM_FRAME_SIZE /\ D = (result + code_limit) * MEM_FRAME_SIZE
      /\ S + Text <= D /\ D + h.data + h.bss + MEM_FRAME_SIZE <= E
      /\ E <= MEM_TOTAL_FRAMES * MEM_FRAME_SIZE
      /\ \A a \in S .. E - 1 : a \div MEM_FRAME_SIZE \in Block(result, Limit)
  BY <1>3 DEF Place
<1>5. /\ Text \in Nat \ {0} /\ MEM_FRAME_SIZE \in Nat
      /\ MEM_TOTAL_FRAMES * MEM_FRAME_SIZE \in Nat
  BY <1>2, ImageLemma, ProcAssumption
<1>6. PICK d \in Nat, b \in Nat, M \in Nat :
        d = h.data /\ b = h.bss /\ M = MEM_TOTAL_FRAMES * MEM_FRAME_SIZE
  BY <1>2, <1>5, ImageLemma
<1>7. DataStart = D
  BY <1>4 DEF DataStart
<1>8. /\ DOMAIN memory = 0 .. M - 1 /\ memory \in [0 .. M - 1 -> Int]
      /\ memory' = [x \in 0 .. M - 1 |->
                      IF x \in D + d .. D + d + b - 1 THEN Zero ELSE memory[x]]
  BY <1>6, <1>7 DEF ClearBss, IInv, TypeInv
<1>9. UNCHANGED <<Text, code_limit, DataStart>>
  BY <1>1, SameHeader DEF DataStart
<1>10. GdtInv' /\ FrameInv' /\ BeforeInv'
  BY <1>1, KeepLemma DEF Building, NewSlots
<1>11. TypeInv'
  <2>1. memory' \in [0 .. M - 1 -> Int]
    BY <1>8 DEF Zero
  <2> QED
    BY <1>1, <1>6, <2>1 DEF IInv, TypeInv
<1>12. TextTo(Text)'
  <2>1. \A k \in 0 .. Text - 1 : memory'[S + k] = k
    <3> SUFFICES ASSUME NEW k \in 0 .. Text - 1 PROVE memory'[S + k] = k
      OBVIOUS
    <3>1. S + k \in 0 .. M - 1 /\ S + k < D
      BY <1>4, <1>5, <1>6
    <3>2. memory'[S + k] = memory[S + k]
      BY <1>6, <1>8, <3>1
    <3> QED
      BY <1>2, <1>4, <3>2 DEF TextTo
  <2>2. result' * MEM_FRAME_SIZE = S
    BY <1>1, <1>4
  <2> QED
    BY <1>9, <2>1, <2>2, Zenon DEF TextTo
<1>13. DataTo(h.data)'
  <2>1. \A k \in 0 .. d - 1 : memory'[D + k] = Text + k
    <3> SUFFICES ASSUME NEW k \in 0 .. d - 1 PROVE memory'[D + k] = Text + k
      OBVIOUS
    <3>1. D + k \in 0 .. M - 1 /\ D + k < D + d
      BY <1>4, <1>5, <1>6
    <3>2. memory'[D + k] = memory[D + k]
      BY <1>6, <1>8, <3>1
    <3> QED
      BY <1>2, <1>6, <1>7, <3>2 DEF DataTo
  <2> QED
    BY <1>1, <1>6, <1>7, <1>9, <2>1, Zenon DEF DataTo
<1>14. BssClear'
  <2>1. \A k \in d .. d + b - 1 : memory'[D + k] = Zero
    <3> SUFFICES ASSUME NEW k \in d .. d + b - 1 PROVE memory'[D + k] = Zero
      OBVIOUS
    <3>1. D + k \in 0 .. M - 1 /\ D + k \in D + d .. D + d + b - 1
      BY <1>4, <1>5, <1>6
    <3> QED
      BY <1>8, <3>1
  <2> QED
    BY <1>1, <1>6, <1>7, <1>9, <2>1, Zenon DEF BssClear
<1>15. LoadInv'
  BY <1>1, <1>12, <1>13, <1>14 DEF LoadInv
<1>16. Apart
  <2>1. \A x \in DOMAIN memory : x \notin S .. E - 1 => memory'[x] = memory[x]
    <3>1. \A x \in D + d .. D + d + b - 1 : x \in S .. E - 1
      BY <1>4, <1>5, <1>6
    <3> QED
      BY <1>8, <3>1
  <2> QED
    BY <1>1, <1>4, <2>1, ApartLemma
<1> QED
  BY <1>1, <1>10, <1>11, <1>15, <1>16 DEF IInv, LoadedRight

(* What the process had goes, and it gets the segments that are new; its   *)
(* memory is as loaded.                                                    *)
LEMMA ReplaceInv ==
  ASSUME IInv, Replace
  PROVE  IInv' /\ memory' = memory /\ segs' # segs /\ pc' # "kernel"
<1> DEFINE owned == {gdt[segs.cs], gdt[segs.ds]}
           frames == UNION {Block(d.base, d.limit) : d \in {e \in owned : e # GDT_NULL_ENTRY}}
<1>1. /\ pc = "replace" /\ pc' = "user" /\ result' = result /\ esp' = Limit * MEM_FRAME_SIZE
      /\ segs' = [cs |-> cs, ds |-> ds]
      /\ UNCHANGED <<memory, h, cs, ds, opened, f_pos, br, before>>
      /\ gdt' = [i \in DOMAIN gdt |-> IF i \in {segs.cs, segs.ds} THEN GDT_NULL_ENTRY ELSE gdt[i]]
      /\ status' = Mark(status, {f \in frames : f \in Frame /\ status[f] = USED}, FREE)
  BY DEF Replace, At, proc_release_memory, gdt_dealloc, fileVars
<1>2. PICK n \in Nat : /\ n >= 4 /\ n \in GdtSizes
                       /\ DOMAIN gdt = 0 .. n - 1 /\ gdt \in [0 .. n - 1 -> Desc]
                       /\ gdt[0] = GDT_NULL_ENTRY /\ GDT_NULL_ENTRY \in Desc
                       /\ GDT_NULL_ENTRY.kind = "null"
                       /\ \A i \in 1 .. 3 : gdt[i].kind = "kernel"
  BY TableLemma
<1>3. NewSlots = {cs, ds} /\ NewBlock = Block(result, Limit) /\ Building
  BY <1>1 DEF NewSlots, NewBlock, Building
<1>4. /\ cs \in DOMAIN gdt \ 0 .. 3 /\ ds \in DOMAIN gdt \ 0 .. 3
      /\ cs \notin LiveSlots /\ ds \notin LiveSlots
      /\ LiveSlots \subseteq DOMAIN gdt \ 0 .. 3
      /\ gdt[cs] = Descriptor("user", result, Limit) /\ gdt[ds] = Descriptor("user", result, Limit)
      /\ \A i \in DOMAIN gdt \ 0 .. 3 : IF i \in LiveSlots \cup {cs, ds}
                                        THEN gdt[i].kind = "user" ELSE gdt[i] = GDT_NULL_ENTRY
  BY <1>3 DEF IInv, GdtInv
<1>5. frames = LiveBlock
  <2>1. CASE segs.cs = 0
    <3>1. segs.ds = 0
      BY <2>1 DEF IInv, GdtInv
    <3>2. frames = {}
      BY <1>2, <2>1, <3>1
    <3> QED
      BY <2>1, <3>2 DEF LiveBlock
  <2>2. CASE segs.cs # 0
    <3>1. /\ segs.ds # 0 /\ gdt[segs.ds].base = gdt[segs.cs].base
          /\ gdt[segs.ds].limit = gdt[segs.cs].limit
      BY <2>2 DEF IInv, GdtInv
    <3>2. gdt[segs.cs].kind = "user" /\ gdt[segs.ds].kind = "user"
      BY <2>2, <3>1, <1>4 DEF LiveSlots
    <3>3. {e \in owned : e # GDT_NULL_ENTRY} = owned
      BY <1>2, <3>2
    <3>4. frames = Block(gdt[segs.cs].base, gdt[segs.cs].limit)
      BY <3>1, <3>3
    <3> QED
      BY <2>2, <3>4 DEF LiveBlock, Live
  <2> QED
    BY <2>1, <2>2
<1> HIDE DEF frames, owned
<1>6. \A f \in LiveBlock : f \in Frame /\ status[f] = USED /\ f >= MEM_USER_FIRST_FRAME
  BY DEF IInv, FrameInv
<1>7. /\ status' \in [Frame -> {FREE, USED, RESERVED}]
      /\ \A f \in Frame : status'[f] = IF f \in LiveBlock THEN FREE ELSE status[f]
  BY <1>1, <1>5, <1>6, MarkLemma DEF IInv, TypeInv
<1>8. /\ gdt' \in [0 .. n - 1 -> Desc] /\ DOMAIN gdt' = DOMAIN gdt
      /\ gdt'[0] = GDT_NULL_ENTRY
      /\ \A i \in DOMAIN gdt : gdt'[i] = IF i \in LiveSlots THEN GDT_NULL_ENTRY ELSE gdt[i]
  BY <1>1, <1>2 DEF LiveSlots
<1>9. gdt'[cs] = Descriptor("user", result, Limit) /\ gdt'[ds] = Descriptor("user", result, Limit)
  BY <1>4, <1>8
<1>10. segs'.cs = cs /\ segs'.ds = ds /\ cs # 0 /\ ds # 0 /\ segs' # segs
  <2>1. segs'.cs = cs /\ segs'.ds = ds /\ cs # 0 /\ ds # 0
    BY <1>1, <1>4
  <2>2. segs.cs # cs
    BY <2>1, <1>4 DEF LiveSlots
  <2> QED
    BY <2>1, <2>2
<1>11. LiveSlots' = {cs, ds} /\ NewSlots' = {} /\ NewBlock' = {} /\ ~Building'
  BY <1>1, <1>10 DEF LiveSlots, NewSlots, NewBlock, Building
<1>12. Live' = Block(result, Limit) /\ LiveBlock' = Block(result, Limit)
  BY <1>9, <1>10 DEF Live, LiveBlock, Descriptor
<1>13. TypeInv'
  <2>1. segs' \in [cs : DOMAIN gdt', ds : DOMAIN gdt']
    BY <1>1, <1>4, <1>8
  <2> QED
    BY <1>1, <1>4, <1>7, <1>8, <2>1 DEF IInv, TypeInv
<1>14. GdtInv'
  <2>1. \E k \in GdtSizes : gdt' \in [0 .. k - 1 -> Desc]
    BY <1>2, <1>8
  <2>2. \A i \in 1 .. 3 : gdt'[i].kind = "kernel"
    BY <1>2, <1>4, <1>8
  <2>3. \A i \in DOMAIN gdt' \ 0 .. 3 :
          IF i \in LiveSlots' \cup NewSlots' THEN gdt'[i].kind = "user"
                                             ELSE gdt'[i] = GDT_NULL_ENTRY
    <3> SUFFICES ASSUME NEW i \in DOMAIN gdt \ 0 .. 3
                 PROVE  IF i \in {cs, ds} THEN gdt'[i].kind = "user"
                                          ELSE gdt'[i] = GDT_NULL_ENTRY
      BY <1>8, <1>11
    <3>1. CASE i \in {cs, ds}
      BY <1>4, <1>8, <3>1
    <3>2. CASE i \notin {cs, ds}
      BY <1>4, <1>8, <3>2
    <3> QED
      BY <3>1, <3>2
  <2>4. LiveSlots' \subseteq DOMAIN gdt' \ 0 .. 3
    BY <1>4, <1>8, <1>11
  <2> QED
    BY <1>8, <1>9, <1>10, <1>11, <2>1, <2>2, <2>3, <2>4 DEF GdtInv
<1>15. FrameInv'
  <2>1. {f \in Frame : f >= MEM_USER_FIRST_FRAME /\ status'[f] = USED} = Block(result, Limit)
    <3>1. /\ {f \in Frame : f >= MEM_USER_FIRST_FRAME /\ status[f] = USED}
               = LiveBlock \cup Block(result, Limit)
          /\ LiveBlock \cap Block(result, Limit) = {}
      BY <1>3 DEF IInv, FrameInv
    <3> QED
      BY <1>7, <3>1, StatusDistinct
  <2> QED
    BY <1>11, <1>12, <2>1 DEF FrameInv
<1>16. LoadedRight'
  <2>1. /\ h \in Binaries /\ result \in Nat /\ result + Limit <= MEM_TOTAL_FRAMES
        /\ TextTo(Text) /\ DataTo(h.data) /\ BssClear
    BY <1>1, <1>3, ProcAssumption DEF IInv, TypeInv, FrameInv, LoadInv
  <2>2. PICK S \in Nat, D \in Nat, E \in Nat : Place(result, S, D, E)
    BY <2>1, PlaceLemma
  <2>3. /\ S = result * MEM_FRAME_SIZE /\ D = (result + code_limit) * MEM_FRAME_SIZE
        /\ D = S + code_limit * MEM_FRAME_SIZE /\ E = S + Limit * MEM_FRAME_SIZE
        /\ D + h.data + h.bss + MEM_FRAME_SIZE <= E
        /\ \A a \in S .. E - 1 : a \div MEM_FRAME_SIZE \in Block(result, Limit)
        /\ \A g \in Block(result, Limit) : /\ g * MEM_FRAME_SIZE \in S .. E - 1
                                           /\ (g * MEM_FRAME_SIZE) \div MEM_FRAME_SIZE = g
    BY <2>2 DEF Place
  <2>4. gdt'[segs'.ds].base * MEM_FRAME_SIZE = S
    BY <1>9, <1>10, <2>3 DEF Descriptor
  <2>5. S + FramesFor(Text) * MEM_FRAME_SIZE = D /\ DataStart = D
    BY <2>3 DEF code_limit, DataStart
  <2>6. UNCHANGED <<Text, h, memory, h.data, h.bss, FramesFor(Text)>>
    BY <1>1, SameHeader DEF FramesFor
  <2>7. PICK e \in Nat : e = esp' /\ E = S + e
    <3>1. Limit * MEM_FRAME_SIZE \in Nat
      <4>1. Limit \in Nat
        BY <2>1, ImageLemma
      <4>2. MEM_FRAME_SIZE \in Nat
        BY ProcAssumption
      <4> QED
        BY <4>1, <4>2
    <3> QED
      BY <1>1, <2>3, <3>1
  <2> E = S + e
    BY <2>7
  <2>8. \A k \in 0 .. Text - 1 : memory[S + k] = k
    BY <2>1, <2>3 DEF TextTo
  <2>9. /\ \A k \in 0 .. h.data - 1 : memory[D + k] = Text + k
        /\ \A k \in h.data .. h.data + h.bss - 1 : memory[D + k] = Zero
    BY <2>1, <2>5 DEF DataTo, BssClear
  <2>10. {(S + k) \div MEM_FRAME_SIZE : k \in 0 .. e - 1} = Block(result, Limit)
    <3>1. ASSUME NEW k \in 0 .. e - 1 PROVE (S + k) \div MEM_FRAME_SIZE \in Block(result, Limit)
      <4>1. S + k \in S .. E - 1
        OBVIOUS
      <4> QED
        BY <2>3, <4>1
    <3>2. ASSUME NEW g \in Block(result, Limit)
          PROVE  \E k \in 0 .. e - 1 : (S + k) \div MEM_FRAME_SIZE = g
      <4>1. PICK a \in S .. E - 1 : a = g * MEM_FRAME_SIZE /\ a \div MEM_FRAME_SIZE = g
        BY <2>3
      <4>2. a - S \in 0 .. e - 1 /\ S + (a - S) = a
        OBVIOUS
      <4> QED
        BY <4>1, <4>2
    <3> QED
      BY <3>1, <3>2
  <2>11. D + h.data + h.bss + MEM_FRAME_SIZE <= S + e
    BY <2>3, <2>7
  <2> QED
    BY <1>12, <2>4, <2>5, <2>6, <2>7, <2>8, <2>9, <2>10, <2>11 DEF LoadedRight
<1> QED
  BY <1>1, <1>10, <1>13, <1>14, <1>15, <1>16 DEF IInv, BeforeInv, LoadInv

(* A read that fails.                                                      *)
LEMMA ReadErrorInv ==
  ASSUME IInv, ReadError
  PROVE  /\ IInv' /\ UNCHANGED <<memory, segs>>
         /\ pc' = "kernel" /\ <<gdt, status>>' = before /\ opened' = 0
<1>1. CASE pc = "header" /\ Fail({}, 0)
  <2>1. result \in Int
    BY ProcAssumption DEF IInv, TypeInv
  <2>2. NewSlots = {} /\ NewBlock = {} /\ Block(result, 0) = {}
    BY <1>1, <2>1 DEF NewSlots, NewBlock, Building, Block
  <2> QED
    BY <1>1, <2>2, FailLemma
<1>2. CASE pc \in {"text", "data"} /\ Undo
  BY <1>2, UndoLemma
<1> QED
  BY <1>1, <1>2 DEF ReadError

(* The process calls the kernel.                                           *)
LEMMA TrapInv ==
  ASSUME IInv, Trap
  PROVE  IInv' /\ UNCHANGED <<memory, segs>> /\ pc = "user"
<1>1. /\ pc = "user" /\ pc' = "kernel"
      /\ UNCHANGED <<status, result, gdt, memory, segs, esp, h, cs, ds, opened, f_pos, br, before>>
  BY DEF Trap, At, procVars, fileVars
<1>2. GdtInv' /\ FrameInv' /\ BeforeInv'
  <2>1. (Building' <=> Building) /\ NewSlots' = NewSlots
    BY <1>1 DEF Building, NewSlots
  <2> QED
    BY <1>1, <2>1, KeepLemma
<1>3. TypeInv'
  BY <1>1 DEF IInv, TypeInv
<1> QED
  BY <1>1, <1>2, <1>3 DEF IInv, LoadInv, LoadedRight

(* A step that changes nothing.                                            *)
LEMMA StutterInv ==
  ASSUME IInv, UNCHANGED vars
  PROVE  IInv'
<1>1. UNCHANGED <<status, result, gdt, memory, segs, esp, pc, h, cs, ds, opened, f_pos, br, before>>
  BY DEF vars, procVars, fileVars
<1>2. GdtInv' /\ FrameInv' /\ BeforeInv'
  BY <1>1, KeepLemma DEF Building, NewSlots
<1>3. UNCHANGED <<Text, code_limit, DataStart>>
  BY <1>1, SameHeader DEF DataStart
<1>4. LoadInv'
  BY <1>1, <1>3 DEF IInv, LoadInv, TextTo, DataTo, BssClear
<1>5. LoadedRight'
  BY <1>1, <1>3 DEF IInv, LoadedRight, Live, FramesFor
<1>6. TypeInv'
  BY <1>1 DEF IInv, TypeInv
<1> QED
  BY <1>2, <1>4, <1>5, <1>6 DEF IInv

(* What FailureHarmless says of a step.                                    *)
Harmless ==
  /\ (pc # "user" /\ pc' = "kernel") => <<gdt, status>>' = before /\ opened' = 0
  /\ segs' = segs => Apart

(* Every step keeps the invariant; and a call that fails leaves things as  *)
(* they were, and none writes over the process.                            *)
THEOREM NextInv == IInv /\ ExecNext => IInv' /\ Harmless
<1> SUFFICES ASSUME IInv, ExecNext PROVE IInv' /\ Harmless
  OBVIOUS
<1>1. ASSUME NEW b \in Binaries, Exec(b) PROVE IInv' /\ Harmless
  <2>1. memory' = memory /\ pc' # "kernel"
    BY <1>1 DEF Exec, At
  <2> QED
    BY <1>1, <2>1, ExecInv DEF Harmless, Apart
<1>2. CASE ReadHeader
  BY <1>2, ReadHeaderInv DEF Harmless, Apart
<1>3. CASE AllocateFrames
  BY <1>3, AllocateInv DEF Harmless, Apart
<1>4. CASE CodeSegment
  BY <1>4, CodeSegmentInv DEF Harmless, Apart
<1>5. CASE DataSegment
  BY <1>5, DataSegmentInv DEF Harmless, Apart
<1>6. CASE LoadText
  BY <1>6, LoadTextInv DEF Harmless
<1>7. CASE LoadData
  BY <1>7, LoadDataInv DEF Harmless
<1>8. CASE ClearBss
  BY <1>8, ClearBssInv DEF Harmless
<1>9. CASE Replace
  BY <1>9, ReplaceInv DEF Harmless
<1>10. CASE ReadError
  BY <1>10, ReadErrorInv DEF Harmless, Apart
<1>11. CASE Trap
  BY <1>11, TrapInv DEF Harmless, Apart
<1> QED
  BY <1>1, <1>2, <1>3, <1>4, <1>5, <1>6, <1>7, <1>8, <1>9, <1>10, <1>11 DEF ExecNext, Steps

(* The invariant holds always.                                             *)
THEOREM Invariance == ExecSpec => []IInv
<1>1. IInv /\ [ExecNext]_vars => IInv'
  BY NextInv, StutterInv
<1> QED
  BY InitInv, <1>1, PTL DEF ExecSpec

-----------------------------------------------------------------------------
(* What the invariant says.                                                *)

(* The blocks that the table describes are the process's and, from the     *)
(* code segment on, the new one.                                           *)
LEMMA BlocksLemma ==
  ASSUME IInv
  PROVE  UNION UserBlocks = LiveBlock \cup (IF NewSlots = {} THEN {} ELSE Block(result, Limit))
<1>1. PICK n \in Nat : /\ n >= 4 /\ DOMAIN gdt = 0 .. n - 1
                       /\ gdt[0] = GDT_NULL_ENTRY /\ GDT_NULL_ENTRY.kind = "null"
                       /\ \A i \in 1 .. 3 : gdt[i].kind = "kernel"
  BY TableLemma
<1>2. LiveSlots \cup NewSlots \subseteq DOMAIN gdt \ 0 .. 3
  BY DEF IInv, GdtInv
<1>3. {j \in DOMAIN gdt : gdt[j].kind = "user"} = LiveSlots \cup NewSlots
  <2> SUFFICES ASSUME NEW j \in DOMAIN gdt
               PROVE  gdt[j].kind = "user" <=> j \in LiveSlots \cup NewSlots
    BY <1>2
  <2>1. CASE j \in 0 .. 3
    <3>1. gdt[j].kind # "user"
      BY <1>1, <2>1
    <3>2. j \notin LiveSlots \cup NewSlots
      BY <1>2, <2>1
    <3> QED
      BY <3>1, <3>2
  <2>2. CASE j \notin 0 .. 3
    BY <1>1, <2>2 DEF IInv, GdtInv
  <2> QED
    BY <2>1, <2>2
<1>4. UNION UserBlocks = UNION {Block(gdt[i].base, gdt[i].limit) : i \in LiveSlots \cup NewSlots}
  BY <1>3 DEF UserBlocks
<1>5. \A i \in NewSlots : Block(gdt[i].base, gdt[i].limit) = Block(result, Limit)
  BY DEF IInv, GdtInv, Descriptor
<1>6. \A i \in LiveSlots : Block(gdt[i].base, gdt[i].limit) = LiveBlock
  BY DEF IInv, GdtInv, LiveSlots, LiveBlock, Live
<1>7. LiveSlots = {} => LiveBlock = {}
  BY DEF LiveSlots, LiveBlock
<1> QED
  BY <1>4, <1>5, <1>6, <1>7

(* The frames in use are those of the segments: none is lost, and no       *)
(* segment lies over memory that is free.                                  *)
THEOREM SegmentsOwnFrames == ExecSpec => []SegmentsHoldFrames
<1>1. ASSUME IInv PROVE SegmentsHoldFrames
  <2>1. PICK n \in Nat : /\ n >= 4 /\ DOMAIN gdt = 0 .. n - 1
                         /\ gdt[0] = GDT_NULL_ENTRY /\ GDT_NULL_ENTRY.kind = "null"
                         /\ \A i \in 1 .. 3 : gdt[i].kind = "kernel"
    BY <1>1, TableLemma
  <2>2. TypeOK
    <3>1. \A i \in DOMAIN gdt :
            IF i = 0 THEN gdt[i] = GDT_NULL_ENTRY
            ELSE IF i \in 1 .. 3 THEN gdt[i].kind = "kernel" ELSE gdt[i].kind \in {"null", "user"}
      <4> SUFFICES ASSUME NEW i \in DOMAIN gdt, i \notin 0 .. 3
                   PROVE  gdt[i].kind \in {"null", "user"}
        BY <2>1
      <4> QED
        BY <1>1, <2>1 DEF IInv, GdtInv
    <3> QED
      BY <1>1, <3>1 DEF IInv, TypeInv, TypeOK
  <2>3. {f \in Frame : f >= MEM_USER_FIRST_FRAME /\ status[f] = USED} = LiveBlock \cup NewBlock
    BY <1>1 DEF IInv, FrameInv
  <2>4. NewBlock = (IF NewSlots = {} THEN {} ELSE Block(result, Limit))
                     \cup (IF pc = "cs" THEN Block(result, Limit) ELSE {})
    BY DEF NewBlock, NewSlots, Building
  <2>5. UNION UserBlocks = LiveBlock \cup (IF NewSlots = {} THEN {} ELSE Block(result, Limit))
    BY <1>1, BlocksLemma
  <2>6. LiveBlock \cup NewBlock
          = (UNION UserBlocks) \cup (IF pc = "cs" THEN Block(result, Limit) ELSE {})
    BY <2>4, <2>5
  <2> QED
    BY <2>2, <2>3, <2>6, Zenon DEF SegmentsHoldFrames
<1> QED
  BY Invariance, <1>1, PTL

(* A process starts with what is in its file, inside what it owns.         *)
THEOREM StartsRight == ExecSpec => []LoadedRight
<1>1. IInv => LoadedRight
  BY DEF IInv
<1> QED
  BY Invariance, <1>1, PTL

(* A call that fails changes nothing, and no call writes over the process  *)
(* before it replaces it.                                                  *)
THEOREM FailsClean == ExecSpec => FailureHarmless
<1> DEFINE A == /\ (pc # "user" /\ pc' = "kernel") => <<gdt, status>>' = before /\ opened' = 0
                /\ (segs.cs # 0 /\ segs' = segs) => \A a \in DOMAIN memory :
                     a \div MEM_FRAME_SIZE \in Live => memory'[a] = memory[a]
<1>1. IInv /\ [ExecNext]_vars => [A]_vars
  BY NextInv DEF Harmless, Apart
<1> HIDE DEF A
<1>2. ExecSpec => [][A]_vars
  BY Invariance, <1>1, PTL DEF ExecSpec
<1> QED
  BY <1>2 DEF A, FailureHarmless

(* The steps that a call of proc_exec has before it at most: every read    *)
(* gets a byte of its section or is the last.                              *)
ToGo ==
  CASE pc = "header"  -> Text + h.data + 8
    [] pc = "frames"  -> Text + h.data + 7
    [] pc = "cs"      -> Text + h.data + 6
    [] pc = "ds"      -> Text + h.data + 5
    [] pc = "text"    -> Text - br + h.data + 4
    [] pc = "data"    -> h.data - br + 3
    [] pc = "close"   -> 2
    [] pc = "replace" -> 1
    [] OTHER          -> 0
Calling == pc \notin {"kernel", "user"}

(* While a call is under way, there is a step before it.                   *)
LEMMA ToGoLemma ==
  ASSUME IInv
  PROVE  /\ Text \in Nat /\ h.data \in Nat /\ br \in Nat /\ ToGo \in Nat
         /\ Calling => ToGo > 0
<1>1. Text \in Nat /\ h.data \in Nat /\ br \in Nat
  BY ProcAssumption DEF IInv, TypeInv, Text
<1>2. /\ pc = "text" => br <= Text
      /\ pc = "data" => br <= h.data
      /\ pc \in {"kernel", "header", "frames", "cs", "ds", "text", "data", "close", "replace", "user"}
  BY DEF IInv, LoadInv, TypeInv
<1> QED
  BY <1>1, <1>2 DEF ToGo, Calling

(* A call that fails is over. *)
LEMMA FailEnds ==
  ASSUME IInv, Calling, pc' = "kernel"
  PROVE  ToGo' < ToGo
<1>1. ToGo' = 0
  BY DEF ToGo
<1> QED
  BY <1>1, ToGoLemma

(* A step of a section's loop. *)
LEMMA LoadShortens ==
  ASSUME IInv, NEW section \in {"text", "data"}, NEW a, NEW n, NEW next,
         Load(section, a, n, next)
  PROVE  \/ pc' = "kernel"
         \/ br >= n /\ pc' = next /\ br' = 0 /\ h' = h
         \/ pc' = pc /\ h' = h /\ br' > br /\ br' \in Nat
<1>1. CASE br >= n /\ pc' = next /\ br' = 0 /\ UNCHANGED h
  BY <1>1
<1>2. CASE AtEnd
  BY <1>2 DEF AtEnd, Undo, Fail
<1>3. ASSUME NEW r \in Reads(n), Read(a + br, r), UNCHANGED <<pc, h>>
      PROVE  pc' = pc /\ h' = h /\ br' > br /\ br' \in Nat
  <2>1. br \in Nat /\ r \in Int /\ r >= 1 /\ br' = br + r
    <3>1. br' = br + r
      BY <1>3 DEF Read
    <3>2. r \in 1 .. n - br
      BY <1>3 DEF Reads
    <3> QED
      BY <3>1, <3>2, ToGoLemma
  <2> QED
    BY <1>3, <2>1
<1> QED
  BY <1>1, <1>2, <1>3 DEF Load

(* A call of proc_exec takes a number of steps that its header bounds: a   *)
(* byte read a step, and eight more, however the reads split the file and  *)
(* wherever the call fails (proc.c:108-256).                               *)
THEOREM ExecShortens == ExecSpec => [][Calling => ToGo' \in Nat /\ ToGo' < ToGo]_vars
<1> DEFINE A == Calling => ToGo' \in Nat /\ ToGo' < ToGo
<1>1. ASSUME IInv, ExecNext, Calling, IInv' PROVE ToGo' \in Nat /\ ToGo' < ToGo
  <2>1. /\ Text \in Nat /\ h.data \in Nat /\ br \in Nat /\ ToGo \in Nat /\ ToGo > 0
    BY <1>1, ToGoLemma
  <2>2. ToGo' \in Nat
    <3>1. Text' \in Nat /\ h'.data \in Nat /\ br' \in Nat
      BY <1>1, ProcAssumption DEF IInv, TypeInv, Text
    <3>2. /\ pc' = "text" => br' <= Text'
          /\ pc' = "data" => br' <= h'.data
      BY <1>1 DEF IInv, LoadInv
    <3> QED
      BY <3>1, <3>2 DEF ToGo
  <2>3. pc' = "kernel" => ToGo' < ToGo
    BY <1>1, FailEnds
  <2>4. ASSUME NEW b \in Binaries, Exec(b) PROVE ToGo' < ToGo
    BY <1>1, <2>4 DEF Exec, At, Calling
  <2>5. CASE ReadHeader
    <3>1. pc = "header" /\ (pc' = "kernel" \/ (pc' = "frames" /\ h' = h))
      BY <2>5 DEF ReadHeader, Fail
    <3>2. CASE pc' = "frames" /\ h' = h
      BY <2>1, <3>1, <3>2, SameHeader DEF ToGo
    <3> QED
      BY <2>2, <2>3, <3>1, <3>2
  <2>6. CASE AllocateFrames
    <3>1. pc = "frames" /\ (pc' = "kernel" \/ (pc' = "cs" /\ h' = h))
      BY <2>6 DEF AllocateFrames
    <3>2. CASE pc' = "cs" /\ h' = h
      BY <2>1, <3>1, <3>2, SameHeader DEF ToGo
    <3> QED
      BY <2>2, <2>3, <3>1, <3>2
  <2>7. CASE CodeSegment
    <3>1. pc = "cs" /\ (pc' = "kernel" \/ (pc' = "ds" /\ h' = h))
      BY <2>7 DEF CodeSegment, Fail
    <3>2. CASE pc' = "ds" /\ h' = h
      BY <2>1, <3>1, <3>2, SameHeader DEF ToGo
    <3> QED
      BY <2>2, <2>3, <3>1, <3>2
  <2>8. CASE DataSegment
    <3>1. pc = "ds" /\ (pc' = "kernel" \/ (pc' = "text" /\ h' = h /\ br' = 0))
      BY <2>8 DEF DataSegment, Fail
    <3>2. CASE pc' = "text" /\ h' = h /\ br' = 0
      BY <2>1, <3>1, <3>2, SameHeader DEF ToGo
    <3> QED
      BY <2>2, <2>3, <3>1, <3>2
  <2>9. CASE LoadText
    <3>1. /\ pc = "text"
          /\ \/ pc' = "kernel"
             \/ pc' = "data" /\ br' = 0 /\ h' = h
             \/ pc' = pc /\ h' = h /\ br' > br /\ br' \in Nat
      BY <1>1, <2>9, LoadShortens DEF LoadText, Load
    <3>2. br <= Text
      BY <1>1, <3>1 DEF IInv, LoadInv
    <3>3. CASE pc' = "data" /\ br' = 0 /\ h' = h
      BY <2>1, <3>1, <3>2, <3>3 DEF ToGo
    <3>4. CASE pc' = pc /\ h' = h /\ br' > br /\ br' \in Nat
      <4>1. Text' = Text /\ br' <= Text'
        BY <1>1, <3>1, <3>4, SameHeader DEF IInv, LoadInv
      <4>2. ToGo = Text - br + h.data + 4 /\ ToGo' = Text' - br' + h'.data + 4
        BY <3>1, <3>4 DEF ToGo
      <4> QED
        BY <2>1, <2>2, <3>4, <4>1, <4>2
    <3> QED
      BY <2>2, <2>3, <3>1, <3>3, <3>4
  <2>10. CASE LoadData
    <3>1. /\ pc = "data"
          /\ \/ pc' = "kernel"
             \/ pc' = "close" /\ br >= h.data
             \/ pc' = pc /\ h' = h /\ br' > br /\ br' \in Nat
      BY <1>1, <2>10, LoadShortens DEF LoadData, Load
    <3>2. br <= h.data
      BY <1>1, <3>1 DEF IInv, LoadInv
    <3>3. CASE pc' = "close" /\ br >= h.data
      BY <2>1, <3>1, <3>2, <3>3 DEF ToGo
    <3>4. CASE pc' = pc /\ h' = h /\ br' > br /\ br' \in Nat
      <4>1. ToGo = h.data - br + 3 /\ ToGo' = h'.data - br' + 3
        BY <3>1, <3>4 DEF ToGo
      <4> QED
        BY <2>1, <2>2, <3>4, <4>1
    <3> QED
      BY <2>2, <2>3, <3>1, <3>3, <3>4
  <2>11. CASE ClearBss
    BY <2>11 DEF ClearBss, At, ToGo
  <2>12. CASE Replace
    BY <2>12 DEF Replace, At, ToGo
  <2>13. CASE ReadError
    BY <2>2, <2>3, <2>13 DEF ReadError, Undo, Fail
  <2>14. CASE Trap
    BY <1>1, <2>14 DEF Trap, At, Calling
  <2> QED
    BY <1>1, <2>2, <2>4, <2>5, <2>6, <2>7, <2>8, <2>9, <2>10, <2>11, <2>12, <2>13, <2>14
    DEF ExecNext, Steps
<1>2. IInv /\ [ExecNext]_vars => [A]_vars
  BY <1>1, NextInv
<1> HIDE DEF A
<1>3. ExecSpec => [][A]_vars
  BY Invariance, <1>2, PTL DEF ExecSpec
<1> QED
  BY <1>3 DEF A

-----------------------------------------------------------------------------
(* Boot. *)

(* Three tuples put together. *)
LEMMA TupleLemma ==
  ASSUME NEW x1, NEW x2, NEW x3, NEW x4, NEW x5,
         NEW x6, NEW x7, NEW x8, NEW x9,
         NEW x10, NEW x11, NEW x12, NEW x13, NEW x14,
         NEW x15, NEW x16, NEW x17, NEW x18, NEW x19
  PROVE  LET t == <<x1, x2, x3, x4, x5>> \o <<x6, x7, x8, x9>> \o
                <<x10, x11, x12, x13, x14, x15, x16, x17, x18, x19>>
         IN  /\ DOMAIN t = 1 .. 19
             /\ t[1] = x1 /\ t[2] = x2 /\ t[3] = x3 /\ t[4] = x4 /\ t[5] = x5
             /\ t[6] = x6 /\ t[7] = x7 /\ t[8] = x8 /\ t[9] = x9
             /\ t[10] = x10 /\ t[11] = x11 /\ t[12] = x12 /\ t[13] = x13 /\ t[14] = x14
             /\ t[15] = x15 /\ t[16] = x16 /\ t[17] = x17 /\ t[18] = x18 /\ t[19] = x19
<1> DEFINE S == {x1, x2, x3, x4, x5, x6, x7, x8, x9, x10,
                 x11, x12, x13, x14, x15, x16, x17, x18, x19}
           A == <<x1, x2, x3, x4, x5>>
           M == <<x6, x7, x8, x9>>
           B == <<x10, x11, x12, x13, x14, x15, x16, x17, x18, x19>>
<1>0. /\ x1 \in S /\ x2 \in S /\ x3 \in S /\ x4 \in S /\ x5 \in S /\ x6 \in S /\ x7 \in S
      /\ x8 \in S /\ x9 \in S /\ x10 \in S /\ x11 \in S /\ x12 \in S /\ x13 \in S
      /\ x14 \in S /\ x15 \in S /\ x16 \in S /\ x17 \in S /\ x18 \in S /\ x19 \in S
  OBVIOUS
<1> HIDE DEF S
<1>1. A \in Seq(S) /\ Len(A) = 5 /\ A[1] = x1 /\ A[2] = x2 /\ A[3] = x3 /\ A[4] = x4 /\ A[5] = x5
  BY <1>0
<1>2. M \in Seq(S) /\ Len(M) = 4 /\ M[1] = x6 /\ M[2] = x7 /\ M[3] = x8 /\ M[4] = x9
  BY <1>0
<1>3. B \in Seq(S) /\ Len(B) = 10
  BY <1>0
<1>4. /\ B[1] = x10 /\ B[2] = x11 /\ B[3] = x12 /\ B[4] = x13 /\ B[5] = x14
      /\ B[6] = x15 /\ B[7] = x16 /\ B[8] = x17 /\ B[9] = x18 /\ B[10] = x19
  OBVIOUS
<1> HIDE DEF A, M, B
<1> DEFINE AM == A \o M
<1>5. /\ AM \in Seq(S) /\ Len(AM) = Len(A) + Len(M)
      /\ \A k \in 1 .. Len(A) + Len(M) : AM[k] = IF k <= Len(A) THEN A[k] ELSE M[k - Len(A)]
  BY <1>1, <1>2, ConcatProperties
<1> HIDE DEF AM
<1> DEFINE T == AM \o B
<1>6. /\ T \in Seq(S) /\ Len(T) = Len(AM) + Len(B)
      /\ \A k \in 1 .. Len(AM) + Len(B) : T[k] = IF k <= Len(AM) THEN AM[k] ELSE B[k - Len(AM)]
  <2>1. AM \in Seq(S)
    BY <1>5
  <2>2. B \in Seq(S)
    BY <1>3
  <2> QED
    BY <2>1, <2>2, ConcatProperties
<1> HIDE DEF T
<1>7. Len(AM) = 9 /\ Len(T) = 19 /\ DOMAIN T = 1 .. 19
  BY <1>1, <1>2, <1>3, <1>5, <1>6
<1>8. \A k \in 1 .. 9 : T[k] = AM[k]
  BY <1>3, <1>6, <1>7
<1>9. \A k \in 1 .. 5 : T[k] = A[k]
  BY <1>1, <1>2, <1>5, <1>8
<1>10. T[6] = M[1] /\ T[7] = M[2] /\ T[8] = M[3] /\ T[9] = M[4]
  BY <1>1, <1>2, <1>5, <1>8
<1>11. /\ T[10] = B[1] /\ T[11] = B[2] /\ T[12] = B[3] /\ T[13] = B[4] /\ T[14] = B[5]
       /\ T[15] = B[6] /\ T[16] = B[7] /\ T[17] = B[8] /\ T[18] = B[9] /\ T[19] = B[10]
  BY <1>3, <1>6, <1>7
<1> QED
  BY <1>1, <1>2, <1>4, <1>7, <1>9, <1>10, <1>11 DEF T, AM, A, M, B

(* Which step stands where in Program.                                     *)
LEMMA StepLemma ==
  /\ DOMAIN Program = 1 .. 19
  /\ step \in 1 .. 19 =>
       \/ step = 1 /\ Op = "memory"
       \/ step = 2 /\ Op = "stack"
       \/ step = 3 /\ Op = "itr_set_up"
       \/ step = 4 /\ Op = "vfs"
       \/ step = 5 /\ Op = "remap"
       \/ step = 6 /\ Op = "mask" /\ Line = "timer"
       \/ step = 7 /\ Op = "mask" /\ Line = "kb"
       \/ step = 8 /\ Op = "mask" /\ Line = "com2"
       \/ step = 9 /\ Op = "mask" /\ Line = "com1"
       \/ step = 10 /\ Op = "kb_init"
       \/ step = 11 /\ Op = "unmask" /\ Line = "kb"
       \/ step = 12 /\ Op = "configure"
       \/ step = 13 /\ Op = "handle" /\ Line = "com1"
       \/ step = 14 /\ Op = "handle" /\ Line = "com2"
       \/ step = 15 /\ Op = "unmask" /\ Line = "com1"
       \/ step = 16 /\ Op = "unmask" /\ Line = "com2"
       \/ step = 17 /\ Op = "hw_sti"
       \/ step = 18 /\ Op = "create"
       \/ step = 19 /\ Op = "exec"
<1>1. PICK p1, p2, p3, p4, p5, p6, p7, p8, p9, p10,
           p11, p12, p13, p14, p15, p16, p17, p18, p19 :
        /\ p1 = <<"memory", "">> /\ p2 = <<"stack", "">> /\ p3 = <<"itr_set_up", "">>
        /\ p4 = <<"vfs", "">>
        /\ p5 = <<"remap", "">> /\ p6 = <<"mask", "timer">> /\ p7 = <<"mask", "kb">>
        /\ p8 = <<"mask", "com2">> /\ p9 = <<"mask", "com1">> /\ p10 = <<"kb_init", "">>
        /\ p11 = <<"unmask", "kb">> /\ p12 = <<"configure", "">> /\ p13 = <<"handle", "com1">>
        /\ p14 = <<"handle", "com2">> /\ p15 = <<"unmask", "com1">> /\ p16 = <<"unmask", "com2">>
        /\ p17 = <<"hw_sti", "">> /\ p18 = <<"create", "">> /\ p19 = <<"exec", "">>
  BY Zenon
<1> DEFINE P == <<p1, p2, p3, p4, p5>> \o <<p6, p7, p8, p9>> \o
             <<p10, p11, p12, p13, p14, p15, p16, p17, p18, p19>>
<1>2. Program = P
  BY <1>1 DEF Program, Masks
<1>3. /\ DOMAIN P = 1 .. 19
      /\ P[1] = p1 /\ P[2] = p2 /\ P[3] = p3 /\ P[4] = p4 /\ P[5] = p5
      /\ P[6] = p6 /\ P[7] = p7 /\ P[8] = p8 /\ P[9] = p9
      /\ P[10] = p10 /\ P[11] = p11 /\ P[12] = p12 /\ P[13] = p13 /\ P[14] = p14
      /\ P[15] = p15 /\ P[16] = p16 /\ P[17] = p17 /\ P[18] = p18 /\ P[19] = p19
  BY TupleLemma
<1> HIDE DEF P
<1>4. ASSUME step \in 1 .. 19
      PROVE  \/ step = 1 \/ step = 2 \/ step = 3 \/ step = 4 \/ step = 5 \/ step = 6 \/ step = 7 \/ step = 8
             \/ step = 9 \/ step = 10 \/ step = 11 \/ step = 12 \/ step = 13 \/ step = 14 \/ step = 15
             \/ step = 16 \/ step = 17 \/ step = 18 \/ step = 19
  BY <1>4
<1>5. ASSUME step \in 1 .. 19 PROVE Op = P[step][1] /\ Line = P[step][2]
  BY <1>2 DEF Op, Line
<1>6. /\ p1[1] = "memory" /\ p2[1] = "stack" /\ p3[1] = "itr_set_up" /\ p4[1] = "vfs"
      /\ p5[1] = "remap" /\ p6[1] = "mask" /\ p7[1] = "mask" /\ p8[1] = "mask"
      /\ p9[1] = "mask" /\ p10[1] = "kb_init" /\ p11[1] = "unmask" /\ p12[1] = "configure"
      /\ p13[1] = "handle" /\ p14[1] = "handle" /\ p15[1] = "unmask"
      /\ p16[1] = "unmask" /\ p17[1] = "hw_sti" /\ p18[1] = "create" /\ p19[1] = "exec"
      /\ p6[2] = "timer" /\ p7[2] = "kb" /\ p8[2] = "com2" /\ p9[2] = "com1"
      /\ p11[2] = "kb" /\ p13[2] = "com1" /\ p14[2] = "com2" /\ p15[2] = "com1" /\ p16[2] = "com2"
  BY <1>1
<1>7. ASSUME step \in 1 .. 19
      PROVE
       \/ step = 1 /\ P[step][1] = "memory"
       \/ step = 2 /\ P[step][1] = "stack"
       \/ step = 3 /\ P[step][1] = "itr_set_up"
       \/ step = 4 /\ P[step][1] = "vfs"
       \/ step = 5 /\ P[step][1] = "remap"
       \/ step = 6 /\ P[step][1] = "mask" /\ P[step][2] = "timer"
       \/ step = 7 /\ P[step][1] = "mask" /\ P[step][2] = "kb"
       \/ step = 8 /\ P[step][1] = "mask" /\ P[step][2] = "com2"
       \/ step = 9 /\ P[step][1] = "mask" /\ P[step][2] = "com1"
       \/ step = 10 /\ P[step][1] = "kb_init"
       \/ step = 11 /\ P[step][1] = "unmask" /\ P[step][2] = "kb"
       \/ step = 12 /\ P[step][1] = "configure"
       \/ step = 13 /\ P[step][1] = "handle" /\ P[step][2] = "com1"
       \/ step = 14 /\ P[step][1] = "handle" /\ P[step][2] = "com2"
       \/ step = 15 /\ P[step][1] = "unmask" /\ P[step][2] = "com1"
       \/ step = 16 /\ P[step][1] = "unmask" /\ P[step][2] = "com2"
       \/ step = 17 /\ P[step][1] = "hw_sti"
       \/ step = 18 /\ P[step][1] = "create"
       \/ step = 19 /\ P[step][1] = "exec"
  BY <1>4, <1>3, <1>6, <1>7
<1> QED
  BY <1>2, <1>5, <1>3, <1>7

-----------------------------------------------------------------------------
(* BootInvariance.                                                             *)

(* How far the thread has come, and what is in place by then: the table    *)
(* of interrupts, the controller, the masks and the handlers.  No line     *)
(* is unmasked before its handler is set.                                  *)
PlaceInv ==
  /\ step <= 2 => ints = FALSE /\ hpc = "none"
  /\ step > 3 => idt = TRUE
  /\ step > 5 => remapped = TRUE
  /\ step > 6 => "timer" \in masked
  /\ step > 7 /\ step <= 11 => "kb" \in masked
  /\ step > 8 /\ step <= 16 => "com2" \in masked
  /\ step > 9 /\ step <= 15 => "com1" \in masked
  /\ step > 10 => "kb" \in handlers \/ nomem = TRUE
  /\ step > 13 => ("com1" \in present => "com1" \in handlers)
  /\ step > 14 => ("com2" \in present => "com2" \in handlers)

(* A serial line rises only when its device is there.                      *)
LinesInv == irr \cap Ports \subseteq present

BootInv == step \in 1 .. 19 /\ HandlersInPlace /\ PlaceInv /\ LinesInv

(* The state in which kmain starts satisfies the invariant.                *)
THEOREM BootInitInv == BootInit => BootInv
<1> SUFFICES ASSUME BootInit PROVE BootInv
  OBVIOUS
<1>1. step \in 1 .. 19 /\ step = 1
  BY DEF BootInit
<1>2. BootTypeOK
  BY <1>1, StepLemma, BootAssumption DEF BootInit, BootTypeOK, ItrTypeOK
<1>3. HandlersInPlace
  BY <1>2 DEF HandlersInPlace, Stuck, BootInit
<1>4. PlaceInv /\ LinesInv
  BY <1>1 DEF BootInit, PlaceInv, LinesInv
<1> QED
  BY <1>1, <1>3, <1>4 DEF BootInv

(* Early by position. *)
LEMMA EarlyLemma == ASSUME step \in 1 .. 19 PROVE Early <=> step \in 3 .. 9
BY StepLemma DEF Early

(* A device that interrupts while nothing is in its way finds the table    *)
(* and a handler, or the thread is early, or the keyboard has none.        *)
LEMMA InterruptStep ==
  ASSUME BootInv, NEW l \in Irqs, Interrupt(l)
  PROVE  BootInv'
<1> USE BootAssumption DEF BootInv, HandlersInPlace
<1>1. /\ ints = TRUE /\ l \in irr /\ isr' = {l} /\ irr' = irr \ {l} /\ ints' = FALSE
      /\ itr_status' = "IN" /\ halted' = FALSE /\ hpc = "none" /\ l \notin masked
      /\ hpc' = (IF ~idt THEN "crash" ELSE IF Handled(l) THEN "handler" ELSE "hung")
      /\ UNCHANGED <<step, mode, present, setUpVars>>
  BY DEF Interrupt, TakeInterrupt
<1>2. BootTypeOK'
  BY <1>1 DEF BootTypeOK, ItrTypeOK, setUpVars
<1>3. step \in 3 .. 19
  BY <1>1 DEF PlaceInv
<1>4. PlaceInv' /\ LinesInv'
  BY <1>1, <1>3 DEF PlaceInv, LinesInv, setUpVars
<1>5. CASE step \in 3 .. 9
  <2>1. step' = step /\ Early' = Early
    BY <1>1 DEF Early, Op
  <2> QED
    BY <1>1, <1>2, <1>4, <1>5, <2>1, EarlyLemma
<1>6. CASE step \in 10 .. 19
  <2>1. idt = TRUE /\ remapped = TRUE /\ l # "timer"
    BY <1>1, <1>6 DEF PlaceInv
  <2>2. l = "kb" => "kb" \in handlers \/ nomem = TRUE
    BY <1>1, <1>6 DEF PlaceInv
  <2>3. l = "com1" => l \in handlers
    BY <1>1, <1>6 DEF PlaceInv, LinesInv
  <2>4. l = "com2" => l \in handlers
    BY <1>1, <1>6 DEF PlaceInv, LinesInv
  <2>5. l \in {"com1", "com2", "timer", "kb"}
    OBVIOUS
  <2>6. hpc' = "handler" \/ (nomem' = TRUE /\ isr' = {"kb"})
    BY <1>1, <2>1, <2>2, <2>3, <2>4, <2>5 DEF Handled, setUpVars
  <2> QED
    BY <1>1, <1>2, <1>4, <2>6 DEF Stuck
<1> QED
  BY <1>3, <1>5, <1>6

(* unlock enables interrupts or leaves them as they are.                   *)
LEMMA UnlockLemma == ASSUME BootTypeOK, unlock PROVE ints' \in BOOLEAN
<1>1. ints \in BOOLEAN
  BY DEF BootTypeOK, ItrTypeOK
<1>2. CASE itr_status = "NOT_IN"
  BY <1>2 DEF unlock
<1>3. CASE itr_status # "NOT_IN"
  BY <1>1, <1>3 DEF unlock
<1> QED
  BY <1>2, <1>3

(* A step of the thread goes on to the next step of the program.           *)
LEMMA ThreadStep ==
  ASSUME BootInv, Thread
  PROVE  BootInv'
<1> USE DEF BootInv, HandlersInPlace, Stuck
<1>0. /\ BootTypeOK /\ step \in 1 .. 19 /\ PlaceInv /\ LinesInv
      /\ Irqs = {"com1", "com2", "timer", "kb"} /\ DOMAIN Program = 1 .. 19
  BY BootAssumption, StepLemma
<1>1. CASE MemSetup
  <2>1. step = 1
    BY <1>0, <1>1, StepLemma DEF MemSetup, Reached
  <2> QED
    BY <1>0, <1>1, <2>1 DEF MemSetup, Reached, Ok, Runs, BootTypeOK, ItrTypeOK, setUpVars, PlaceInv, LinesInv
<1>2. CASE StackFrame
  <2>1. step = 2
    BY <1>0, <1>2, StepLemma DEF StackFrame, Reached
  <2>9. ints' \in BOOLEAN
    BY <1>0, <1>2, UnlockLemma DEF StackFrame
  <2> QED
    BY <1>0, <2>9, <1>2, <2>1 DEF StackFrame, Reached, Ok, Runs, BootTypeOK, ItrTypeOK, setUpVars,
       PlaceInv, LinesInv
<1>3. CASE itr_set_up
  <2>1. step = 3
    BY <1>0, <1>3, StepLemma DEF itr_set_up, Reached
  <2>9. ints' \in BOOLEAN
    BY <1>0, <1>3, UnlockLemma DEF itr_set_up
  <2> QED
    BY <1>0, <2>9, <1>3, <2>1 DEF itr_set_up, Reached, Ok, Runs, BootTypeOK, ItrTypeOK, PlaceInv, LinesInv
<1>4. CASE FileSystems
  <2>1. step = 4
    BY <1>0, <1>4, StepLemma DEF FileSystems, Reached
  <2>9. ints' \in BOOLEAN
    BY <1>0, <1>4, UnlockLemma DEF FileSystems
  <2> QED
    BY <1>0, <2>9, <1>4, <2>1 DEF FileSystems, Reached, Ok, Runs, BootTypeOK, ItrTypeOK, setUpVars,
       PlaceInv, LinesInv
<1>5. CASE pic_remap
  <2>1. step = 5
    BY <1>0, <1>5, StepLemma DEF pic_remap, Reached
  <2> QED
    BY <1>0, <1>5, <2>1 DEF pic_remap, Reached, Ok, Runs, BootTypeOK, ItrTypeOK, PlaceInv, LinesInv
<1>6. CASE pic_mask_dev
  <2>1. /\ step \in 6 .. 9 /\ (step = 6 => Line = "timer") /\ (step = 7 => Line = "kb")
        /\ (step = 8 => Line = "com2") /\ (step = 9 => Line = "com1")
    BY <1>0, <1>6, StepLemma DEF pic_mask_dev, Reached
  <2>2. Line \in Irqs
    BY <1>0, <2>1
  <2>3. /\ step' = step + 1 /\ masked' = masked \cup {Line} /\ hpc = "none"
        /\ UNCHANGED <<itr_status, mode, ints, irr, idt, remapped, handlers, configured, nomem,
                       halted, isr, hpc, present>>
    BY <1>6 DEF pic_mask_dev, Reached, Ok, Runs
  <2> HIDE DEF Line
  <2>4. BootTypeOK'
    BY <1>0, <2>1, <2>2, <2>3 DEF BootTypeOK, ItrTypeOK
  <2>5. PlaceInv'
    BY <1>0, <2>1, <2>3 DEF PlaceInv
  <2> QED
    BY <1>0, <2>1, <2>3, <2>4, <2>5 DEF LinesInv
<1>7. CASE kb_init
  <2>1. step = 10
    BY <1>0, <1>7, StepLemma DEF kb_init, Reached
  <2>2. handlers' \subseteq Irqs /\ nomem' \in BOOLEAN /\ (nomem' = TRUE \/ "kb" \in handlers')
    BY <1>0, <1>7 DEF kb_init, BootTypeOK
  <2>9. ints' \in BOOLEAN
    BY <1>0, <1>7, UnlockLemma DEF kb_init
  <2> QED
    BY <1>0, <2>9, <1>7, <2>1, <2>2 DEF kb_init, Reached, Ok, Runs, BootTypeOK, ItrTypeOK, PlaceInv, LinesInv
<1>8. CASE pic_unmask_dev
  <2>1. /\ step \in {11, 15, 16} /\ (step = 11 => Line = "kb")
        /\ (step = 15 => Line = "com1") /\ (step = 16 => Line = "com2")
    BY <1>0, <1>8, StepLemma DEF pic_unmask_dev, Reached
  <2>2. /\ step' = step + 1 /\ masked' = masked \ {Line} /\ hpc = "none"
        /\ UNCHANGED <<itr_status, mode, ints, irr, idt, remapped, handlers, configured, nomem,
                       halted, isr, hpc, present>>
    BY <1>8 DEF pic_unmask_dev, Reached, Ok, Runs
  <2> HIDE DEF Line
  <2>3. BootTypeOK'
    <3>1. masked' \subseteq Irqs
      BY <1>0, <2>2 DEF BootTypeOK
    <3> QED
      BY <1>0, <2>1, <2>2, <3>1 DEF BootTypeOK, ItrTypeOK
  <2>4. PlaceInv'
    BY <1>0, <2>1, <2>2 DEF PlaceInv
  <2> QED
    BY <1>0, <2>1, <2>2, <2>3, <2>4 DEF LinesInv
<1>9. CASE Configure
  <2>1. step = 12
    BY <1>0, <1>9, StepLemma DEF Configure, Reached
  <2>9. ints' \in BOOLEAN
    BY <1>0, <1>9, UnlockLemma DEF Configure
  <2> QED
    BY <1>0, <2>9, <1>9, <2>1 DEF Configure, Reached, Ok, Runs, BootTypeOK, ItrTypeOK, PlaceInv, LinesInv
<1>10. CASE SerialHandler
  <2>1. step \in {13, 14} /\ (step = 13 => Line = "com1") /\ (step = 14 => Line = "com2")
    BY <1>0, <1>10, StepLemma DEF SerialHandler, Reached
  <2>2. /\ step' = step + 1 /\ handlers' = handlers \cup ({Line} \cap present) /\ hpc = "none"
        /\ UNCHANGED <<itr_status, mode, ints, irr, idt, remapped, masked, configured, nomem,
                       halted, isr, hpc, present>>
    BY <1>10 DEF SerialHandler, Reached, Ok, Runs
  <2> HIDE DEF Line
  <2>3. BootTypeOK'
    <3>1. handlers' \subseteq Irqs
      BY <1>0, <2>2, BootAssumption DEF BootTypeOK
    <3> QED
      BY <1>0, <2>1, <2>2, <3>1 DEF BootTypeOK, ItrTypeOK
  <2>4. PlaceInv'
    BY <1>0, <2>1, <2>2 DEF PlaceInv
  <2> QED
    BY <1>0, <2>1, <2>2, <2>3, <2>4 DEF LinesInv
<1>11. CASE hw_sti
  <2>1. step = 17
    BY <1>0, <1>11, StepLemma DEF hw_sti, Reached
  <2> QED
    BY <1>0, <1>11, <2>1 DEF hw_sti, Reached, Ok, Runs, BootTypeOK, ItrTypeOK, setUpVars, PlaceInv, LinesInv
<1>12. CASE CreateInit
  <2>1. step = 18
    BY <1>0, <1>12, StepLemma DEF CreateInit, Reached
  <2>9. ints' \in BOOLEAN
    BY <1>0, <1>12, UnlockLemma DEF CreateInit
  <2> QED
    BY <1>0, <2>9, <1>12, <2>1 DEF CreateInit, Reached, Ok, Runs, BootTypeOK, ItrTypeOK, setUpVars,
       PlaceInv, LinesInv
<1>13. CASE StartInit
  <2>1. step = 19
    BY <1>0, <1>13, StepLemma DEF StartInit, Reached
  <2>2. ints' \in BOOLEAN /\ mode' \in {"user", "idle"}
    BY <1>0, <1>13, UnlockLemma DEF StartInit, eflags
  <2> QED
    BY <1>0, <1>13, <2>1, <2>2 DEF StartInit, Reached, Runs, BootTypeOK, ItrTypeOK, setUpVars,
       PlaceInv, LinesInv
<1>14. CASE Idle
  BY <1>0, <1>14 DEF Idle, hw_hlt, BootTypeOK, ItrTypeOK, setUpVars, PlaceInv, LinesInv
<1>15. CASE syscall_exit
  <2>1. /\ hpc = "none" /\ mode' = "exit" /\ itr_status' = "IN" /\ ints' = FALSE /\ halted' = TRUE
        /\ UNCHANGED <<irr, isr, step, hpc, present, setUpVars>>
    BY <1>15 DEF syscall_exit, hw_hlt
  <2>2. BootTypeOK'
    BY <1>0, <2>1 DEF BootTypeOK, ItrTypeOK, setUpVars
  <2>3. PlaceInv' /\ LinesInv'
    BY <1>0, <2>1 DEF PlaceInv, LinesInv, setUpVars
  <2> QED
    BY <1>0, <2>1, <2>2, <2>3
<1> QED
  BY <1>1, <1>2, <1>3, <1>4, <1>5, <1>6, <1>7, <1>8, <1>9, <1>10, <1>11, <1>12, <1>13, <1>14, <1>15
  DEF Thread

(* The invariant is inductive.                                             *)
THEOREM BootNextInv == BootInv /\ [BootNext]_bootVars => BootInv'
<1> SUFFICES ASSUME BootInv, [BootNext]_bootVars PROVE BootInv'
  OBVIOUS
<1>1. CASE Panic
  <2>1. /\ hpc = "none" /\ mode' = "panic" /\ ints' = FALSE /\ halted' = TRUE
        /\ UNCHANGED <<itr_status, irr, isr, step, hpc, present, setUpVars>>
    BY <1>1 DEF Panic, hw_hlt
  <2>2. BootTypeOK'
    BY <2>1 DEF BootInv, HandlersInPlace, BootTypeOK, ItrTypeOK, setUpVars
  <2>3. PlaceInv' /\ LinesInv'
    BY <2>1 DEF BootInv, PlaceInv, LinesInv, setUpVars
  <2> QED
    BY <2>1, <2>2, <2>3 DEF BootInv, HandlersInPlace, Stuck
<1>2. CASE Return
  BY <1>2 DEF Return, pic_send_eoi, LeaveInterrupt, BootInv, HandlersInPlace, Stuck, BootTypeOK,
     ItrTypeOK, setUpVars, PlaceInv, LinesInv
<1>3. ASSUME NEW l \in Irqs, Raise(l) PROVE BootInv'
  <2>1. Early' = Early /\ DOMAIN Program = DOMAIN Program'
    BY <1>3 DEF Raise, Early, Op, Program, Masks
  <2> QED
    BY <1>3, <2>1 DEF Raise, Rise, BootInv, HandlersInPlace, Stuck, BootTypeOK, ItrTypeOK, setUpVars,
       PlaceInv, LinesInv
<1>4. CASE UNCHANGED bootVars
  <2>1. Early' = Early
    BY <1>4 DEF bootVars, Early, Op
  <2> QED
    BY <1>4, <2>1 DEF bootVars, itrVars, setUpVars, BootInv, HandlersInPlace, Stuck, BootTypeOK, ItrTypeOK,
       PlaceInv, LinesInv
<1> QED
  BY <1>1, <1>2, <1>3, <1>4, ThreadStep, InterruptStep DEF BootNext

(* The invariant holds of every behaviour.                                 *)
THEOREM BootInvariance == BootSpec => []BootInv
BY BootInitInv, BootNextInv, PTL DEF BootSpec

(* The handlers are in place before their lines are unmasked (kernel.c:    *)
(* 60-125).                                                                *)
THEOREM NoInterruptLost == BootSpec => []HandlersInPlace
<1>1. BootInv => HandlersInPlace
  BY DEF BootInv
<1> QED
  BY <1>1, BootInvariance, PTL

=============================================================================
