-------------------------------- MODULE Proc --------------------------------
(***************************************************************************)
(* proc_exec (proc.c), which replaces the current process by a binary: it  *)
(* asks mem.c for a block of frames and gdt.c for two segments over it,    *)
(* loads the file, and only then releases what the process had before.     *)
(* The kernel's thread runs it alone, each call of another module a step.  *)
(* kmain2 calls it once; it is written for any process, so that here the   *)
(* kernel may call it again on behalf of the one that runs.                *)
(***************************************************************************)
EXTENDS FrameAllocator, Sequences

CONSTANTS
  MEM_FRAME_SIZE, MEM_USER_FIRST_FRAME, MEM_TOTAL_FRAMES,
  HEADER,                 \* the size of a_out_header
  Binaries,               \* what path may name: [text, data, bss, size]
  GdtSizes,               \* the values of GDT_MAX_ENTRIES to check: 32 in gdt.c:6
  Maps                    \* the sets of frames that mem_setup may have reserved

VARIABLES
  gdt, memory,
  segs,                   \* proc_cur->segs: cs, and ds, ss, es, fs and gs
  esp,                    \* proc_cur->regs.esp
  pc, h, cs, ds,          \* proc_exec: header, code_segment, data_segment
  opened, f_pos, br,      \* is f open, its position, bytes loaded of a section
  before                  \* history: gdt and status at the last call

procVars == <<segs, esp>>
fileVars == <<opened, f_pos, br>>
vars == <<status, result, gdt, memory, procVars, pc, h, cs, ds, fileVars, before>>

ASSUME ProcAssumption ==
  /\ MEM_FRAME_SIZE \in Nat \ {0} /\ HEADER \in Nat \ {0} /\ MEM_TOTAL_FRAMES \in Nat
  /\ MEM_USER_FIRST_FRAME \in Frame \ {NULL} /\ Frame = 0 .. MEM_TOTAL_FRAMES - 1
  /\ Binaries \subseteq [text : Nat, data : Nat, bss : Nat, size : Nat]
  /\ \A n \in GdtSizes : n \in Nat /\ n >= 4
  /\ \A m \in Maps : m \subseteq Frame \ {NULL}

Junk == -2                          \* what the memory held; file bytes are 0, 1, ...
Zero == -1

(* gdt_descriptor, gdt_base and gdt_limit (gdt.c:79-117).                  *)
Descriptor(kind, base, limit) == [kind |-> kind, base |-> base, limit |-> limit]
GDT_NULL_ENTRY == Descriptor("null", 0, 0)

(* gdt_setup (gdt.c:121-189): the kernel's code and data, and the TSS.     *)
gdt_setup(n) == [i \in 0 .. n - 1 |->
  IF i \in 1 .. 3 THEN Descriptor("kernel", 0, MEM_TOTAL_FRAMES) ELSE GDT_NULL_ENTRY]

ExecInit ==                         \* mem_setup; proc_init (27-39)
  /\ \E m \in Maps : status = [f \in Frame |->
       IF f = NULL \/ f \in m THEN RESERVED
       ELSE IF f < MEM_USER_FIRST_FRAME THEN USED ELSE FREE]
  /\ result = NULL /\ \E n \in GdtSizes : gdt = gdt_setup(n)
  /\ memory = [a \in 0 .. MEM_TOTAL_FRAMES * MEM_FRAME_SIZE - 1 |-> Junk]
  /\ segs = [cs |-> 0, ds |-> 0] /\ esp = 0
  /\ pc = "kernel" /\ h \in Binaries /\ cs = 0 /\ ds = 0
  /\ opened = 0 /\ f_pos = 0 /\ br = 0 /\ before = <<gdt, status>>

-----------------------------------------------------------------------------
(* gdt.c:191-208.  Selectors are slots here: the code's carry the slot     *)
(* times eight, and the privilege that gdt_get and gdt_dealloc divide away.*)

Room == {i \in DOMAIN gdt \ {0} : gdt[i] = GDT_NULL_ENTRY}

gdt_alloc(base, limit, s) ==        \* s is what it returns
  IF Room = {} THEN s = 0 /\ UNCHANGED gdt
  ELSE /\ s \in Room /\ \A i \in Room : s <= i
       /\ gdt' = [gdt EXCEPT ![s] = Descriptor("user", base, limit)]

gdt_dealloc(slots) ==
  gdt' = [i \in DOMAIN gdt |-> IF i \in slots THEN GDT_NULL_ENTRY ELSE gdt[i]]

-----------------------------------------------------------------------------
(* The size of the image (145-155), in frames; the last is for the stack.  *)
FramesFor(bytes) == (bytes + MEM_FRAME_SIZE - 1) \div MEM_FRAME_SIZE
Text == HEADER + h.text
code_limit == FramesFor(Text)
data_limit == FramesFor(h.data + h.bss) + 1
Limit == code_limit + data_limit

At(from, to) == pc = from /\ pc' = to

(* The ways out with -1: close, and undo what has been done.               *)
Fail(slots, frames) ==
  /\ pc' = "kernel" /\ opened' = opened - 1
  /\ gdt_dealloc(slots) /\ Release(result, frames)
  /\ UNCHANGED <<memory, procVars, h, cs, ds, f_pos, br, before>>

Undo_frames == Fail({cs, ds}, 0)                                  \* mutant: line 210 left out
Undo == Fail({cs, ds}, Limit)

(* proc_release_memory (46-65): of each segment that is not null, the slot *)
(* and the frames.  Those of cs and ds are the same.                       *)
proc_release_memory_gdt ==                                        \* mutant: line 54 left out
  gdt_dealloc({segs.cs, segs.ds}) /\ UNCHANGED <<status, result>>
proc_release_memory ==
  LET held == {d \in {gdt[segs.cs], gdt[segs.ds]} : d # GDT_NULL_ENTRY}
  IN  /\ gdt_dealloc({segs.cs, segs.ds})
      /\ status' = Mark(status, {f \in UNION {Block(d.base, d.limit) : d \in held} :
                                   f \in Frame /\ status[f] = USED}, FREE)
      /\ UNCHANGED result

(* vfs_stat and vfs_open (111-116); when one fails nothing has changed.    *)
Exec(b) ==
  /\ At("kernel", "header") /\ h' = b /\ opened' = opened + 1 /\ f_pos' = 0
  /\ before' = <<gdt, status>> /\ cs' = 0 /\ ds' = 0 /\ br' = 0
  /\ UNCHANGED <<status, result, gdt, memory, procVars>>

ReadHeader ==                       \* 118-122
  /\ pc = "header"
  /\ IF h.size < HEADER THEN Fail({}, 0)
     ELSE /\ pc' = "frames" /\ f_pos' = HEADER
          /\ UNCHANGED <<status, result, gdt, memory, procVars, h, cs, ds, opened, br, before>>

AllocateFrames ==                   \* 158-164
  /\ pc = "frames"
  /\ Allocate(Limit, MEM_USER_FIRST_FRAME, MEM_TOTAL_FRAMES)
  /\ IF result' = NULL THEN pc' = "kernel" /\ opened' = opened - 1
                       ELSE pc' = "cs" /\ UNCHANGED opened
  /\ UNCHANGED <<gdt, memory, procVars, h, cs, ds, f_pos, br, before>>

CodeSegment ==                      \* 167-181
  /\ pc = "cs"
  /\ IF Room = {} THEN Fail({}, Limit)
     ELSE /\ pc' = "ds" /\ cs' \in Room /\ gdt_alloc(result, Limit, cs')
          /\ UNCHANGED <<status, result, memory, procVars, h, ds, fileVars, before>>

DataSegment ==                      \* 184-199, and vfs_lseek in 202
  /\ pc = "ds"
  /\ IF Room = {} THEN Fail({cs}, Limit)
     ELSE /\ pc' = "text" /\ ds' \in Room /\ gdt_alloc(result, Limit, ds')
          /\ f_pos' = 0 /\ br' = 0
          /\ UNCHANGED <<status, result, memory, procVars, h, cs, opened, before>>

(* vfs_read of r bytes to address a.                                       *)
Read(a, r) ==
  /\ memory' = [x \in DOMAIN memory |->
                  IF x \in a .. a + r - 1 THEN f_pos + x - a ELSE memory[x]]
  /\ f_pos' = f_pos + r /\ br' = br + r

(* A loop over a section of n bytes that goes to address a (202-227).  The *)
(* reads return what they like, at the end of the file nothing.            *)
Reads(n) == {r \in 1 .. n - br : f_pos + r <= h.size}
AtEnd_goes == UNCHANGED vars                                      \* mutant: r == -1 only
AtEnd == Undo
Load(section, a, n, next) ==
  /\ pc = section
  /\ \/ /\ br >= n /\ pc' = next /\ br' = 0
        /\ UNCHANGED <<status, result, gdt, memory, procVars, h, cs, ds, opened, f_pos, before>>
     \/ /\ br < n /\ Reads(n) = {} /\ AtEnd
     \/ /\ \E r \in Reads(n) : Read(a + br, r)
        /\ UNCHANGED <<status, result, gdt, procVars, pc, h, cs, ds, opened, before>>

DataStart_packed == result * MEM_FRAME_SIZE + Text                \* mutant: not aligned
DataStart == (result + code_limit) * MEM_FRAME_SIZE
LoadText == Load("text", result * MEM_FRAME_SIZE, Text, "data")
LoadData == Load("data", DataStart, h.data, "close")

ReadError ==                        \* vfs_read returns -1, in any of its calls
  \/ pc = "header" /\ Fail({}, 0)
  \/ pc = "text" /\ br < Text /\ Undo
  \/ pc = "data" /\ br < h.data /\ Undo

(* Line 230, and the memset of .bss (233).                                 *)
ClearBss ==
  /\ At("close", "replace") /\ opened' = opened - 1
  /\ memory' = [x \in DOMAIN memory |->
       IF x \in DataStart + h.data .. DataStart + h.data + h.bss - 1 THEN Zero ELSE memory[x]]
  /\ UNCHANGED <<status, result, gdt, procVars, h, cs, ds, f_pos, br, before>>

Replace ==                          \* 236-253
  /\ At("replace", "user") /\ proc_release_memory
  /\ segs' = [cs |-> cs, ds |-> ds] /\ esp' = Limit * MEM_FRAME_SIZE
  /\ UNCHANGED <<memory, h, cs, ds, fileVars, before>>

(* The process calls the kernel.                                           *)
Trap == /\ At("user", "kernel")
        /\ UNCHANGED <<status, result, gdt, memory, procVars, h, cs, ds, fileVars, before>>

Steps == \/ ReadHeader \/ AllocateFrames \/ CodeSegment \/ DataSegment
         \/ LoadText \/ LoadData \/ ClearBss \/ Replace
ExecNext == (\E b \in Binaries : Exec(b)) \/ Steps \/ ReadError \/ Trap

ExecSpec == ExecInit /\ [][ExecNext]_vars /\ WF_vars(Steps)

-----------------------------------------------------------------------------
(* Properties. *)

UserBlocks == {Block(d.base, d.limit) : d \in {gdt[i] : i \in {j \in DOMAIN gdt : gdt[j].kind = "user"}}}
Live == Block(gdt[segs.cs].base, gdt[segs.cs].limit)

(* Slot 0 stays null and the kernel's slots stay the kernel's.             *)
TypeOK ==
  /\ status \in [Frame -> {FREE, USED, RESERVED}] /\ result \in Frame
  /\ \A i \in DOMAIN gdt :
       IF i = 0 THEN gdt[i] = GDT_NULL_ENTRY
       ELSE IF i \in 1 .. 3 THEN gdt[i].kind = "kernel" ELSE gdt[i].kind \in {"null", "user"}
  /\ h \in Binaries /\ opened \in 0 .. 1 /\ {cs, ds, segs.cs, segs.ds} \subseteq DOMAIN gdt
  /\ pc \in {"kernel", "header", "frames", "cs", "ds", "text", "data", "close", "replace", "user"}

(* The state is well typed, and the used frames of user space are those    *)
(* that a user segment describes, or exec is about to describe: none is    *)
(* lost, and no segment is left over memory that the allocator may give to *)
(* someone else.                                                           *)
SegmentsHoldFrames ==
  /\ TypeOK
  /\ {f \in Frame : f >= MEM_USER_FIRST_FRAME /\ status[f] = USED}
       = (UNION UserBlocks) \cup (IF pc = "cs" THEN Block(result, Limit) ELSE {})

(* An exec that fails, wherever it fails, leaves the segments and the      *)
(* frames as they were and its file closed; and until it replaces the      *)
(* process, nothing that it loads or clears falls inside the process.      *)
FailureHarmless ==
  [][ /\ (pc # "user" /\ pc' = "kernel") => <<gdt, status>>' = before /\ opened' = 0
      /\ (segs.cs # 0 /\ segs' = segs) => \A a \in DOMAIN memory :
           a \div MEM_FRAME_SIZE \in Live => memory'[a] = memory[a] ]_vars

(* A process starts with its text at 0, its data at the next frame and its *)
(* bss cleared, however the reads split the file, and above them a whole   *)
(* frame of stack, inside the memory that it owns.                         *)
LoadedRight ==
  pc = "user" =>
    LET start == gdt[segs.ds].base * MEM_FRAME_SIZE
        data  == start + FramesFor(Text) * MEM_FRAME_SIZE
    IN  /\ \A k \in 0 .. Text - 1 : memory[start + k] = k
        /\ \A k \in 0 .. h.data - 1 : memory[data + k] = Text + k
        /\ \A k \in h.data .. h.data + h.bss - 1 : memory[data + k] = Zero
        /\ data + h.data + h.bss + MEM_FRAME_SIZE <= start + esp
        /\ {(start + k) \div MEM_FRAME_SIZE : k \in 0 .. esp - 1} = Live

(* Every exec ends, in the new process or with an error: a file shorter    *)
(* than its header says is no endless loop.                                *)
ExecEnds == (pc = "header") ~> (pc \in {"kernel", "user"})
=============================================================================
