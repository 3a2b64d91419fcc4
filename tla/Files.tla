-------------------------------- MODULE Files --------------------------------
(***************************************************************************)
(* Reading, writing and seeking: vfs_read, vfs_write and vfs_lseek of      *)
(* vfs.c over memfs_file_read and memfs_file_write, for one regular file,  *)
(* and over the memory devices of drivers/mem.c.  The calls are those of   *)
(* handles that module Vfs shows how to open and close.                    *)
(*                                                                         *)
(* Offsets and sizes are unsigned words (typedef.h:83-84).  broken: the    *)
(* call that made the code follow a null pointer or copy outside a block;  *)
(* nothing is modelled after it.                                           *)
(***************************************************************************)
EXTENDS Sequences, Integers

CONSTANTS
  Word,                   \* 2^32 in the code
  MaxSize,                \* the longest block the heap has room for
  Byte, Zero, Star,       \* the bytes; what memset stores (memfs.c:253, mem.c:434)
  Handle,                 \* open files: a bound
  Opens,                  \* what is opened: the kind of node and the flags
  Texts, Counts, Offsets, \* what is written, how much is read, where is sought
  NewSizes                \* what kalloc may leave in the size of a new node:
                          \* memfs_node_alloc does not set it (memfs.c:105-128)

VARIABLES
  size, data,             \* the memfs node; data is << >> for NULL
  v_size,                 \* the vnode's copy of the size (memfs.c:371)
  handles,                \* f_pos and f_flags of the open files
  last,                   \* what the last read of the file returned
  grown,                  \* history: a write grew the file since v_size was set
  broken

vars == <<size, data, v_size, handles, last, grown, broken>>
node == <<size, data, v_size, grown>>

ASSUME FilesAssumption ==
  /\ Word \in Nat \ {0} /\ MaxSize \in Nat /\ MaxSize < Word
  /\ NewSizes \subseteq 0 .. Word - 1 /\ Counts \subseteq Nat /\ Offsets \subseteq 0 .. Word - 1
  /\ Opens \subseteq [kind : {"regular", "zero", "null", "directory"}, flags : SUBSET {"r", "w"}]
  /\ {Zero, Star} \subseteq Byte /\ Texts \subseteq Seq(Byte)

Closed == [kind |-> "closed", flags |-> {}, pos |-> 0]
Sound == [kind |-> "none", off |-> 0, count |-> 0]
Plus(a, b) == (a + b) % Word

Init ==
  /\ size \in NewSizes /\ data = << >> /\ v_size = 0
  /\ handles = [h \in Handle |-> Closed]
  /\ last = [at |-> 0, bytes |-> << >>] /\ grown = FALSE /\ broken = Sound

-----------------------------------------------------------------------------
Regular == {h \in Handle : handles[h].kind = "regular"}
Can(h, flag) == broken = Sound /\ flag \in handles[h].flags

(* The size a vnode gets when the first file on it opens (memfs.c:359-372, *)
(* vfs.c:502-536); later ones share the vnode.                             *)
Loaded_never == v_size                      \* mutant: memfs.c:371 left out
Loaded == IF Regular = {} THEN size ELSE v_size

Open(h, o) ==
  /\ broken = Sound /\ handles[h] = Closed
  /\ handles' = [handles EXCEPT ![h] = [kind |-> o.kind, flags |-> o.flags, pos |-> 0]]
  /\ v_size' = IF o.kind = "regular" THEN Loaded ELSE v_size
  /\ grown' = IF o.kind = "regular" /\ Regular = {} THEN FALSE ELSE grown
  /\ UNCHANGED <<size, data, last, broken>>

Close(h) ==
  /\ broken = Sound /\ handles[h] # Closed /\ handles' = [handles EXCEPT ![h] = Closed]
  /\ UNCHANGED <<node, last, broken>>

Moved(h, count) == [handles EXCEPT ![h].pos = Plus(@, count)]
Breaks(h, count) ==
  /\ broken' = [kind |-> handles[h].kind, off |-> handles[h].pos, count |-> count]
  /\ UNCHANGED <<node, handles, last>>

(* What memfs_file_read returns (memfs.c:214-234): nothing from the end    *)
(* on, and no more than there is.                                          *)
Limited_not(off, count) == IF off >= size THEN 0 ELSE count    \* mutant: 225-227 left out
Limited(off, count) ==
  IF off >= size THEN 0 ELSE IF Plus(off, count) > size THEN size - off ELSE count

Read(h, count) ==
  /\ Can(h, "r") /\ handles[h].kind = "regular"
  /\ LET off == handles[h].pos
         n == Limited(off, count)
     IN  IF n > 0 /\ off + n > Len(data) THEN Breaks(h, n)
         ELSE /\ handles' = Moved(h, n)
              /\ last' = [at |-> off, bytes |-> SubSeq(data, off + 1, off + n)]
              /\ UNCHANGED <<node, broken>>

(* memfs_file_write (237-266).  Past the end the bytes move to a larger    *)
(* block, zeroed before the old ones are copied in; without room for it    *)
(* nothing changes.                                                        *)
Grown_dirty(n) == [i \in 1 .. n |-> IF i <= Len(data) THEN data[i] ELSE Star]  \* mutant: no memset
Grown(n) == [i \in 1 .. n |-> IF i <= Len(data) THEN data[i] ELSE Zero]

Overwritten(d, off, text) ==
  [i \in DOMAIN d |-> IF i > off /\ i <= off + Len(text) THEN text[i - off] ELSE d[i]]

Write(h, text) ==
  /\ Can(h, "w") /\ handles[h].kind = "regular"
  /\ LET off == handles[h].pos
         end == Plus(off, Len(text))
         block == IF end > size THEN Grown(end) ELSE data
     IN  /\ end > size => end <= MaxSize                         \* else E_NOSPACE
         /\ IF (text # << >> /\ off + Len(text) > Len(block)) \/ (end > size /\ size > Len(data))
            THEN Breaks(h, Len(text))
            ELSE /\ data' = Overwritten(block, off, text)
                 /\ size' = IF end > size THEN end ELSE size
                 /\ grown' = (grown \/ end > size)
                 /\ handles' = Moved(h, Len(text))
                 /\ UNCHANGED <<v_size, last, broken>>

(* The devices (mem.c:433-445): zero fills the buffer and moves f_pos,     *)
(* null leaves both; writes to either are taken and forgotten.  A          *)
(* directory has no read (memfs.c:375-393), and vfs_read calls it all the  *)
(* same.                                                                   *)
DeviceRead(h, count) ==
  /\ Can(h, "r") /\ handles[h].kind \in {"zero", "null", "directory"}
  /\ CASE handles[h].kind = "directory" -> Breaks(h, count)
       [] handles[h].kind = "zero" ->
            handles' = Moved(h, count) /\ UNCHANGED <<node, last, broken>>
       [] OTHER -> UNCHANGED vars

(* vfs_lseek (1178-1199) for files without a seek of their own.            *)
Lseek(h, off, whence) ==
  /\ broken = Sound /\ handles[h] # Closed
  /\ handles' = [handles EXCEPT ![h].pos =
       CASE whence = "set" -> off
         [] whence = "cur" -> Plus(@, off)
         [] whence = "end" -> Plus(IF handles[h].kind = "regular" THEN v_size ELSE 0, off)]
  /\ UNCHANGED <<node, last, broken>>

Next ==
  \E h \in Handle :
    \/ \E o \in Opens : Open(h, o)
    \/ Close(h)
    \/ \E n \in Counts : Read(h, n) \/ DeviceRead(h, n)
    \/ \E t \in Texts : Write(h, t)
    \/ \E off \in Offsets, whence \in {"set", "cur", "end"} : Lseek(h, off, whence)

Spec == Init /\ [][Next]_vars

-----------------------------------------------------------------------------
(* Properties. *)

(* Positions are words, and the bytes of the file are bytes.               *)
TypeOK ==
  /\ size \in 0 .. Word - 1 /\ v_size \in 0 .. Word - 1 /\ data \in Seq(Byte)
  /\ \A h \in Handle : handles[h].pos \in 0 .. Word - 1 /\ handles[h].flags \subseteq {"r", "w"}
  /\ last.bytes \in Seq(Byte) /\ grown \in BOOLEAN

(* The state is well typed, copies stay inside the block of the file and   *)
(* no null pointer is followed, unless the offset and the count pass the   *)
(* end of a word together, the size of the node was never set, or it is a  *)
(* directory that is read.                                                 *)
InBounds ==
  /\ TypeOK
  /\ broken # Sound =>
       broken.off + broken.count >= Word \/ size # Len(data) \/ broken.kind = "directory"

(* The size in the vnode, from which SEEK_END counts and which stat        *)
(* returns, is the size of the file as long as no write has grown it since *)
(* the vnode was loaded.                                                   *)
SizeCopied == Regular # {} /\ ~grown => v_size = size

(* Through any handles, positions and failures the file is a byte file:    *)
(* every step is one of the abstract file or leaves it as it is, and a     *)
(* read returns what the writes before it left there.                      *)
File == INSTANCE ByteFile WITH
          content <- data, At <- 0 .. Word - 1, Text <- Texts, Count <- Counts
ImplementsByteFile == File!Spec
=============================================================================
