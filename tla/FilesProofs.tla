----------------------------- MODULE FilesProofs -----------------------------
(***************************************************************************)
(* Proofs about Files: the copies stay inside the block of the file but    *)
(* for the exceptions that InBounds names, the vnode's size is the file's  *)
(* until a write grows it, and the file is the byte file of ByteFile, for  *)
(* every width of a word, every set of handles and all that is written,    *)
(* read and sought.                                                        *)
(***************************************************************************)
EXTENDS Files, SequenceTheorems, TLAPS

Words == 0 .. Word - 1
Kinds == {"closed", "regular", "zero", "null", "directory"}
FileRec == [kind : Kinds, flags : SUBSET {"r", "w"}, pos : Words]

(* What the variables hold. *)
TypeInv ==
  /\ size \in Words /\ v_size \in Words /\ data \in Seq(Byte)
  /\ handles \in [Handle -> FileRec]
  /\ last.bytes \in Seq(Byte) /\ grown \in BOOLEAN

(* A node whose size was not set has no bytes; its first write stops or    *)
(* sets it.                                                                *)
NodeInv == size = Len(data) \/ data = << >>

IInv == TypeInv /\ NodeInv /\ InBounds /\ SizeCopied

-----------------------------------------------------------------------------
(* Words and handles.                                                      *)

(* The sum of two words, which wraps.                                      *)
LEMMA PlusLemma ==
  ASSUME NEW a \in Words, NEW b \in Nat
  PROVE  Plus(a, b) \in Words /\ (a + b < Word => Plus(a, b) = a + b)
<1>1. Word \in Nat \ {0} /\ a \in Nat /\ a + b \in Nat
  BY FilesAssumption DEF Words
<1>2. (a + b) % Word \in 0 .. Word - 1
  BY <1>1
<1>3. a + b < Word => (a + b) % Word = a + b
  BY <1>1
<1> QED
  BY <1>2, <1>3 DEF Plus, Words

(* A handle that moves stays on its file, and the others where they are.   *)
LEMMA HandleLemma ==
  ASSUME NEW hs \in [Handle -> FileRec], NEW h \in Handle, NEW p \in Words
  PROVE  /\ [hs EXCEPT ![h].pos = p] \in [Handle -> FileRec]
         /\ \A g \in Handle : [hs EXCEPT ![h].pos = p][g].kind = hs[g].kind
<1>1. hs[h] \in FileRec
  OBVIOUS
<1>2. [hs[h] EXCEPT !.pos = p] \in FileRec /\ [hs[h] EXCEPT !.pos = p].kind = hs[h].kind
  BY <1>1 DEF FileRec
<1>3. [hs EXCEPT ![h].pos = p] = [hs EXCEPT ![h] = [hs[h] EXCEPT !.pos = p]]
  OBVIOUS
<1> DEFINE r == [hs[h] EXCEPT !.pos = p]
<1> HIDE DEF r
<1>4. [hs EXCEPT ![h] = r] \in [Handle -> FileRec]
  BY <1>2 DEF r
<1>5. \A g \in Handle : [hs EXCEPT ![h] = r][g].kind = hs[g].kind
  BY <1>2 DEF r
<1> QED
  BY <1>3, <1>4, <1>5 DEF r

(* Moving the position of a handle changes what no property looks at.      *)
LEMMA MovedLemma ==
  ASSUME TypeInv, NEW h \in Handle, NEW n \in Nat
  PROVE  /\ handles[h].pos \in Words /\ handles[h].flags \subseteq {"r", "w"}
         /\ Moved(h, n) \in [Handle -> FileRec]
         /\ \A g \in Handle : Moved(h, n)[g].kind = handles[g].kind
<1>1. handles[h] \in FileRec
  BY DEF TypeInv
<1>2. handles[h].pos \in Words /\ handles[h].flags \subseteq {"r", "w"}
  BY <1>1 DEF FileRec
<1>3. PICK p \in Words : p = Plus(handles[h].pos, n)
  BY <1>2, PlusLemma
<1>4. Moved(h, n) = [handles EXCEPT ![h].pos = p]
  BY <1>3 DEF Moved
<1> QED
  BY <1>2, <1>4, HandleLemma DEF TypeInv

-----------------------------------------------------------------------------
(* Reading and writing.                                                    *)

(* What a read returns: it is the bytes of the abstract file, unless a     *)
(* copy would leave the block; and then the end of a word was passed or    *)
(* the size of the node was never set.                                     *)
LEMMA LimitedLemma ==
  ASSUME TypeInv, NodeInv, NEW off \in Words, NEW count \in Nat
  PROVE  LET n == Limited(off, count)
         IN  /\ n \in Nat
             /\ n > 0 /\ off + n > Len(data) => off + n >= Word \/ size # Len(data)
             /\ ~(n > 0 /\ off + n > Len(data)) =>
                  /\ SubSeq(data, off + 1, off + n) \in Seq(Byte)
                  /\ SubSeq(data, off + 1, off + n)
                       = SubSeq(data, off + 1, File!Min2(off + count, Len(data)))
<1> DEFINE n == Limited(off, count)
<1>1. PICK l \in Nat : l = Len(data)
  BY DEF TypeInv
<1>2. /\ Word \in Nat \ {0} /\ off \in Nat /\ off < Word /\ size \in Nat /\ size < Word
      /\ data \in Seq(Byte) /\ (size = l \/ l = 0) /\ (l = 0 => data = << >>)
  BY <1>1, FilesAssumption DEF TypeInv, NodeInv, Words
<1>3. PICK s \in Words : s = Plus(off, count) /\ (off + count < Word => s = off + count)
  BY PlusLemma
<1>4. n = IF off >= size THEN 0 ELSE IF s > size THEN size - off ELSE count
  BY <1>3 DEF Limited
<1> HIDE DEF n
<1>5. n \in Nat
  BY <1>2, <1>4
<1>6. n > 0 /\ off + n > l => off + n >= Word \/ size # l
  <2>1. CASE off >= size
    BY <2>1, <1>4
  <2>2. CASE off < size /\ s > size
    BY <2>2, <1>2, <1>4
  <2>3. CASE off < size /\ ~(s > size)
    BY <2>3, <1>2, <1>3, <1>4
  <2> QED
    BY <2>1, <2>2, <2>3, <1>2
<1>7. ASSUME ~(n > 0 /\ off + n > l)
      PROVE  /\ SubSeq(data, off + 1, off + n) \in Seq(Byte)
             /\ SubSeq(data, off + 1, off + n)
                  = SubSeq(data, off + 1, File!Min2(off + count, Len(data)))
  <2> DEFINE m == File!Min2(off + count, Len(data))
  <2>1. m \in Nat /\ m = IF off + count <= l THEN off + count ELSE l
    BY <1>1, <1>2 DEF File!Min2
  <2> HIDE DEF m
  <2>2. CASE n = 0
    <3>1. m <= off
      <4>1. CASE off >= size
        BY <4>1, <2>1, <2>2, <1>2, <1>4, <1>7
      <4>2. CASE off < size /\ s > size
        BY <4>2, <2>1, <2>2, <1>2, <1>4, <1>7
      <4>3. CASE off < size /\ ~(s > size)
        BY <4>3, <2>1, <2>2, <1>2, <1>3, <1>4, <1>7
      <4> QED
        BY <4>1, <4>2, <4>3, <1>2
    <3>2. SubSeq(data, off + 1, m) = << >> /\ SubSeq(data, off + 1, off + n) = << >>
      BY <1>1, <1>2, <2>1, <2>2, <3>1
    <3>3. << >> \in Seq(Byte)
      OBVIOUS
    <3> QED
      BY <3>2, <3>3, Zenon DEF m
  <2>3. CASE n # 0
    <3>1. off + n <= l /\ n >= 1
      BY <2>3, <1>5, <1>7, <1>2
    <3>2. off + n = m
      <4>1. size = l
        BY <3>1, <1>2, <1>5
      <4>2. CASE off >= size
        BY <4>2, <2>3, <1>4
      <4>3. CASE off < size /\ s > size
        BY <4>1, <4>3, <3>1, <2>1, <1>2, <1>3, <1>4
      <4>4. CASE off < size /\ ~(s > size)
        BY <4>1, <4>4, <3>1, <2>1, <1>2, <1>3, <1>4
      <4> QED
        BY <4>2, <4>3, <4>4, <1>2
    <3>3. off + 1 \in 1 .. Len(data) + 1 /\ off + n \in off .. Len(data)
      BY <3>1, <1>1, <1>2, <1>5
    <3>4. SubSeq(data, off + 1, off + n) \in Seq(Byte)
      BY <3>3, <1>2, SubSeqProperties
    <3> QED
      BY <3>2, <3>4 DEF m
  <2> QED
    BY <2>2, <2>3
<1> QED
  BY <1>1, <1>5, <1>6, <1>7 DEF n

(* What a write does: the block after it, and when it copies outside one.  *)
End(off, text) == Plus(off, Len(text))
NewBlock(off, text) == IF End(off, text) > size THEN Grown(End(off, text)) ELSE data
Astray(off, text) ==
  \/ text # << >> /\ off + Len(text) > Len(NewBlock(off, text))
  \/ End(off, text) > size /\ size > Len(data)

(* The bytes of the abstract file after a write.                           *)
Covered(off, text) ==
  [i \in 1 .. (IF off + Len(text) > Len(data) THEN off + Len(text) ELSE Len(data)) |->
     IF i > off /\ i <= off + Len(text) THEN text[i - off]
     ELSE IF i <= Len(data) THEN data[i] ELSE Zero]

(* A function on 1..n is a sequence of n elements.                         *)
LEMMA TupleLemma ==
  ASSUME NEW n \in Nat, NEW f \in [1 .. n -> Byte]
  PROVE  f \in Seq(Byte) /\ Len(f) = n /\ DOMAIN f = 1 .. n
<1>1. f \in Seq(Byte)
  BY SeqDef
<1>2. DOMAIN f = 1 .. n
  OBVIOUS
<1> QED
  BY <1>1, <1>2, LenProperties

(* A copy leaves the block only past the end of a word or when the size    *)
(* was never set; otherwise the write is that of the abstract file, or     *)
(* changes nothing.                                                        *)
LEMMA WriteLemma ==
  ASSUME TypeInv, NodeInv, NEW off \in Words, NEW text \in Texts
  PROVE  LET d == Overwritten(NewBlock(off, text), off, text)
         IN  /\ End(off, text) \in Words /\ Len(text) \in Nat
             /\ Astray(off, text) => off + Len(text) >= Word \/ size # Len(data)
             /\ ~Astray(off, text) =>
                  /\ d \in Seq(Byte)
                  /\ End(off, text) > size => Len(d) = End(off, text)
                  /\ ~(End(off, text) > size) => Len(d) = Len(data)
                  /\ d = data \/ d = Covered(off, text)
<1>1. PICK l \in Nat : l = Len(data)
  BY DEF TypeInv
<1>2. PICK k \in Nat : k = Len(text)
  BY FilesAssumption
<1>3. /\ Word \in Nat \ {0} /\ off \in Nat /\ off < Word /\ size \in Nat /\ size < Word
      /\ data \in Seq(Byte) /\ DOMAIN data = 1 .. l /\ (size = l \/ l = 0)
      /\ text \in Seq(Byte) /\ DOMAIN text = 1 .. k /\ (text # << >> <=> k # 0)
      /\ Zero \in Byte
  BY <1>1, <1>2, FilesAssumption DEF TypeInv, NodeInv, Words
<1>4. /\ \A i \in 1 .. l : data[i] \in Byte
      /\ \A i \in 1 .. k : text[i] \in Byte
  BY <1>3
<1>5. PICK e \in Nat : /\ e = End(off, text) /\ e \in Words /\ e < Word
                       /\ (off + k < Word => e = off + k)
  <2>1. Plus(off, k) \in Words /\ (off + k < Word => Plus(off, k) = off + k)
    BY PlusLemma
  <2>2. \A e \in Words : e \in Nat /\ e < Word
    BY <1>3 DEF Words
  <2> QED
    BY <1>2, <2>1, <2>2 DEF End
<1> DEFINE b == NewBlock(off, text)
           d == Overwritten(NewBlock(off, text), off, text)
<1>6. CASE e > size
  <2>1. b = Grown(e)
    BY <1>5, <1>6 DEF NewBlock
  <2>2. b \in [1 .. e -> Byte]
    BY <1>1, <1>3, <1>4, <2>1 DEF Grown
  <2>3. DOMAIN b = 1 .. e /\ Len(b) = e
    BY <2>2, TupleLemma
  <2> HIDE DEF b
  <2>4. d = [i \in 1 .. e |-> IF i > off /\ i <= off + k THEN text[i - off] ELSE b[i]]
    BY <1>2, <2>3 DEF Overwritten, b
  <2>5. Astray(off, text) <=> (k # 0 /\ off + k > e) \/ size > l
    BY <1>1, <1>2, <1>3, <1>5, <1>6, <2>3 DEF Astray, b
  <2>6. Astray(off, text) => off + k >= Word \/ size # l
    BY <1>3, <1>5, <2>5
  <2>7. ASSUME ~Astray(off, text)
        PROVE  d \in Seq(Byte) /\ Len(d) = e /\ d = Covered(off, text)
    <3>1. size = l /\ e = off + k
      BY <1>3, <1>5, <1>6, <2>5, <2>7
    <3>2. \A i \in 1 .. e : i > off /\ i <= off + k => i - off \in 1 .. k
      BY <1>3
    <3>3. d \in [1 .. e -> Byte]
      BY <1>4, <2>2, <2>4, <3>2
    <3>4. off + Len(text) = e /\ e > Len(data)
      BY <1>1, <1>2, <1>6, <3>1
    <3>5. \A i \in 1 .. e : b[i] = IF i <= l THEN data[i] ELSE Zero
      BY <1>1, <2>1, <3>1 DEF Grown, b
    <3>6. Covered(off, text) =
            [i \in 1 .. e |-> IF i > off /\ i <= off + k THEN text[i - off]
                              ELSE IF i <= l THEN data[i] ELSE Zero]
      BY <1>1, <1>2, <3>4 DEF Covered
    <3>7. d = Covered(off, text)
      BY <2>4, <3>5, <3>6
    <3> HIDE DEF d
    <3> QED
      BY <3>3, <3>7, TupleLemma
  <2> HIDE DEF d
  <2> QED
    BY <1>1, <1>2, <1>5, <1>6, <2>6, <2>7 DEF d
<1>7. CASE ~(e > size)
  <2>1. b = data
    BY <1>5, <1>7 DEF NewBlock
  <2>4. d = [i \in 1 .. l |-> IF i > off /\ i <= off + k THEN text[i - off] ELSE data[i]]
    BY <1>2, <1>3, <2>1 DEF Overwritten
  <2>5. Astray(off, text) <=> k # 0 /\ off + k > l
    BY <1>1, <1>2, <1>3, <1>5, <1>7, <2>1 DEF Astray
  <2>6. Astray(off, text) => off + k >= Word \/ size # l
    BY <1>3, <1>5, <1>7, <2>5
  <2>7. ASSUME ~Astray(off, text)
        PROVE  d \in Seq(Byte) /\ Len(d) = l /\ (d = data \/ d = Covered(off, text))
    <3>1. \A i \in 1 .. l : i > off /\ i <= off + k => i - off \in 1 .. k
      BY <1>3
    <3>2. d \in [1 .. l -> Byte]
      BY <1>4, <2>4, <3>1
    <3>3. CASE k = 0
      <4>1. \A i \in 1 .. l : ~(i > off /\ i <= off + k)
        BY <1>3, <3>3
      <4>2. d = [i \in 1 .. l |-> data[i]]
        BY <2>4, <4>1
      <4>3. d = data
        BY <1>3, <4>2
      <4> HIDE DEF d
      <4> QED
        BY <3>2, <4>3, TupleLemma
    <3>4. CASE k # 0
      <4>1. ~(off + Len(text) > Len(data))
        BY <1>1, <1>2, <1>3, <2>5, <2>7, <3>4
      <4>2. Covered(off, text) =
              [i \in 1 .. l |-> IF i > off /\ i <= off + k THEN text[i - off]
                                ELSE IF i <= l THEN data[i] ELSE Zero]
        BY <1>1, <1>2, <4>1 DEF Covered
      <4>3. d = Covered(off, text)
        BY <2>4, <4>2
      <4> HIDE DEF d
      <4> QED
        BY <3>2, <4>3, TupleLemma
    <3> QED
      BY <3>3, <3>4
  <2> HIDE DEF d
  <2> QED
    BY <1>1, <1>2, <1>5, <1>7, <2>6, <2>7 DEF d
<1> QED
  BY <1>6, <1>7

-----------------------------------------------------------------------------
(* Invariance.                                                             *)

(* The state before the file is opened satisfies the invariant.            *)
THEOREM InitInv == Init => IInv
<1> SUFFICES ASSUME Init PROVE IInv
  OBVIOUS
<1>1. 0 \in Words /\ NewSizes \subseteq Words
  BY FilesAssumption DEF Words
<1>2. Closed \in FileRec
  BY <1>1 DEF Closed, FileRec, Kinds
<1>3. TypeInv
  <2>1. handles \in [Handle -> FileRec]
    BY <1>2 DEF Init
  <2>2. last.bytes \in Seq(Byte)
    BY DEF Init
  <2> QED
    BY <1>1, <2>1, <2>2 DEF Init, TypeInv
<1>4. TypeOK
  <2>1. \A h \in Handle : handles[h].pos \in Words /\ handles[h].flags \subseteq {"r", "w"}
    BY <1>1 DEF Init, Closed
  <2> QED
    BY <1>3, <2>1 DEF TypeInv, TypeOK, Words
<1>5. InBounds
  BY <1>4 DEF Init, InBounds
<1>6. NodeInv
  BY DEF Init, NodeInv
<1>7. SizeCopied
  BY DEF Init, SizeCopied, Regular, Closed
<1> QED
  BY <1>3, <1>5, <1>6, <1>7 DEF IInv

(* What InBounds says of a step that goes astray.                          *)
Excused ==
  broken # Sound => broken.off + broken.count >= Word \/ size # Len(data) \/ broken.kind = "directory"

(* What a step does to the state: it goes astray, for one of the reasons   *)
(* that InBounds names, or it moves a handle, and the file is read,        *)
(* written or left alone.                                                  *)
Strays(h, n) ==
  /\ Breaks(h, n)
  /\ handles[h].pos + n >= Word \/ size # Len(data) \/ handles[h].kind = "directory"
Fetches(h, n) ==
  /\ handles' = Moved(h, Limited(handles[h].pos, n)) /\ UNCHANGED <<node, broken>>
  /\ last'.at = handles[h].pos /\ last'.bytes \in Seq(Byte)
  /\ File!Read(handles[h].pos, n)
Puts(h, text) ==
  /\ handles' = Moved(h, Len(text)) /\ UNCHANGED <<v_size, last, broken>>
  /\ data' \in Seq(Byte)
  /\ \/ End(handles[h].pos, text) > size /\ grown' = TRUE
        /\ size' = End(handles[h].pos, text) /\ Len(data') = size'
     \/ UNCHANGED <<size, grown>> /\ Len(data') = Len(data)
  /\ data' = data \/ File!Write(handles[h].pos, text)

(* A read is one of the byte file, or it goes astray.                      *)
LEMMA ReadLemma ==
  ASSUME TypeInv, NodeInv, NEW h \in Handle, NEW n \in Nat, Read(h, n)
  PROVE  Fetches(h, n) \/ \E m \in Nat : Strays(h, m)
<1>1. PICK off \in Words : off = handles[h].pos
  BY MovedLemma
<1>2. PICK m \in Nat : m = Limited(off, n)
  BY LimitedLemma
<1>3. CASE m > 0 /\ off + m > Len(data)
  <2>1. Breaks(h, m)
    BY <1>1, <1>2, <1>3 DEF Read
  <2>2. off + m >= Word \/ size # Len(data)
    BY <1>2, <1>3, LimitedLemma
  <2> QED
    BY <1>1, <2>1, <2>2 DEF Strays
<1>4. CASE ~(m > 0 /\ off + m > Len(data))
  <2>1. /\ handles' = Moved(h, m)
        /\ last' = [at |-> off, bytes |-> SubSeq(data, off + 1, off + m)]
        /\ UNCHANGED <<node, broken>>
    BY <1>1, <1>2, <1>4 DEF Read
  <2>2. /\ SubSeq(data, off + 1, off + m) \in Seq(Byte)
        /\ SubSeq(data, off + 1, off + m) = SubSeq(data, off + 1, File!Min2(off + n, Len(data)))
    BY <1>2, <1>4, LimitedLemma
  <2>3. File!Read(off, n)
    BY <2>1, <2>2 DEF File!Read, node
  <2>4. last'.at = off /\ last'.bytes = SubSeq(data, off + 1, off + m)
    BY <2>1
  <2> QED
    BY <1>1, <1>2, <2>1, <2>2, <2>3, <2>4 DEF Fetches
<1> QED
  BY <1>3, <1>4

(* A write is one of the byte file, or it goes astray.                     *)
LEMMA PutLemma ==
  ASSUME TypeInv, NodeInv, NEW h \in Handle, NEW text \in Texts, Write(h, text)
  PROVE  Puts(h, text) \/ Strays(h, Len(text))
<1>1. PICK off \in Words : off = handles[h].pos
  BY MovedLemma
<1> DEFINE d == Overwritten(NewBlock(off, text), off, text)
<1>2. /\ End(off, text) \in Words /\ Len(text) \in Nat
      /\ Astray(off, text) => off + Len(text) >= Word \/ size # Len(data)
      /\ ~Astray(off, text) =>
           /\ d \in Seq(Byte)
           /\ End(off, text) > size => Len(d) = End(off, text)
           /\ ~(End(off, text) > size) => Len(d) = Len(data)
           /\ d = data \/ d = Covered(off, text)
  BY WriteLemma
<1>3. CASE Astray(off, text)
  <2>1. Breaks(h, Len(text))
    BY <1>1, <1>3 DEF Write, Astray, NewBlock, End
  <2> QED
    BY <1>1, <1>2, <1>3, <2>1 DEF Strays
<1>4. CASE ~Astray(off, text)
  <2>1. /\ data' = d
        /\ size' = IF End(off, text) > size THEN End(off, text) ELSE size
        /\ grown' = (grown \/ End(off, text) > size)
        /\ handles' = Moved(h, Len(text))
        /\ UNCHANGED <<v_size, last, broken>>
    BY <1>1, <1>4 DEF Write, Astray, NewBlock, End
  <2>2. d = Covered(off, text) => File!Write(off, text)
    BY <2>1 DEF File!Write, Covered
  <2> HIDE DEF d
  <2>3. CASE End(off, text) > size
    <3>1. grown' = TRUE
      BY <2>1, <2>3
    <3> QED
      BY <1>1, <1>2, <1>4, <2>1, <2>2, <2>3, <3>1 DEF Puts
  <2>4. CASE ~(End(off, text) > size)
    <3>1. grown' = grown
      BY <2>1, <2>4 DEF TypeInv
    <3> QED
      BY <1>1, <1>2, <1>4, <2>1, <2>2, <2>4, <3>1 DEF Puts
  <2> QED
    BY <2>3, <2>4
<1> QED
  BY <1>3, <1>4

(* The reads of the devices, and seeking.                                  *)
LEMMA DeviceLemma ==
  ASSUME TypeInv, NEW h \in Handle, NEW n \in Counts, DeviceRead(h, n)
  PROVE  \/ Strays(h, n)
         \/ handles' = Moved(h, n) /\ UNCHANGED <<node, last, broken>>
         \/ UNCHANGED vars
BY DEF DeviceRead, Strays

(* A seek sets the position, and nothing else (vfs_lseek).                 *)
LEMMA SeekLemma ==
  ASSUME TypeInv, NEW h \in Handle, NEW off \in Offsets, NEW whence \in {"set", "cur", "end"},
         Lseek(h, off, whence)
  PROVE  /\ \E p \in Words : handles' = [handles EXCEPT ![h].pos = p]
         /\ UNCHANGED <<node, last, broken>>
<1>1. off \in Words /\ off \in Nat /\ 0 \in Words
  BY FilesAssumption DEF Words
<1>2. handles[h].pos \in Words
  BY 0 \in Nat, MovedLemma
<1>3. PICK base \in Words : base = IF handles[h].kind = "regular" THEN v_size ELSE 0
  BY <1>1 DEF TypeInv
<1>4. Plus(handles[h].pos, off) \in Words /\ Plus(base, off) \in Words
  BY <1>1, <1>2, PlusLemma
<1>5. CASE whence = "set"
  BY <1>1, <1>5 DEF Lseek
<1>6. CASE whence = "cur"
  BY <1>4, <1>6 DEF Lseek
<1>7. CASE whence = "end"
  BY <1>3, <1>4, <1>7 DEF Lseek
<1> QED
  BY <1>5, <1>6, <1>7

(* A step that only moves a handle, or goes astray, keeps the invariant.   *)
LEMMA MoveStep ==
  ASSUME IInv, UNCHANGED node,
         handles' \in [Handle -> FileRec],
         \A h \in Handle : handles'[h].kind = handles[h].kind,
         last'.bytes \in Seq(Byte), Excused'
  PROVE  IInv'
<1>1. TypeInv' /\ NodeInv'
  BY DEF IInv, TypeInv, NodeInv, node
<1>2. TypeOK'
  <2>1. \A h \in Handle : handles'[h].pos \in Words /\ handles'[h].flags \subseteq {"r", "w"}
    <3>1. \A h \in Handle : handles'[h] \in FileRec
      OBVIOUS
    <3> QED
      BY <3>1 DEF FileRec
  <2> QED
    BY <1>1, <2>1 DEF TypeInv, TypeOK, Words
<1>3. Regular' = Regular
  BY DEF Regular
<1>4. SizeCopied'
  BY <1>3 DEF IInv, SizeCopied, node
<1> QED
  BY <1>1, <1>2, <1>4 DEF IInv, InBounds, Excused

(* The invariant is inductive.                                             *)
THEOREM NextInv == IInv /\ [Next]_vars => IInv'
<1> SUFFICES ASSUME IInv, [Next]_vars PROVE IInv'
  OBVIOUS
<1>0. /\ TypeInv /\ NodeInv /\ Excused /\ handles \in [Handle -> FileRec]
      /\ last.bytes \in Seq(Byte) /\ size \in Words
  BY DEF IInv, InBounds, Excused, TypeInv
<1>1. ASSUME NEW h \in Handle, NEW n \in Nat, Strays(h, n) PROVE IInv'
  <2>1. UNCHANGED <<node, handles, last>>
    BY <1>1 DEF Strays, Breaks
  <2>2. /\ broken'.off = handles[h].pos /\ broken'.count = n /\ broken'.kind = handles[h].kind
    BY <1>1 DEF Strays, Breaks
  <2>3. Excused'
    BY <1>1, <2>1, <2>2 DEF Strays, Excused, node
  <2> QED
    BY <1>0, <2>1, <2>3, MoveStep
<1>2. ASSUME NEW h \in Handle, NEW n \in Nat, handles' = Moved(h, n),
             UNCHANGED <<node, broken>>, last'.bytes \in Seq(Byte)
      PROVE  IInv'
  <2>1. Excused'
    BY <1>0, <1>2 DEF Excused, node
  <2> QED
    BY <1>0, <1>2, <2>1, MovedLemma, MoveStep
<1>3. ASSUME NEW h \in Handle, NEW n \in Counts, Read(h, n) PROVE IInv'
  <2>1. n \in Nat
    BY FilesAssumption
  <2>2. handles[h].pos \in Words
    BY <1>0, <2>1, MovedLemma
  <2>3. Limited(handles[h].pos, n) \in Nat
    BY <1>0, <2>1, <2>2, LimitedLemma
  <2> QED
    BY <1>0, <1>1, <1>2, <1>3, <2>1, <2>3, ReadLemma DEF Fetches
<1>4. ASSUME NEW h \in Handle, NEW n \in Counts, DeviceRead(h, n) PROVE IInv'
  <2>1. n \in Nat
    BY FilesAssumption
  <2>2. CASE UNCHANGED vars
    BY <1>0, <2>2, MoveStep DEF vars, node, Excused
  <2> QED
    BY <1>0, <1>1, <1>2, <1>4, <2>1, <2>2, DeviceLemma
<1>5. ASSUME NEW h \in Handle, NEW text \in Texts, Write(h, text) PROVE IInv'
  <2>1. Len(text) \in Nat /\ handles[h].pos \in Words
    <3>1. Len(text) \in Nat
      BY FilesAssumption
    <3> QED
      BY <1>0, <3>1, MovedLemma
  <2>2. ASSUME Puts(h, text) PROVE IInv'
    <3>1. /\ handles' \in [Handle -> FileRec]
          /\ \A g \in Handle : handles'[g].kind = handles[g].kind
      BY <1>0, <2>1, <2>2, MovedLemma DEF Puts
    <3>2. End(handles[h].pos, text) \in Words
      BY <1>0, <2>1, WriteLemma
    <3>3. size' \in Words /\ grown' \in BOOLEAN /\ UNCHANGED <<v_size, last, broken>>
      BY <1>0, <2>2, <3>2 DEF Puts, TypeInv
    <3>4. TypeInv'
      BY <1>0, <2>2, <3>1, <3>3 DEF Puts, TypeInv
    <3>5. TypeOK'
      <4>1. \A g \in Handle : handles'[g] \in FileRec
        BY <3>1
      <4>2. \A g \in Handle : handles'[g].pos \in Words /\ handles'[g].flags \subseteq {"r", "w"}
        BY <4>1 DEF FileRec
      <4> QED
        BY <3>4, <4>2 DEF TypeInv, TypeOK, Words
    <3>6. NodeInv' /\ Excused'
      <4>1. broken = Sound
        BY <1>5 DEF Write, Can
      <4>2. Excused'
        BY <3>3, <4>1 DEF Excused
      <4>3. NodeInv'
        <5>1. CASE Len(data') = size'
          BY <5>1 DEF NodeInv
        <5>2. CASE UNCHANGED size /\ Len(data') = Len(data)
          <6>1. data' \in Seq(Byte)
            BY <2>2 DEF Puts
          <6>2. CASE size = Len(data)
            BY <5>2, <6>2 DEF NodeInv
          <6>3. CASE data = << >>
            <7>1. Len(data') = 0
              BY <5>2, <6>3
            <7>2. data' = << >>
              BY <6>1, <7>1, EmptySeq
            <7> QED
              BY <7>2 DEF NodeInv
          <6> QED
            BY <1>0, <6>2, <6>3 DEF NodeInv
        <5> QED
          BY <2>2, <5>1, <5>2 DEF Puts
      <4> QED
        BY <4>2, <4>3
    <3>7. Regular' = Regular
      BY <3>1 DEF Regular
    <3>8. SizeCopied'
      BY <2>2, <3>3, <3>7 DEF Puts, SizeCopied, IInv
    <3> QED
      BY <3>4, <3>5, <3>6, <3>8 DEF IInv, InBounds, Excused
  <2> QED
    BY <1>0, <1>1, <1>5, <2>1, <2>2, PutLemma
<1>6. ASSUME NEW h \in Handle, NEW o \in Opens, Open(h, o) PROVE IInv'
  <2>1. 0 \in Words /\ o.kind \in Kinds \ {"closed"} /\ o.flags \subseteq {"r", "w"}
    BY FilesAssumption DEF Words, Kinds
  <2> DEFINE r == [kind |-> o.kind, flags |-> o.flags, pos |-> 0]
  <2>2. r \in FileRec /\ r.kind = o.kind
    BY <2>1 DEF FileRec
  <2>3. /\ handles' = [handles EXCEPT ![h] = r] /\ broken = Sound /\ handles[h] = Closed
        /\ UNCHANGED <<size, data, last, broken>>
    BY <1>6 DEF Open
  <2> HIDE DEF r
  <2>4. handles' \in [Handle -> FileRec]
    BY <1>0, <2>2, <2>3
  <2>5. v_size' \in Words /\ grown' \in BOOLEAN
    BY <1>0, <1>6 DEF Open, Loaded, TypeInv
  <2>6. TypeInv'
    BY <1>0, <2>3, <2>4, <2>5 DEF TypeInv
  <2>7. TypeOK'
    <3>1. \A g \in Handle : handles'[g] \in FileRec
      BY <2>4
    <3>2. \A g \in Handle : handles'[g].pos \in Words /\ handles'[g].flags \subseteq {"r", "w"}
      BY <3>1 DEF FileRec
    <3> QED
      BY <2>6, <3>2 DEF TypeInv, TypeOK, Words
  <2>8. NodeInv' /\ Excused'
    BY <1>0, <2>3 DEF NodeInv, Excused
  <2>9. SizeCopied'
    <3>1. CASE o.kind = "regular" /\ Regular = {}
      BY <1>6, <2>3, <3>1 DEF Open, Loaded, SizeCopied
    <3>2. CASE o.kind = "regular" /\ Regular # {}
      BY <1>6, <2>3, <3>2 DEF Open, Loaded, SizeCopied, IInv
    <3>3. CASE o.kind # "regular"
      <4>1. Regular' = Regular
        <5>1. \A g \in Handle : handles'[g].kind = "regular" <=> handles[g].kind = "regular"
          BY <1>0, <2>2, <2>3, <3>3 DEF Closed
        <5> QED
          BY <5>1 DEF Regular
      <4> QED
        BY <1>6, <2>3, <3>3, <4>1 DEF Open, SizeCopied, IInv
    <3> QED
      BY <3>1, <3>2, <3>3
  <2> QED
    BY <2>6, <2>7, <2>8, <2>9 DEF IInv, InBounds, Excused
<1>7. ASSUME NEW h \in Handle, Close(h) PROVE IInv'
  <2>1. Closed \in FileRec
    BY FilesAssumption DEF Closed, FileRec, Kinds, Words
  <2>2. handles' = [handles EXCEPT ![h] = Closed] /\ UNCHANGED <<node, last, broken>>
    BY <1>7 DEF Close
  <2>3. handles' \in [Handle -> FileRec]
    BY <1>0, <2>1, <2>2
  <2>4. TypeInv' /\ NodeInv' /\ Excused'
    BY <1>0, <2>2, <2>3 DEF TypeInv, NodeInv, Excused, node
  <2>5. TypeOK'
    <3>1. \A g \in Handle : handles'[g] \in FileRec
      BY <2>3
    <3>2. \A g \in Handle : handles'[g].pos \in Words /\ handles'[g].flags \subseteq {"r", "w"}
      BY <3>1 DEF FileRec
    <3> QED
      BY <2>4, <3>2 DEF TypeInv, TypeOK, Words
  <2>6. Regular' \subseteq Regular
    BY <1>0, <2>2 DEF Regular, Closed
  <2>7. SizeCopied'
    BY <2>2, <2>6 DEF SizeCopied, IInv, node
  <2> QED
    BY <2>4, <2>5, <2>7 DEF IInv, InBounds, Excused
<1>8. ASSUME NEW h \in Handle, NEW off \in Offsets, NEW whence \in {"set", "cur", "end"},
             Lseek(h, off, whence)
      PROVE  IInv'
  <2>1. PICK p \in Words : handles' = [handles EXCEPT ![h].pos = p]
    BY <1>0, <1>8, SeekLemma
  <2>2. UNCHANGED <<node, last, broken>>
    BY <1>0, <1>8, SeekLemma
  <2>3. Excused'
    BY <1>0, <2>2 DEF Excused, node
  <2> QED
    BY <1>0, <2>1, <2>2, <2>3, HandleLemma, MoveStep
<1>9. CASE UNCHANGED vars
  BY <1>0, <1>9, MoveStep DEF vars, node, Excused
<1> QED
  BY <1>3, <1>4, <1>5, <1>6, <1>7, <1>8, <1>9 DEF Next

(* The invariant holds of every behaviour.                                 *)
THEOREM Invariance == Spec => []IInv
BY InitInv, NextInv, PTL DEF Spec

(* No copy leaves the block of the file and no null pointer is followed,   *)
(* but past the end of a word, in a node whose size was never set, and in  *)
(* a directory (memfs.c:214-266, vfs.c).                                   *)
THEOREM CopiesInBounds == Spec => []InBounds
<1>1. IInv => InBounds
  BY DEF IInv
<1> QED
  BY <1>1, Invariance, PTL

(* The size in the vnode is the file's until a write grows the file        *)
(* (memfs.c:359-372).                                                      *)
THEOREM VnodeSize == Spec => []SizeCopied
<1>1. IInv => SizeCopied
  BY DEF IInv
<1> QED
  BY <1>1, Invariance, PTL

(* Through any handles and positions the file is a byte file (memfs.c:     *)
(* 214-266, vfs.c).                                                        *)
THEOREM Refinement == Spec => ImplementsByteFile
<1>1. Init => File!Init
  BY DEF Init, File!Init
<1>2. IInv /\ [Next]_vars => [File!Next]_<<data, last>>
  <2> SUFFICES ASSUME IInv, [Next]_vars
               PROVE  File!Next \/ UNCHANGED <<data, last>>
    OBVIOUS
  <2>0. TypeInv /\ NodeInv
    BY DEF IInv
  <2>1. ASSUME NEW h \in Handle, NEW n \in Counts, Read(h, n)
        PROVE  File!Next \/ UNCHANGED <<data, last>>
    <3>1. n \in Nat
      BY FilesAssumption
    <3>2. handles[h].pos \in 0 .. Word - 1
      BY <2>0, <3>1, MovedLemma DEF Words
    <3>3. CASE Fetches(h, n)
      BY <3>2, <3>3 DEF Fetches, File!Next
    <3>4. ASSUME NEW m \in Nat, Strays(h, m) PROVE UNCHANGED <<data, last>>
      BY <3>4 DEF Strays, Breaks, node
    <3> QED
      BY <2>0, <2>1, <3>1, <3>3, <3>4, ReadLemma
  <2>2. ASSUME NEW h \in Handle, NEW text \in Texts, Write(h, text)
        PROVE  File!Next \/ UNCHANGED <<data, last>>
    <3>1. handles[h].pos \in 0 .. Word - 1
      BY <2>0, 0 \in Nat, MovedLemma DEF Words
    <3>2. CASE Puts(h, text)
      BY <3>1, <3>2 DEF Puts, File!Next
    <3>3. CASE Strays(h, Len(text))
      BY <3>3 DEF Strays, Breaks, node
    <3> QED
      BY <2>0, <2>2, <3>2, <3>3, PutLemma
  <2>3. ASSUME NEW h \in Handle, NEW n \in Counts, DeviceRead(h, n) PROVE UNCHANGED <<data, last>>
    BY <2>3 DEF DeviceRead, Breaks, node, vars
  <2>4. ASSUME NEW h \in Handle, NEW o \in Opens, Open(h, o) PROVE UNCHANGED <<data, last>>
    BY <2>4 DEF Open
  <2>5. ASSUME NEW h \in Handle, Close(h) PROVE UNCHANGED <<data, last>>
    BY <2>5 DEF Close, node
  <2>6. ASSUME NEW h \in Handle, NEW off \in Offsets, NEW whence \in {"set", "cur", "end"},
               Lseek(h, off, whence)
        PROVE  UNCHANGED <<data, last>>
    BY <2>6 DEF Lseek, node
  <2>7. CASE UNCHANGED vars
    BY <2>7 DEF vars
  <2> QED
    BY <2>1, <2>2, <2>3, <2>4, <2>5, <2>6, <2>7 DEF Next
<1> QED
  BY <1>1, <1>2, Invariance, PTL DEF Spec, ImplementsByteFile, File!Spec
=============================================================================
