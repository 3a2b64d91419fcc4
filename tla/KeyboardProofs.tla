--------------------------- MODULE KeyboardProofs ---------------------------
(***************************************************************************)
(* Proofs about Keyboard: the head and the count stay inside the buffer,   *)
(* the buffer is the queue of KeyQueue as long as the handler does not     *)
(* store between the reader's two updates, and a prefix is never left      *)
(* alone in it, for every length of the buffer and every set of codes.     *)
(***************************************************************************)
EXTENDS Keyboard, SequenceTheorems, TLAPS

(* What the variables hold. *)
TypeInv ==
  /\ TypeOK
  /\ wire \in Seq(Byte) /\ full \in BOOLEAN
  /\ hpc \in {"none", "byte", "eoi"}
  /\ kpc \in {"idle", "test", "take", "head", "load", "store"}
  /\ raced \in BOOLEAN /\ cut \in BOOLEAN

(* The line, the handler and the encoder: the handler that is about to     *)
(* fetch a byte finds one, and the same one that the line rose for.        *)
LineInv ==
  /\ hpc = "none" <=> isr = {}
  /\ irr # {} \/ hpc = "byte" => full
  /\ hpc = "byte" => irr = {}
  /\ full => wire # << >>

(* There is a byte to take from the test to the last update, and the count *)
(* that was loaded is still the count unless the handler stored.           *)
CountInv ==
  /\ kpc \in {"take", "head", "load", "store"} => kb_buf_count >= 1
  /\ kpc = "store" => loaded >= 1 /\ (~raced => loaded = kb_buf_count)

(* What has been collected and what is on the wire: of code c, i bytes     *)
(* were fetched, of which the first three, if there are so many, were      *)
(* stored or dropped.                                                      *)
From(i) == IF i < 3 THEN 0 ELSE 3
InCode(c, i) ==
  /\ wire = SubSeq(c, i + 1, Len(c))
  /\ partial = SubSeq(c, From(i) + 1, i)
WireInv ==
  \/ wire = << >> /\ partial = << >>
  \/ \E c \in Codes : \E i \in 0..Len(c) - 1 : InCode(c, i)

IInv == TypeInv /\ LineInv /\ CountInv /\ WireInv /\ PrefixKept

-----------------------------------------------------------------------------
(* Codes.                                                                  *)

(* A prefix e0 is followed by a byte that is none. *)
Tidy(s) == \A j \in DOMAIN s : s[j] = "e0" => j < Len(s) /\ s[j + 1] # "e0"

(* The bytes of a code that are collected when its i + 1st is.             *)
Group(c, i) == SubSeq(c, From(i) + 1, i + 1)

(* A group is part of its code, of one or of three bytes.                  *)
LEMMA GroupLemma ==
  ASSUME NEW c \in Codes, NEW i \in 0..Len(c) - 1
  PROVE  /\ c \in Seq(Byte) /\ i \in Nat /\ i + 1 <= Len(c) /\ From(i) \in {0, 3} /\ From(i) <= i
         /\ Group(c, i) \in Seq(Byte) /\ Len(Group(c, i)) = i + 1 - From(i)
         /\ \A j \in 1..i + 1 - From(i) : Group(c, i)[j] = c[From(i) + j]
<1>1. c \in Seq(Byte) /\ Len(c) \in Nat
  BY KeyboardAssumption
<1>2. i \in Nat /\ i + 1 <= Len(c) /\ From(i) \in {0, 3} /\ From(i) <= i
  BY <1>1 DEF From
<1>3. From(i) + 1 \in 1..Len(c) /\ i + 1 \in From(i)..Len(c)
  BY <1>1, <1>2
<1>4. /\ SubSeq(c, From(i) + 1, i + 1) \in Seq(Byte)
      /\ Len(SubSeq(c, From(i) + 1, i + 1)) = i + 1 - From(i)
      /\ \A j \in 1..i + 1 - From(i) : SubSeq(c, From(i) + 1, i + 1)[j] = c[From(i) + j]
  BY <1>1, <1>2, <1>3, SubSeqProperties
<1> QED
  BY <1>1, <1>2, <1>4 DEF Group

(* The handler waits for the end of the code or for its third byte, and    *)
(* what it then stores leaves no prefix alone, unless it cuts the code.    *)
LEMMA CodeLemma ==
  ASSUME NEW c \in Codes, NEW i \in 0..Len(c) - 1
  PROVE  /\ Len(Group(c, i)) \in 1..3
         /\ Waits(Group(c, i)) <=> i + 1 # Len(c) /\ i + 1 # 3
         /\ ~Waits(Group(c, i)) => Cuts(Group(c, i)) \/ Tidy(Group(c, i))
<1> DEFINE p == Group(c, i)
<1>1. /\ i \in Nat /\ i + 1 <= Len(c) /\ p \in Seq(Byte)
      /\ Len(p) = i + 1 - From(i)
      /\ \A j \in 1..i + 1 - From(i) : p[j] = c[From(i) + j]
  BY GroupLemma
<1> HIDE DEF p
<1>2. DOMAIN p = 1..Len(p)
  BY <1>1
<1>3. CASE Len(c) = 1 /\ c[1] \notin {"e0", "e1"}
  <2>1. i = 0 /\ Len(p) = 1 /\ p[1] = c[1]
    BY <1>1, <1>3 DEF From
  <2> QED
    BY <1>2, <1>3, <2>1 DEF Waits, Cuts, Tidy, p
<1>4. CASE Len(c) = 2 /\ c[1] = "e0" /\ c[2] \notin {"e0", "e1", "2a", "b7"}
  <2>1. i = 0 => Len(p) = 1 /\ p[1] = c[1]
    BY <1>1, <1>4 DEF From
  <2>2. i = 1 => Len(p) = 2 /\ p[1] = c[1] /\ p[2] = c[2]
    BY <1>1, <1>4 DEF From
  <2>3. i \in {0, 1}
    BY <1>1, <1>4
  <2> QED
    BY <1>2, <1>4, <2>1, <2>2, <2>3 DEF Waits, Cuts, Tidy, p
<1>5. CASE Len(c) = 4 /\ c[1] = "e0" /\ c[2] \in {"2a", "b7"} /\ c[3] = "e0"
             /\ c[4] \notin {"e0", "e1"}
  <2>1. i = 0 => Len(p) = 1 /\ p[1] = c[1]
    BY <1>1, <1>5 DEF From
  <2>2. i = 1 => Len(p) = 2 /\ p[1] = c[1] /\ p[2] = c[2]
    BY <1>1, <1>5 DEF From
  <2>3. i = 2 => Len(p) = 3 /\ p[1] = c[1]
    BY <1>1, <1>5 DEF From
  <2>4. i = 3 => Len(p) = 1 /\ p[1] = c[4]
    BY <1>1, <1>5 DEF From
  <2>5. i \in {0, 1, 2, 3}
    BY <1>1, <1>5
  <2> QED
    BY <1>2, <1>5, <2>1, <2>2, <2>3, <2>4, <2>5 DEF Waits, Cuts, Tidy, p
<1>6. CASE /\ Len(c) = 6 /\ c[1] = "e1" /\ c[4] = "e1"
           /\ \A j \in {2, 3, 5, 6} : c[j] \notin {"e0", "e1"}
  <2>0. /\ \A j \in 1..3 : j \in Nat => c[j] # "e0"
        /\ \A j \in 4..6 : c[j] # "e0"
    BY <1>6
  <2>1. i \in {0, 3} => Len(p) = 1 /\ p[1] = "e1"
    BY <1>1, <1>6 DEF From
  <2>2. i \in {1, 4} => Len(p) = 2 /\ p[1] = "e1"
    BY <1>1, <1>6 DEF From
  <2>3. i \in {2, 5} => Len(p) = 3 /\ p[1] = "e1" /\ p[2] # "e0" /\ p[3] # "e0"
    BY <1>1, <1>6 DEF From
  <2>4. i \in {0, 1, 2, 3, 4, 5}
    BY <1>1, <1>6
  <2> QED
    BY <1>2, <1>6, <2>1, <2>2, <2>3, <2>4 DEF Waits, Cuts, Tidy, p
<1> QED
  BY <1>3, <1>4, <1>5, <1>6, ScanCodes DEF p

-----------------------------------------------------------------------------
(* The buffer.                                                             *)

Slots == 0..KB_BUF_LEN - 1
AnyByte == Byte \cup {NoByte}

(* Places around the ring.                                                 *)
LEMMA AtLemma ==
  ASSUME NEW h \in Slots, NEW x \in Slots
  PROVE  At(h + x) \in Slots
         /\ At(h + x) = IF h + x < KB_BUF_LEN THEN h + x ELSE h + x - KB_BUF_LEN
<1>1. KB_BUF_LEN \in Nat \ {0} /\ h \in Nat /\ x \in Nat /\ h < KB_BUF_LEN /\ x < KB_BUF_LEN
  BY KeyboardAssumption DEF Slots
<1>2. CASE h + x < KB_BUF_LEN
  <2>1. (h + x) % KB_BUF_LEN = h + x
    BY <1>1, <1>2
  <2> QED
    BY <1>1, <1>2, <2>1 DEF At, Slots
<1>3. CASE ~(h + x < KB_BUF_LEN)
  <2>1. (h + x) % KB_BUF_LEN = h + x - KB_BUF_LEN
    BY <1>1, <1>3
  <2> QED
    BY <1>1, <1>3, <2>1 DEF At, Slots
<1> QED
  BY <1>2, <1>3

(* What stands in the n places from the x-th after h on.                   *)
Held(b, h, x, n) == [i \in 1..n |-> b[At(h + x + i - 1)]]

(* It is a sequence. *)
LEMMA HeldLemma ==
  ASSUME NEW b \in [Slots -> AnyByte], NEW h \in Slots, NEW x \in Nat, NEW n \in Nat,
         x + n <= KB_BUF_LEN
  PROVE  /\ Held(b, h, x, n) \in Seq(AnyByte) /\ Len(Held(b, h, x, n)) = n
         /\ \A i \in 1..n : /\ At(h + x + i - 1) \in Slots
                            /\ Held(b, h, x, n)[i] = b[At(h + x + i - 1)]
<1>1. KB_BUF_LEN \in Nat \ {0} /\ h \in Nat
  BY KeyboardAssumption DEF Slots
<1>2. ASSUME NEW i \in 1..n PROVE At(h + x + i - 1) \in Slots
  <2>1. x + i - 1 \in Slots /\ h + (x + i - 1) = h + x + i - 1
    BY <1>1 DEF Slots
  <2>2. At(h + (x + i - 1)) \in Slots
    BY <2>1, AtLemma
  <2> QED
    BY <2>1, <2>2
<1>3. Held(b, h, x, n) \in [1..n -> AnyByte]
  BY <1>2 DEF Held
<1>4. Held(b, h, x, n) \in Seq(AnyByte) /\ Len(Held(b, h, x, n)) = n
  BY <1>3, SeqDef, LenProperties
<1> QED
  BY <1>2, <1>4 DEF Held

(* What lines 73-77 make of the buffer. *)
Stored(b, h, y, p) ==
  [k \in DOMAIN b |-> IF \E i \in DOMAIN p : k = At(h + y + i - 1)
                      THEN p[CHOOSE i \in DOMAIN p : k = At(h + y + i - 1)] ELSE b[k]]

(* Bytes stored behind the last one go to the end of the sequence.         *)
LEMMA PutLemma ==
  ASSUME NEW b \in [Slots -> AnyByte], NEW h \in Slots, NEW x \in Nat, NEW n \in Nat,
         NEW p \in Seq(Byte), x + n + Len(p) <= KB_BUF_LEN
  PROVE  /\ Stored(b, h, x + n, p) \in [Slots -> AnyByte]
         /\ Held(Stored(b, h, x + n, p), h, x, n + Len(p)) = Held(b, h, x, n) \o p
<1> DEFINE b1 == Stored(b, h, x + n, p)
           m  == n + Len(p)
<1>1. /\ KB_BUF_LEN \in Nat \ {0} /\ h \in Nat /\ h < KB_BUF_LEN /\ Len(p) \in Nat
      /\ DOMAIN p = 1..Len(p) /\ DOMAIN b = Slots
  BY KeyboardAssumption DEF Slots
<1>2. \A y \in Slots : At(h + y) = IF h + y < KB_BUF_LEN THEN h + y ELSE h + y - KB_BUF_LEN
  BY AtLemma
<1>3. ASSUME NEW y \in Slots, NEW z \in Slots, At(h + y) = At(h + z) PROVE y = z
  BY <1>1, <1>2, <1>3 DEF Slots
<1>4. ASSUME NEW i \in 1..n + Len(p), NEW j \in 1..Len(p), At(h + x + i - 1) = At(h + (x + n) + j - 1)
      PROVE  i = n + j
  <2>1. x + i - 1 \in Slots /\ x + n + j - 1 \in Slots
    BY <1>1 DEF Slots
  <2>2. At(h + (x + i - 1)) = At(h + (x + n + j - 1))
    <3>1. h + (x + i - 1) = h + x + i - 1 /\ h + (x + n + j - 1) = h + (x + n) + j - 1
      BY <1>1
    <3> QED
      BY <3>1, <1>4
  <2>3. x + i - 1 = x + n + j - 1
    BY <2>1, <2>2, <1>3
  <2> QED
    BY <2>3
<1>5. b1 \in [Slots -> AnyByte]
  <2>1. ASSUME NEW k \in Slots, \E j \in DOMAIN p : k = At(h + (x + n) + j - 1)
        PROVE  p[CHOOSE j \in DOMAIN p : k = At(h + (x + n) + j - 1)] \in AnyByte
    <3>1. (CHOOSE j \in DOMAIN p : k = At(h + (x + n) + j - 1)) \in 1..Len(p)
      BY <1>1, <2>1
    <3> QED
      BY <3>1 DEF AnyByte
  <2> QED
    BY <1>1, <2>1 DEF Stored
<1>6. ASSUME NEW i \in 1..n PROVE b1[At(h + x + i - 1)] = b[At(h + x + i - 1)]
  <2>1. ASSUME NEW j \in 1..Len(p), At(h + x + i - 1) = At(h + (x + n) + j - 1) PROVE FALSE
    <3>1. i \in 1..n + Len(p)
      BY <1>1
    <3>2. i = n + j
      BY <3>1, <2>1, <1>4
    <3> QED
      BY <3>2
  <2>2. At(h + x + i - 1) \in Slots
    <3>1. x + n <= KB_BUF_LEN
      BY <1>1
    <3> QED
      BY <3>1, HeldLemma
  <2> QED
    BY <2>1, <2>2, <1>1 DEF Stored
<1>7. ASSUME NEW j \in 1..Len(p) PROVE b1[At(h + x + (n + j) - 1)] = p[j]
  <2>1. h + x + (n + j) - 1 = h + (x + n) + j - 1
    BY <1>1
  <2>2. At(h + (x + n) + j - 1) \in Slots
    <3>1. x + n + j - 1 \in Slots /\ h + (x + n + j - 1) = h + (x + n) + j - 1
      BY <1>1 DEF Slots
    <3>2. At(h + (x + n + j - 1)) \in Slots
      BY <3>1, AtLemma
    <3> QED
      BY <3>1, <3>2
  <2> DEFINE k == At(h + (x + n) + j - 1)
             q == CHOOSE l \in DOMAIN p : k = At(h + (x + n) + l - 1)
  <2>3. q \in 1..Len(p) /\ k = At(h + (x + n) + q - 1)
    BY <1>1
  <2>4. b1[k] = p[q]
    BY <1>1, <2>2 DEF Stored
  <2> HIDE DEF q
  <2>5. At(h + x + (n + j) - 1) = At(h + (x + n) + q - 1)
    BY <2>1, <2>3
  <2>6. n + j \in 1..n + Len(p)
    BY <1>1
  <2>7. n + j = n + q
    BY <2>3, <2>5, <2>6, <1>4
  <2>8. j = q
    BY <2>7, <2>3
  <2> QED
    BY <2>1, <2>4, <2>8
<1> HIDE DEF b1
<1>8. /\ Held(b1, h, x, m) \in Seq(AnyByte) /\ Len(Held(b1, h, x, m)) = m
      /\ \A i \in 1..m : Held(b1, h, x, m)[i] = b1[At(h + x + i - 1)]
  <2>1. m \in Nat /\ x + m <= KB_BUF_LEN
    BY <1>1
  <2> QED
    BY <2>1, <1>5, HeldLemma
<1> DEFINE C == Held(b, h, x, n)
<1>9. /\ C \in Seq(AnyByte) /\ Len(C) = n
      /\ \A i \in 1..n : C[i] = b[At(h + x + i - 1)]
  <2>1. x + n <= KB_BUF_LEN
    BY <1>1
  <2> QED
    BY <2>1, HeldLemma
<1>10. p \in Seq(AnyByte)
  BY <1>1 DEF AnyByte
<1> HIDE DEF C
<1>11. /\ C \o p \in Seq(AnyByte) /\ Len(C \o p) = m
       /\ \A i \in 1..m : (C \o p)[i] = IF i <= n THEN C[i] ELSE p[i - n]
  BY <1>9, <1>10, ConcatProperties
<1>12. ASSUME NEW i \in 1..m PROVE Held(b1, h, x, m)[i] = (C \o p)[i]
  <2>1. CASE i <= n
    <3>1. i \in 1..n
      BY <2>1, <1>1
    <3>2. (C \o p)[i] = C[i] /\ C[i] = b[At(h + x + i - 1)]
      BY <3>1, <2>1, <1>9, <1>11
    <3>3. Held(b1, h, x, m)[i] = b1[At(h + x + i - 1)]
      BY <1>8
    <3> QED
      BY <3>1, <3>2, <3>3, <1>6
  <2>2. CASE ~(i <= n)
    <3>1. i - n \in 1..Len(p) /\ n + (i - n) = i
      BY <2>2, <1>1
    <3> QED
      BY <3>1, <2>2, <1>7, <1>8, <1>11
  <2> QED
    BY <2>1, <2>2
<1>13. Held(b1, h, x, m) = C \o p
  BY <1>8, <1>11, <1>12, SeqEqual
<1> QED
  BY <1>5, <1>13 DEF b1, C

(* The first byte taken out, and the head moved past it.                   *)
LEMMA GetLemma ==
  ASSUME NEW b \in [Slots -> AnyByte], NEW h \in Slots, NEW n \in Nat,
         n >= 1, n <= KB_BUF_LEN
  PROVE  /\ Held(b, h, 0, n) # << >>
         /\ Head(Held(b, h, 0, n)) = b[h]
         /\ Held(b, h, 1, n - 1) = Tail(Held(b, h, 0, n))
         /\ At(h + 1) \in Slots
         /\ Held(b, At(h + 1), 0, n - 1) = Held(b, h, 1, n - 1)
<1> DEFINE C == Held(b, h, 0, n)
           D == Held(b, h, 1, n - 1)
<1>1. KB_BUF_LEN \in Nat \ {0} /\ h \in Nat /\ h < KB_BUF_LEN /\ n - 1 \in Nat /\ 1 + (n - 1) <= KB_BUF_LEN
  BY KeyboardAssumption DEF Slots
<1>2. C \in Seq(AnyByte) /\ Len(C) = n /\ \A i \in 1..n : C[i] = b[At(h + 0 + i - 1)]
  BY HeldLemma
<1>3. /\ D \in Seq(AnyByte) /\ Len(D) = n - 1
      /\ \A i \in 1..n - 1 : D[i] = b[At(h + 1 + i - 1)]
  <2>1. 1 \in Nat
    OBVIOUS
  <2> HIDE DEF D
  <2>2. PICK k \in Nat : k = n - 1
    BY <1>1
  <2>3. 1 + k <= KB_BUF_LEN
    BY <1>1, <2>2
  <2>4. /\ Held(b, h, 1, k) \in Seq(AnyByte) /\ Len(Held(b, h, 1, k)) = k
        /\ \A i \in 1..k : Held(b, h, 1, k)[i] = b[At(h + 1 + i - 1)]
    BY <2>1, <2>3, HeldLemma
  <2> QED
    BY <2>2, <2>4 DEF D
<1> HIDE DEF C, D
<1>4. At(h + 0 + 1 - 1) = h
  <2>1. 0 \in Slots /\ h + 0 + 1 - 1 = h + 0
    BY <1>1 DEF Slots
  <2> QED
    BY <2>1, <1>1, AtLemma
<1>5. C # << >> /\ Head(C) = b[h]
  BY <1>1, <1>2, <1>4, EmptySeq
<1>6. /\ Tail(C) \in Seq(AnyByte) /\ Len(Tail(C)) = n - 1
      /\ \A i \in 1..n - 1 : Tail(C)[i] = C[i + 1]
  BY <1>2, <1>5, HeadTailProperties
<1>7. ASSUME NEW i \in 1..n - 1 PROVE D[i] = Tail(C)[i]
  <2>1. i + 1 \in 1..n /\ h + 1 + i - 1 = h + 0 + (i + 1) - 1
    BY <1>1
  <2> QED
    BY <2>1, <1>2, <1>3, <1>6
<1>8. D = Tail(C)
  BY <1>3, <1>6, <1>7, SeqEqual
<1>9. At(h + 1) \in Slots /\ At(h + 1) = IF h + 1 < KB_BUF_LEN THEN h + 1 ELSE 0
  <2>1. CASE KB_BUF_LEN = 1
    <3>1. h + 1 = KB_BUF_LEN /\ KB_BUF_LEN % KB_BUF_LEN = 0
      BY <1>1, <2>1
    <3> QED
      BY <1>1, <3>1 DEF At, Slots
  <2>2. CASE KB_BUF_LEN # 1
    <3>1. 1 \in Slots
      BY <1>1, <2>2 DEF Slots
    <3> QED
      BY <1>1, <3>1, AtLemma
  <2> QED
    BY <2>1, <2>2
<1>10. ASSUME NEW i \in 1..n - 1 PROVE At(At(h + 1) + 0 + i - 1) = At(h + 1 + i - 1)
  <2>1. i \in Slots /\ i - 1 \in Slots /\ h + 1 + i - 1 = h + i
    BY <1>1 DEF Slots
  <2>2. At(h + i) = IF h + i < KB_BUF_LEN THEN h + i ELSE h + i - KB_BUF_LEN
    BY <2>1, AtLemma
  <2>3. PICK g \in Slots : g = At(h + 1)
    BY <1>9
  <2>4. At(g + (i - 1)) = IF g + (i - 1) < KB_BUF_LEN THEN g + (i - 1) ELSE g + (i - 1) - KB_BUF_LEN
    BY <2>1, AtLemma
  <2>5. g \in Nat /\ g + 0 + i - 1 = g + (i - 1)
    BY <1>1 DEF Slots
  <2>6. At(g + 0 + i - 1) = At(h + 1 + i - 1)
    BY <1>1, <1>9, <2>1, <2>2, <2>3, <2>4, <2>5
  <2> QED
    BY <2>3, <2>6
<1>11. Held(b, At(h + 1), 0, n - 1) = D
  BY <1>10 DEF Held, D
<1> QED
  BY <1>5, <1>8, <1>9, <1>11 DEF C, D

-----------------------------------------------------------------------------
(* The handler.                                                            *)

(* Adding the next byte on the wire to what was collected.                 *)
LEMMA NextByteLemma ==
  ASSUME NEW c \in Codes, NEW i \in 0..Len(c) - 1
  PROVE  /\ SubSeq(c, i + 1, Len(c)) \in Seq(Byte) /\ SubSeq(c, i + 1, Len(c)) # << >>
         /\ Append(SubSeq(c, From(i) + 1, i), Head(SubSeq(c, i + 1, Len(c)))) = Group(c, i)
         /\ Tail(SubSeq(c, i + 1, Len(c))) = SubSeq(c, i + 2, Len(c))
<1> DEFINE w == SubSeq(c, i + 1, Len(c))
           d == SubSeq(c, From(i) + 1, i)
           g == Group(c, i)
<1>1. /\ c \in Seq(Byte) /\ i \in Nat /\ Len(c) \in Nat /\ i + 1 <= Len(c)
      /\ From(i) \in {0, 3} /\ From(i) <= i
      /\ g \in Seq(Byte) /\ Len(g) = i + 1 - From(i)
      /\ \A j \in 1..i + 1 - From(i) : g[j] = c[From(i) + j]
  BY GroupLemma
<1>2. /\ w \in Seq(Byte) /\ Len(w) = Len(c) - i
      /\ \A j \in 1..Len(c) - i : w[j] = c[i + j]
  <2>1. i + 1 \in 1..Len(c) + 1 /\ Len(c) \in i..Len(c)
    BY <1>1
  <2> QED
    BY <1>1, <2>1, SubSeqProperties
<1>3. /\ d \in Seq(Byte) /\ Len(d) = i - From(i)
      /\ \A j \in 1..i - From(i) : d[j] = c[From(i) + j]
  <2>1. From(i) + 1 \in 1..Len(c) + 1 /\ i \in From(i)..Len(c)
    BY <1>1
  <2> QED
    BY <1>1, <2>1, SubSeqProperties
<1> DEFINE t == SubSeq(c, i + 2, Len(c))
<1>4. /\ t \in Seq(Byte) /\ Len(t) = Len(c) - i - 1
      /\ \A j \in 1..Len(c) - i - 1 : t[j] = c[i + j + 1]
  <2>0. PICK p, q : p = i + 2 /\ q = Len(c)
    OBVIOUS
  <2>1. p \in 1..Len(c) + 1 /\ q \in p - 1..Len(c) /\ q - p + 1 = Len(c) - i - 1
    BY <1>1, <2>0
  <2>2. /\ t = SubSeq(c, p, q) /\ t \in Seq(Byte) /\ Len(t) = q - p + 1
        /\ \A j \in 1..q - p + 1 : t[j] = c[p + j - 1]
    BY <1>1, <2>0, <2>1, SubSeqProperties
  <2>3. \A j \in 1..Len(c) - i - 1 : p + j - 1 = i + j + 1
    BY <1>1, <2>0
  <2> HIDE DEF t
  <2> QED
    BY <2>1, <2>2, <2>3
<1> HIDE DEF w, d, g, t
<1>5. w # << >> /\ Head(w) = c[i + 1] /\ Head(w) \in Byte
  <2>1. w # << >>
    BY <1>1, <1>2
  <2>2. Head(w) = w[1] /\ 1 \in 1..Len(c) - i
    BY <1>1, <1>2, <2>1
  <2> QED
    BY <1>2, <2>1, <2>2, HeadTailProperties
<1>6. Append(d, Head(w)) = g
  <2> DEFINE a == Append(d, Head(w))
  <2>1. /\ a \in Seq(Byte) /\ Len(a) = Len(d) + 1
        /\ \A j \in 1..Len(d) + 1 : a[j] = IF j = Len(d) + 1 THEN Head(w) ELSE d[j]
    BY <1>3, <1>5, AppendProperties
  <2> HIDE DEF a
  <2>2. ASSUME NEW j \in 1..i + 1 - From(i) PROVE a[j] = g[j]
    BY <1>1, <1>3, <1>5, <2>1
  <2>3. Len(a) = Len(g)
    BY <1>1, <1>3, <2>1
  <2>4. a = g
    BY <1>1, <2>1, <2>2, <2>3, SeqEqual
  <2> QED
    BY <2>4 DEF a
<1>7. Tail(w) = t
  <2>1. /\ Tail(w) \in Seq(Byte) /\ Len(Tail(w)) = Len(w) - 1
        /\ \A j \in 1..Len(w) - 1 : Tail(w)[j] = w[j + 1]
    BY <1>2, <1>5, HeadTailProperties
  <2>2. ASSUME NEW j \in 1..Len(c) - i - 1 PROVE Tail(w)[j] = t[j]
    <3>1. j + 1 \in 1..Len(c) - i /\ i + (j + 1) = i + j + 1
      BY <1>1
    <3> QED
      BY <3>1, <1>2, <1>4, <2>1
  <2>3. Len(Tail(w)) = Len(t)
    BY <1>1, <1>2, <1>4, <2>1
  <2> QED
    BY <1>4, <2>1, <2>2, <2>3, SeqEqual
<1> QED
  BY <1>2, <1>5, <1>6, <1>7 DEF w, d, g, t

Chunk == UNION {{SubSeq(c, i, j) : i, j \in DOMAIN c} : c \in Codes}

(* What FetchByte does with the bytes p that are collected now.            *)
Fetched(p) ==
  /\ partial' = IF Waits(p) THEN p ELSE << >>
  /\ \/ /\ ~Waits(p) /\ Fits(p)
        /\ kb_buffer' = Stored(kb_buffer, kb_buf_head, kb_buf_count, p)
        /\ kb_buf_count' = kb_buf_count + Len(p)
        /\ raced' = (raced \/ Races) /\ cut' = (cut \/ Cuts(p))
     \/ /\ ~(~Waits(p) /\ Fits(p))
        /\ UNCHANGED <<kb_buffer, kb_buf_count>>
        /\ raced' = raced /\ cut' = cut

(* No more than two bytes are kept while the handler waits.                *)
LEMMA WaitsLemma ==
  ASSUME NEW p \in Seq(Byte), Waits(p)
  PROVE  Len(p) < 3
<1>1. PICK n \in Nat : n = Len(p)
  OBVIOUS
<1>2. n = 1 \/ n = 2
  BY <1>1 DEF Waits
<1>3. n < 3
  BY <1>2
<1> QED
  BY <1>1, <1>3

(* The handler that is about to fetch a byte finds one, and what it then   *)
(* does is what Fetched says of the bytes collected so far.                *)
LEMMA FetchLemma ==
  ASSUME TypeInv, LineInv, WireInv, FetchByte
  PROVE  \E p \in Seq(Byte) :
           /\ Fetched(p) /\ p \in Chunk /\ Len(p) \in 1..3 /\ (Waits(p) => Len(p) < 3)
           /\ ~Waits(p) => Cuts(p) \/ Tidy(p)
           /\ wire' \in Seq(Byte) /\ WireInv'
<1>1. wire # << >>
  BY DEF FetchByte, LineInv
<1>0. PICK c \in Codes : \E i \in 0..Len(c) - 1 : InCode(c, i)
  BY <1>1 DEF WireInv
<1>2. PICK i \in 0..Len(c) - 1 : InCode(c, i)
  BY <1>0
<1> DEFINE p == Group(c, i)
<1>3. /\ c \in Seq(Byte) /\ Len(c) \in Nat /\ i \in Nat /\ i + 1 <= Len(c)
      /\ From(i) \in {0, 3} /\ From(i) <= i
      /\ p \in Seq(Byte) /\ Len(p) = i + 1 - From(i)
  BY GroupLemma
<1>4. /\ Len(p) \in 1..3
      /\ Waits(p) <=> i + 1 # Len(c) /\ i + 1 # 3
      /\ ~Waits(p) => Cuts(p) \/ Tidy(p)
  BY CodeLemma
<1>5. p = Append(partial, Head(wire)) /\ Tail(wire) = SubSeq(c, i + 2, Len(c))
  BY <1>2, NextByteLemma DEF InCode
<1>6. p \in Chunk
  <2>1. From(i) + 1 \in DOMAIN c /\ i + 1 \in DOMAIN c
    BY <1>3
  <2>2. p = SubSeq(c, From(i) + 1, i + 1)
    BY DEF Group
  <2> HIDE DEF p
  <2>3. p \in {SubSeq(c, x, y) : x, y \in DOMAIN c}
    <3>1. PICK a \in DOMAIN c : a = From(i) + 1
      BY <2>1
    <3>2. PICK b \in DOMAIN c : b = i + 1
      BY <2>1
    <3>3. p = SubSeq(c, a, b)
      BY <2>2, <3>1, <3>2
    <3> QED
      BY <3>3
  <2> QED
    BY <2>3, SMT DEF Chunk
<1>7. p = SubSeq(c, From(i) + 1, i + 1)
  BY DEF Group
<1> HIDE DEF p
<1>8. partial' = (IF Waits(p) THEN p ELSE << >>) /\ wire' = Tail(wire)
  BY <1>5 DEF FetchByte
<1>9. Fetched(p)
  <2>1. CASE ~Waits(p) /\ Fits(p)
    <3>1. /\ kb_buffer' = Stored(kb_buffer, kb_buf_head, kb_buf_count, p)
          /\ kb_buf_count' = kb_buf_count + Len(p)
      BY <1>5, <2>1, Zenon DEF FetchByte, Stored
    <3>2. raced' = (raced \/ Races) /\ cut' = (cut \/ Cuts(p))
      BY <1>5, <2>1, Zenon DEF FetchByte
    <3> QED
      BY <2>1, <3>1, <3>2, <1>8 DEF Fetched
  <2>2. CASE ~(~Waits(p) /\ Fits(p))
    <3>1. UNCHANGED <<kb_buffer, kb_buf_count>>
      BY <1>5, <2>2, Zenon DEF FetchByte
    <3>2. raced' = (raced \/ FALSE) /\ cut' = (cut \/ FALSE)
      BY <1>5, <2>2, Zenon DEF FetchByte
    <3>3. raced' = raced /\ cut' = cut
      BY <3>2, Zenon DEF TypeInv
    <3> QED
      BY <2>2, <3>1, <3>3, <1>8 DEF Fetched
  <2> QED
    BY <2>1, <2>2
<1>10. Waits(p) => Len(p) < 3
  BY <1>3, WaitsLemma
<1>11. wire' \in Seq(Byte)
  BY <1>1, <1>8, HeadTailProperties DEF TypeInv
<1>12. WireInv'
  <2>1. CASE Waits(p)
    <3>1. i + 1 \in 0..Len(c) - 1 /\ From(i + 1) = From(i) /\ i + 1 + 1 = i + 2
      BY <1>3, <1>4, <2>1 DEF From
    <3>2. /\ wire' = SubSeq(c, (i + 1) + 1, Len(c))
          /\ partial' = SubSeq(c, From(i + 1) + 1, i + 1)
      BY <3>1, <2>1, <1>5, <1>7, <1>8
    <3>3. InCode(c, i + 1)'
      BY <3>2 DEF InCode
    <3> QED
      BY <3>1, <3>3 DEF WireInv
  <2>2. CASE ~Waits(p) /\ i + 1 = Len(c)
    <3>1. SubSeq(c, i + 2, Len(c)) = << >>
      BY <1>3, <2>2
    <3> QED
      BY <3>1, <2>2, <1>5, <1>8 DEF WireInv
  <2>3. CASE ~Waits(p) /\ i + 1 # Len(c)
    <3>1. i + 1 = 3 /\ 3 \in 0..Len(c) - 1 /\ From(3) = 3
      BY <1>3, <1>4, <2>3 DEF From
    <3>2. SubSeq(c, 4, 3) = << >>
      BY <1>3
    <3>3. wire' = SubSeq(c, 3 + 1, Len(c)) /\ partial' = SubSeq(c, From(3) + 1, 3)
      BY <3>1, <3>2, <2>3, <1>5, <1>8
    <3>4. InCode(c, 3)'
      BY <3>3 DEF InCode
    <3> QED
      BY <3>1, <3>4 DEF WireInv
  <2> QED
    BY <2>1, <2>2, <2>3
<1> QED
  BY <1>3, <1>4, <1>6, <1>9, <1>10, <1>11, <1>12

-----------------------------------------------------------------------------
(* Invariance.                                                             *)

(* The state that kb_init leaves satisfies the invariant.                  *)
THEOREM InitInv == Init => IInv
<1> SUFFICES ASSUME Init PROVE IInv
  OBVIOUS
<1> USE DEF Init
<1>1. KB_BUF_LEN \in Nat \ {0} /\ 0 \in 0..KB_BUF_LEN - 1 /\ 0 \in 0..KB_BUF_LEN
  BY KeyboardAssumption
<1>2. TypeInv
  <2>1. ItrTypeOK
    BY DEF ItrTypeOK
  <2>2. kb_buffer \in [0..KB_BUF_LEN - 1 -> Byte \cup {NoByte}]
    OBVIOUS
  <2>3. << >> \in Seq(Byte) /\ Len(<< >>) < 3
    OBVIOUS
  <2> QED
    BY <1>1, <2>1, <2>2, <2>3 DEF TypeInv, TypeOK
<1>3. LineInv /\ CountInv /\ WireInv
  BY DEF LineInv, CountInv, WireInv
<1>4. PrefixKept
  <2>1. Contents = [i \in 1..0 |-> kb_buffer[At(kb_buf_head + i - 1)]]
    BY DEF Contents, Races
  <2>2. DOMAIN Contents = {}
    BY <2>1
  <2> QED
    BY <2>2 DEF PrefixKept
<1> QED
  BY <1>2, <1>3, <1>4 DEF IInv

(* Each step keeps the types.                                              *)
LEMMA TypeStep ==
  ASSUME TypeInv, LineInv, CountInv, WireInv, [Next]_vars
  PROVE  TypeInv'
<1>1. KB_BUF_LEN \in Nat \ {0} /\ Irqs = {Kb} /\ Codes \subseteq Seq(Byte)
  BY KeyboardAssumption
<1>2. ASSUME NEW c \in Codes, Press(c) PROVE TypeInv'
  BY <1>1, <1>2 DEF Press, TypeInv, TypeOK, ItrTypeOK, itrVars, bufVars, threadVars, flaws
<1>3. CASE Deliver
  BY <1>1, <1>3 DEF Deliver, Rise, TypeInv, TypeOK, ItrTypeOK, bufVars, threadVars, flaws
<1>4. CASE Enter
  BY <1>1, <1>4 DEF Enter, TakeInterrupt, TypeInv, TypeOK, ItrTypeOK, bufVars, threadVars, flaws
<1>5. CASE FetchByte
  <2>1. PICK p \in Seq(Byte) :
           /\ Fetched(p) /\ (Waits(p) => Len(p) < 3) /\ Len(p) \in 1..3 /\ wire' \in Seq(Byte)
    BY <1>5, FetchLemma
  <2>2. /\ kb_buffer \in [Slots -> AnyByte] /\ kb_buf_head \in Slots
        /\ kb_buf_count \in 0..KB_BUF_LEN
    BY DEF TypeInv, TypeOK, Slots, AnyByte
  <2>3. kb_buffer' \in [Slots -> AnyByte] /\ kb_buf_count' \in 0..KB_BUF_LEN
    <3>1. CASE /\ Fits(p)
               /\ kb_buffer' = Stored(kb_buffer, kb_buf_head, kb_buf_count, p)
               /\ kb_buf_count' = kb_buf_count + Len(p)
      <4>1. kb_buf_count \in Nat /\ 0 \in Nat /\ 0 + kb_buf_count = kb_buf_count
        BY <1>1, <2>2
      <4>2. kb_buf_count + Len(p) <= KB_BUF_LEN
        BY <3>1 DEF Fits
      <4>3. Stored(kb_buffer, kb_buf_head, 0 + kb_buf_count, p) \in [Slots -> AnyByte]
        BY <2>2, <4>1, <4>2, PutLemma
      <4>4. kb_buf_count + Len(p) \in 0..KB_BUF_LEN
        BY <1>1, <2>1, <2>2, <4>2
      <4> QED
        BY <3>1, <4>1, <4>3, <4>4
    <3>2. CASE UNCHANGED <<kb_buffer, kb_buf_count>>
      BY <3>2, <2>2
    <3> QED
      BY <3>1, <3>2, <2>1 DEF Fetched
  <2>4. partial' \in Seq(Byte) /\ Len(partial') < 3
    BY <2>1 DEF Fetched
  <2>5. raced' \in BOOLEAN /\ cut' \in BOOLEAN
    BY <2>1 DEF Fetched, Races, Cuts, TypeInv
  <2>6. /\ hpc' = "eoi" /\ full' = FALSE /\ UNCHANGED <<itrVars, kb_buf_head, threadVars>>
    BY <1>5 DEF FetchByte
  <2>7. TypeOK'
    BY <2>3, <2>4, <2>6 DEF TypeInv, TypeOK, ItrTypeOK, itrVars, threadVars, Slots, AnyByte
  <2> QED
    BY <2>1, <2>5, <2>6, <2>7 DEF TypeInv, threadVars
<1>6. CASE Leave
  BY <1>1, <1>6 DEF Leave, pic_send_eoi, LeaveInterrupt, TypeInv, TypeOK, ItrTypeOK, bufVars,
     threadVars, flaws
<1>7. CASE ScanCode \/ Test
  BY <1>7 DEF ScanCode, Test, Thread, Stays, TypeInv, TypeOK, ItrTypeOK, itrVars, bufVars, flaws
<1>8. CASE Take
  BY <1>8 DEF Take, Thread, Stays, TypeInv, TypeOK, ItrTypeOK, itrVars, bufVars, flaws
<1>9. CASE Advance
  <2>1. kb_buf_head' \in 0..KB_BUF_LEN - 1
    <3>1. kb_buf_head + 1 \in Nat
      BY DEF TypeInv, TypeOK
    <3>2. (kb_buf_head + 1) % KB_BUF_LEN \in 0..KB_BUF_LEN - 1
      BY <1>1, <3>1
    <3> QED
      BY <1>9, <3>2 DEF Advance, At
  <2> QED
    BY <1>9, <2>1 DEF Advance, Thread, Stays, TypeInv, TypeOK, ItrTypeOK, itrVars, flaws
<1>10. CASE Load
  BY <1>10 DEF Load, Thread, Stays, TypeInv, TypeOK, ItrTypeOK, itrVars, bufVars, flaws
<1>11. CASE Store
  <2>1. loaded - 1 \in 0..KB_BUF_LEN
    BY <1>1, <1>11 DEF Store, Thread, CountInv, TypeInv, TypeOK
  <2>2. 0 \in 0..KB_BUF_LEN
    BY <1>1
  <2> QED
    BY <1>11, <2>1, <2>2 DEF Store, Thread, Stays, TypeInv, TypeOK, ItrTypeOK, itrVars, flaws
<1>12. CASE UNCHANGED vars
  BY <1>12 DEF vars, itrVars, bufVars, threadVars, flaws, TypeInv, TypeOK, ItrTypeOK
<1> QED
  BY <1>2, <1>3, <1>4, <1>5, <1>6, <1>7, <1>8, <1>9, <1>10, <1>11, <1>12
  DEF Next, Handler, Reader

(* Each step keeps the line and the handler together.                      *)
LEMMA LineStep ==
  ASSUME TypeInv, LineInv, [Next]_vars
  PROVE  LineInv'
<1> USE DEF LineInv
<1>1. ASSUME NEW c \in Codes, Press(c) PROVE LineInv'
  <2>1. c # << >>
    BY KeyboardAssumption
  <2> QED
    BY <1>1, <2>1 DEF Press, itrVars
<1>2. CASE Deliver
  BY <1>2 DEF Deliver, Rise
<1>3. CASE Enter
  <2>1. irr' = {}
    BY <1>3, KeyboardAssumption DEF Enter, TakeInterrupt, TypeInv, TypeOK, ItrTypeOK
  <2> QED
    BY <1>3, <2>1 DEF Enter, TakeInterrupt
<1>4. CASE FetchByte
  BY <1>4 DEF FetchByte, itrVars
<1>5. CASE Leave
  BY <1>5 DEF Leave, pic_send_eoi
<1>6. CASE ScanCode \/ Reader
  BY <1>6 DEF ScanCode, Reader, Test, Take, Advance, Load, Store, Thread, Stays, itrVars
<1>7. CASE UNCHANGED vars
  BY <1>7 DEF vars, itrVars
<1> QED
  BY <1>1, <1>2, <1>3, <1>4, <1>5, <1>6, <1>7 DEF Next, Handler

(* Each step keeps what is known of the count: while the reader is on its  *)
(* way from the test to the last update, the handler only adds to it.      *)
LEMMA CountStep ==
  ASSUME TypeInv, LineInv, CountInv, WireInv, [Next]_vars
  PROVE  CountInv'
<1>1. ASSUME NEW c \in Codes, Press(c) PROVE CountInv'
  BY <1>1 DEF Press, CountInv, bufVars, threadVars, flaws
<1>2. CASE Deliver \/ Enter \/ Leave
  BY <1>2 DEF Deliver, Enter, Leave, CountInv, bufVars, threadVars, flaws
<1>3. CASE FetchByte
  <2>1. PICK p \in Seq(Byte) : Fetched(p) /\ Len(p) \in 1..3
    BY <1>3, FetchLemma
  <2>2. UNCHANGED <<kpc, loaded>>
    BY <1>3 DEF FetchByte, threadVars
  <2>3. kb_buf_count \in Nat /\ Len(p) \in Nat
    BY <2>1 DEF TypeInv, TypeOK
  <2>4. CASE /\ kb_buf_count' = kb_buf_count + Len(p) /\ raced' = (raced \/ Races)
    <3>1. kb_buf_count >= 1 => kb_buf_count' >= 1
      BY <2>3, <2>4
    <3>2. kpc' = "store" => raced'
      BY <2>2, <2>4, Zenon DEF Races
    <3> QED
      BY <2>2, <3>1, <3>2 DEF CountInv
  <2>5. CASE kb_buf_count' = kb_buf_count /\ raced' = raced
    BY <2>2, <2>5 DEF CountInv
  <2> QED
    BY <2>1, <2>4, <2>5 DEF Fetched
<1>4. CASE ScanCode
  BY <1>4 DEF ScanCode, Thread, Stays, CountInv, bufVars, flaws
<1>5. CASE Test
  <2>1. kb_buf_count # 0 => kb_buf_count >= 1
    BY DEF TypeInv, TypeOK
  <2> QED
    BY <1>5, <2>1 DEF Test, Thread, Stays, CountInv, bufVars, flaws
<1>6. CASE Take \/ Advance \/ Load
  BY <1>6 DEF Take, Advance, Load, Thread, Stays, CountInv, bufVars, flaws
<1>7. CASE Store
  BY <1>7 DEF Store, Thread, Stays, CountInv, flaws
<1>8. CASE UNCHANGED vars
  BY <1>8 DEF vars, bufVars, threadVars, flaws, CountInv
<1> QED
  BY <1>1, <1>2, <1>3, <1>4, <1>5, <1>6, <1>7, <1>8 DEF Next, Handler, Reader

(* A code that is on its way stays one.                                    *)
LEMMA WireStep ==
  ASSUME TypeInv, LineInv, WireInv, [Next]_vars
  PROVE  WireInv'
<1>1. ASSUME NEW c \in Codes, Press(c) PROVE WireInv'
  <2>1. partial = << >>
    <3>1. ASSUME NEW d \in Codes, NEW i \in 0..Len(d) - 1, InCode(d, i) PROVE FALSE
      BY <1>1, <3>1, NextByteLemma DEF Press, InCode
    <3> QED
      BY <3>1 DEF WireInv
  <2>2. c \in Seq(Byte) /\ c # << >> /\ Len(c) \in Nat
    BY KeyboardAssumption
  <2>3. 0 \in 0..Len(c) - 1 /\ From(0) = 0
    BY <2>2 DEF From
  <2>4. c = SubSeq(c, 0 + 1, Len(c)) /\ << >> = SubSeq(c, From(0) + 1, 0)
    BY <2>2, <2>3
  <2>5. InCode(c, 0)'
    BY <1>1, <2>1, <2>4 DEF Press, InCode
  <2> QED
    BY <2>3, <2>5 DEF WireInv
<1>2. CASE FetchByte
  BY <1>2, FetchLemma
<1>3. CASE UNCHANGED <<wire, partial>>
  BY <1>3 DEF WireInv, InCode
<1>4. Deliver \/ Enter \/ Leave \/ ScanCode \/ Reader \/ UNCHANGED vars => UNCHANGED <<wire, partial>>
  BY DEF Deliver, Enter, Leave, ScanCode, Reader, Test, Take, Advance, Load, Store, Stays, vars
<1> QED
  BY <1>1, <1>2, <1>3, <1>4 DEF Next, Handler

(* The bytes in the buffer are a sequence that stands in it from the head  *)
(* on, or from the next place on.                                          *)
Start == IF kpc = "head" THEN 1 ELSE 0
Left == kb_buf_count - (IF kpc = "head" \/ Races THEN 1 ELSE 0)

(* That sequence, by its bounds and its length.                            *)
LEMMA ContentsLemma ==
  ASSUME TypeInv, CountInv
  PROVE  /\ kb_buffer \in [Slots -> AnyByte] /\ kb_buf_head \in Slots
         /\ Start \in Nat /\ Left \in Nat /\ Start + Left <= KB_BUF_LEN
         /\ Left <= kb_buf_count
         /\ Contents = Held(kb_buffer, kb_buf_head, Start, Left)
         /\ Contents \in Seq(AnyByte) /\ Len(Contents) = Left
<1>1. /\ kb_buffer \in [Slots -> AnyByte] /\ kb_buf_head \in Slots /\ kb_buf_head \in Nat
      /\ KB_BUF_LEN \in Nat \ {0} /\ kb_buf_count \in 0..KB_BUF_LEN
  BY KeyboardAssumption DEF TypeInv, TypeOK, Slots, AnyByte
<1>2. Start \in Nat /\ Left \in Nat /\ Start + Left <= KB_BUF_LEN /\ Left <= kb_buf_count
  BY <1>1 DEF Start, Left, CountInv, Races
<1>3. Contents = Held(kb_buffer, kb_buf_head, Start, Left)
  <2>1. ASSUME NEW i \in 1..Left
        PROVE  kb_buf_head + i - (IF kpc = "head" THEN 0 ELSE 1) = kb_buf_head + Start + i - 1
    BY <1>1, <1>2 DEF Start
  <2>2. Contents = [i \in 1..Left |-> kb_buffer[At(kb_buf_head + i - (IF kpc = "head" THEN 0 ELSE 1))]]
    BY DEF Contents, Left
  <2> QED
    BY <2>1, <2>2 DEF Held
<1> QED
  BY <1>1, <1>2, <1>3, HeldLemma

(* A prefix is not parted from its byte where two tidy sequences meet,     *)
(* nor when the first byte of one is taken.                                *)
LEMMA TidyLemma ==
  ASSUME NEW s \in Seq(AnyByte), Tidy(s)
  PROVE  /\ s # << >> => Tidy(Tail(s))
         /\ \A p \in Seq(Byte) : Tidy(p) => Tidy(s \o p)
<1>0. PICK n \in Nat : n = Len(s) /\ DOMAIN s = 1..n
  OBVIOUS
<1>1. ASSUME s # << >> PROVE Tidy(Tail(s))
  <2>1. /\ n >= 1 /\ Tail(s) \in Seq(AnyByte) /\ Len(Tail(s)) = n - 1
        /\ \A j \in 1..n - 1 : Tail(s)[j] = s[j + 1]
    BY <1>0, <1>1, HeadTailProperties
  <2> DEFINE t == Tail(s)
  <2> HIDE DEF t
  <2>2. DOMAIN t = 1..n - 1
    BY <2>1 DEF t
  <2>3. ASSUME NEW j \in 1..n - 1, t[j] = "e0" PROVE j < n - 1 /\ t[j + 1] # "e0"
    <3>1. j + 1 \in 1..n /\ s[j + 1] = "e0"
      BY <2>1, <2>3 DEF t
    <3>2. j + 1 < n /\ s[j + 1 + 1] # "e0"
      BY <3>1, <1>0 DEF Tidy
    <3>3. j + 1 \in 1..n - 1
      BY <3>2
    <3> QED
      BY <2>1, <3>2, <3>3 DEF t
  <2> QED
    BY <2>1, <2>2, <2>3 DEF Tidy, t
<1>2. ASSUME NEW p \in Seq(Byte), Tidy(p) PROVE Tidy(s \o p)
  <2>0. PICK m \in Nat : m = Len(p) /\ DOMAIN p = 1..m
    OBVIOUS
  <2>1. p \in Seq(AnyByte)
    BY <2>0 DEF AnyByte
  <2> DEFINE t == s \o p
  <2>2. /\ t \in Seq(AnyByte) /\ Len(t) = n + m
        /\ \A j \in 1..n + m : t[j] = IF j <= n THEN s[j] ELSE p[j - n]
    BY <1>0, <2>0, <2>1, ConcatProperties
  <2> HIDE DEF t
  <2>3. DOMAIN t = 1..n + m
    BY <2>2
  <2>4. ASSUME NEW j \in 1..n + m, t[j] = "e0" PROVE j < n + m /\ t[j + 1] # "e0"
    <3>1. CASE j <= n
      <4>1. j \in 1..n /\ s[j] = "e0"
        BY <3>1, <2>2, <2>4
      <4>2. j < n /\ s[j + 1] # "e0"
        BY <4>1, <1>0 DEF Tidy
      <4>3. j + 1 \in 1..n + m /\ j + 1 <= n /\ j < n + m
        BY <4>1, <4>2
      <4> QED
        BY <2>2, <4>2, <4>3
    <3>2. CASE ~(j <= n)
      <4>1. j - n \in 1..m /\ p[j - n] = "e0"
        BY <3>2, <2>2, <2>4
      <4>2. j - n < m /\ p[j - n + 1] # "e0"
        BY <4>1, <2>0, <1>2 DEF Tidy
      <4>3. j + 1 \in 1..n + m /\ ~(j + 1 <= n) /\ j < n + m /\ j + 1 - n = j - n + 1
        BY <3>2, <4>1, <4>2
      <4> QED
        BY <2>2, <4>2, <4>3
    <3> QED
      BY <3>1, <3>2
  <2> QED
    BY <2>2, <2>3, <2>4 DEF Tidy, t
<1> QED
  BY <1>1, <1>2

(* What a step does to the bytes in the buffer, as long as the handler has *)
(* not stored between the reader's two updates.                            *)
Puts(p) ==
  /\ Len(Contents) + Len(p) <= KB_BUF_LEN /\ Contents' = Contents \o p /\ buf' = buf
  /\ cut' = FALSE => Tidy(p)
Gets == Contents # << >> /\ Contents' = Tail(Contents) /\ buf' = Head(Contents)

(* Every step puts a chunk at its end, takes its first byte, or leaves it. *)
LEMMA ContentsStep ==
  ASSUME IInv, [Next]_vars, raced' = FALSE
  PROVE  /\ raced = FALSE
         /\ cut' = FALSE => cut = FALSE
         /\ \/ \E p \in Seq(Byte) : p \in Chunk /\ Puts(p)
            \/ Gets
            \/ UNCHANGED <<Contents, buf>>
<1> USE DEF IInv
<1>0. /\ kb_buffer \in [Slots -> AnyByte] /\ kb_buf_head \in Slots
      /\ Start \in Nat /\ Left \in Nat /\ Start + Left <= KB_BUF_LEN /\ Left <= kb_buf_count
      /\ Contents = Held(kb_buffer, kb_buf_head, Start, Left)
      /\ Contents \in Seq(AnyByte) /\ Len(Contents) = Left
      /\ kb_buf_count \in Nat /\ kb_buf_count <= KB_BUF_LEN /\ KB_BUF_LEN \in Nat
      /\ raced \in BOOLEAN /\ cut \in BOOLEAN
  BY ContentsLemma, KeyboardAssumption DEF TypeInv, TypeOK
<1> DEFINE Goal ==
      /\ raced = FALSE
      /\ cut' = FALSE => cut = FALSE
      /\ \/ \E p \in Seq(Byte) : p \in Chunk /\ Puts(p)
         \/ Gets
         \/ UNCHANGED <<Contents, buf>>
<1>1. CASE FetchByte
  <2>1. PICK p \in Seq(Byte) :
          /\ Fetched(p) /\ p \in Chunk /\ Len(p) \in 1..3
          /\ ~Waits(p) => Cuts(p) \/ Tidy(p)
    BY <1>1, FetchLemma
  <2>2. UNCHANGED <<kb_buf_head, kpc, buf>>
    BY <1>1 DEF FetchByte, threadVars
  <2>3. CASE /\ ~Waits(p) /\ Fits(p)
             /\ kb_buffer' = Stored(kb_buffer, kb_buf_head, kb_buf_count, p)
             /\ kb_buf_count' = kb_buf_count + Len(p)
             /\ raced' = (raced \/ Races) /\ cut' = (cut \/ Cuts(p))
    <3>1. raced = FALSE /\ ~Races
      BY <2>3, <1>0, Zenon
    <3>2. cut' = FALSE => cut = FALSE /\ ~Cuts(p)
      BY <2>3, <1>0, Zenon
    <3>3. Start + Left = kb_buf_count
      BY <1>0, <3>1 DEF Start, Left
    <3>4. kb_buf_count + Len(p) <= KB_BUF_LEN
      BY <2>3 DEF Fits
    <3>5. Contents' = Held(kb_buffer', kb_buf_head, Start, Left + Len(p))
      <4>1. kpc' = kpc /\ kpc \notin {"load", "store"}
        BY <2>2, <3>1 DEF Races
      <4>2. kpc = "head" => Contents' = [i \in 1..kb_buf_count' - 1 |-> kb_buffer'[At(kb_buf_head' + i - 0)]]
        BY <4>1 DEF Contents, Races
      <4>3. kpc # "head" => Contents' = [i \in 1..kb_buf_count' - 0 |-> kb_buffer'[At(kb_buf_head' + i - 1)]]
        BY <4>1 DEF Contents, Races
      <4>4. Len(p) \in Nat /\ kb_buf_head \in Nat
        BY <1>0 DEF Slots
      <4>5. CASE kpc = "head"
        <5>1. Start = 1 /\ Left = kb_buf_count - 1
          BY <4>5 DEF Start, Left
        <5>2. kb_buf_count' - 1 = Left + Len(p)
          BY <1>0, <2>3, <4>4, <5>1
        <5>3. \A i \in 1..Left + Len(p) : kb_buf_head + i - 0 = kb_buf_head + 1 + i - 1
          BY <4>4
        <5> QED
          BY <4>2, <4>5, <5>1, <5>2, <5>3, <2>2 DEF Held
      <4>6. CASE kpc # "head"
        <5>1. Start = 0 /\ Left = kb_buf_count
          BY <1>0, <4>6, <3>1 DEF Start, Left
        <5>2. kb_buf_count' - 0 = Left + Len(p)
          BY <1>0, <2>3, <4>4, <5>1
        <5>3. \A i \in 1..Left + Len(p) : kb_buf_head + i - 1 = kb_buf_head + 0 + i - 1
          BY <4>4
        <5> QED
          BY <4>3, <4>6, <5>1, <5>2, <5>3, <2>2 DEF Held
      <4> QED
        BY <4>5, <4>6
    <3>6. Held(Stored(kb_buffer, kb_buf_head, Start + Left, p), kb_buf_head, Start, Left + Len(p))
            = Held(kb_buffer, kb_buf_head, Start, Left) \o p
      <4>1. Start + Left + Len(p) <= KB_BUF_LEN
        BY <3>3, <3>4
      <4>2. PICK x \in Nat : x = Start
        BY <1>0
      <4>3. PICK n \in Nat : n = Left
        BY <1>0
      <4>4. x + n + Len(p) <= KB_BUF_LEN
        BY <4>1, <4>2, <4>3
      <4>5. Held(Stored(kb_buffer, kb_buf_head, x + n, p), kb_buf_head, x, n + Len(p))
              = Held(kb_buffer, kb_buf_head, x, n) \o p
        BY <1>0, <4>4, PutLemma
      <4> QED
        BY <4>2, <4>3, <4>5
    <3>7. Contents' = Contents \o p
      BY <1>0, <2>3, <3>3, <3>5, <3>6
    <3>8. Len(Contents) + Len(p) <= KB_BUF_LEN
      BY <1>0, <3>4
    <3>9. Puts(p)
      BY <2>1, <2>2, <2>3, <3>2, <3>7, <3>8 DEF Puts
    <3> QED
      BY <2>1, <3>1, <3>2, <3>9
  <2>4. CASE UNCHANGED <<kb_buffer, kb_buf_count>> /\ raced' = raced /\ cut' = cut
    <3>1. UNCHANGED <<Contents, buf>>
      BY <2>2, <2>4 DEF Contents, Races
    <3> QED
      BY <2>4, <3>1
  <2> QED
    BY <2>1, <2>3, <2>4 DEF Fetched
<1>2. CASE Take
  <2>1. /\ kpc = "take" /\ kpc' = "head" /\ buf' = kb_buffer[kb_buf_head]
        /\ UNCHANGED <<bufVars, raced, cut>>
    BY <1>2 DEF Take, Thread, Stays, flaws
  <2>2. Start = 0 /\ Left = kb_buf_count /\ kb_buf_count >= 1
    BY <1>0, <2>1 DEF Start, Left, Races, CountInv
  <2>3. Contents' = Held(kb_buffer, kb_buf_head, 1, kb_buf_count - 1)
    <3>1. Contents' = [i \in 1..kb_buf_count - 1 |-> kb_buffer[At(kb_buf_head + i - 0)]]
      BY <2>1 DEF Contents, bufVars
    <3>2. \A i \in 1..kb_buf_count - 1 : kb_buf_head + i - 0 = kb_buf_head + 1 + i - 1
      BY <1>0 DEF Slots
    <3> QED
      BY <3>1, <3>2 DEF Held
  <2>4. Gets
    BY <1>0, <2>1, <2>2, <2>3, GetLemma DEF Gets
  <2> QED
    BY <2>1, <2>4
<1>3. CASE Advance
  <2>1. /\ kpc = "head" /\ kpc' = "load" /\ kb_buf_head' = At(kb_buf_head + 1)
        /\ UNCHANGED <<kb_buffer, kb_buf_count, buf, raced, cut>>
    BY <1>3 DEF Advance, Thread, Stays, flaws
  <2>2. Start = 1 /\ Left = kb_buf_count - 1 /\ kb_buf_count >= 1
    BY <1>0, <2>1 DEF Start, Left, Races, CountInv
  <2>3. Contents' = Held(kb_buffer, At(kb_buf_head + 1), 0, kb_buf_count - 1)
    <3>1. Contents' = [i \in 1..kb_buf_count - 1 |-> kb_buffer[At(At(kb_buf_head + 1) + i - 1)]]
      BY <2>1 DEF Contents, Races
    <3>2. At(kb_buf_head + 1) \in Nat
      BY <1>0, <2>2, GetLemma DEF Slots
    <3>3. \A i \in 1..kb_buf_count - 1 :
            At(kb_buf_head + 1) + i - 1 = At(kb_buf_head + 1) + 0 + i - 1
      BY <1>0, <3>2
    <3> QED
      BY <3>1, <3>3 DEF Held
  <2>4. Contents' = Contents
    BY <1>0, <2>2, <2>3, GetLemma
  <2> QED
    BY <2>1, <2>4
<1>4. CASE Load
  BY <1>4 DEF Load, Thread, Stays, flaws, bufVars, Contents, Races
<1>5. CASE Store
  <2>1. /\ kpc = "store" /\ kpc' = "idle" /\ kb_buf_count' = loaded - 1
        /\ UNCHANGED <<kb_buffer, kb_buf_head, buf, raced, cut>>
    BY <1>5 DEF Store, Thread, Stays, flaws
  <2>2. loaded = kb_buf_count
    BY <1>0, <2>1 DEF CountInv
  <2>3. Contents' = [i \in 1..(kb_buf_count - 1) - 0 |-> kb_buffer[At(kb_buf_head + i - 1)]]
    BY <2>1, <2>2 DEF Contents, Races
  <2>4. Contents = [i \in 1..kb_buf_count - 1 |-> kb_buffer[At(kb_buf_head + i - 1)]]
    BY <2>1 DEF Contents, Races
  <2>5. (kb_buf_count - 1) - 0 = kb_buf_count - 1
    BY <1>0
  <2> QED
    BY <2>1, <2>3, <2>4, <2>5
<1>6. CASE ScanCode \/ Test
  BY <1>6 DEF ScanCode, Test, Thread, Stays, flaws, bufVars, Contents, Races
<1>7. CASE (\E c \in Codes : Press(c)) \/ Deliver \/ Enter \/ Leave \/ UNCHANGED vars
  <2>1. UNCHANGED <<bufVars, threadVars, flaws>>
    BY <1>7 DEF Press, Deliver, Enter, Leave, vars
  <2> QED
    BY <2>1 DEF bufVars, threadVars, flaws, Contents, Races
<1> QED
  BY <1>1, <1>2, <1>3, <1>4, <1>5, <1>6, <1>7 DEF Next, Handler, Reader

(* Each step keeps the prefixes with their bytes.                          *)
LEMMA PrefixStep ==
  ASSUME IInv, [Next]_vars
  PROVE  PrefixKept'
<1>1. \A s : Tidy(s) <=> \A i \in DOMAIN s : s[i] = "e0" => i < Len(s) /\ s[i + 1] # "e0"
  BY DEF Tidy
<1>2. ASSUME ~raced, ~cut PROVE Tidy(Contents)
  BY <1>1, <1>2 DEF IInv, PrefixKept
<1>3. ASSUME ~raced', ~cut' PROVE Tidy(Contents')
  <2>1. raced' = FALSE /\ cut' = FALSE
    <3>1. TypeInv'
      BY TypeStep DEF IInv
    <3> QED
      BY <1>3, <3>1 DEF TypeInv
  <2>2. Contents \in Seq(AnyByte)
    BY ContentsLemma DEF IInv
  <2>3. Tidy(Contents)
    BY <1>2, <2>1, ContentsStep
  <2>4. CASE \E p \in Seq(Byte) : p \in Chunk /\ Puts(p)
    BY <2>1, <2>2, <2>3, <2>4, TidyLemma DEF Puts
  <2>5. CASE Gets
    BY <2>2, <2>3, <2>5, TidyLemma DEF Gets
  <2>6. CASE UNCHANGED <<Contents, buf>>
    BY <2>3, <2>6
  <2> QED
    BY <2>1, <2>4, <2>5, <2>6, ContentsStep
<1> QED
  BY <1>1, <1>3 DEF PrefixKept

(* The invariant is inductive.                                             *)
THEOREM NextInv == IInv /\ [Next]_vars => IInv'
BY TypeStep, LineStep, CountStep, WireStep, PrefixStep DEF IInv

(* The invariant holds of every behaviour.                                 *)
THEOREM Invariance == Spec => []IInv
BY InitInv, NextInv, PTL DEF Spec

(* The head and the count stay inside the buffer, and partial keeps less   *)
(* than three bytes from one interrupt to the next (kb.c:50-87).           *)
THEOREM TypeCorrect == Spec => []TypeOK
<1>1. IInv => TypeOK
  BY DEF IInv, TypeInv
<1> QED
  BY <1>1, Invariance, PTL

(* A prefix is never in the buffer without its byte, unless the handler    *)
(* stored between the reader's updates or cut a code (kb.c:60-78).         *)
THEOREM PrefixesKept == Spec => []PrefixKept
<1>1. IInv => PrefixKept
  BY DEF IInv
<1> QED
  BY <1>1, Invariance, PTL

(* The buffer is the queue of KeyQueue: bytes come out in the order in     *)
(* which they went in, and what the handler stores goes in whole or not at *)
(* all (kb.c:72-83, 95-126).                                               *)
THEOREM Refinement == Spec => QueueUnlessRaced
<1>1. IInv /\ [Next]_vars => [~raced' => Queue!Step]_vars
  <2> SUFFICES ASSUME IInv, [Next]_vars, ~raced' PROVE Queue!Step
    BY Zenon
  <2>1. raced' = FALSE
    <3>1. TypeInv'
      BY TypeStep DEF IInv
    <3> QED
      BY <3>1 DEF TypeInv
  <2>2. ASSUME NEW p \in Chunk, Puts(p) PROVE Queue!Step
    <3>1. Queue!Put(p)
      BY <2>2 DEF Puts, Queue!Put
    <3> QED
      BY <3>1 DEF Queue!Step, Chunk
  <2>3. CASE Gets
    <3>1. Queue!Get
      BY <2>3 DEF Gets, Queue!Get
    <3> QED
      BY <3>1 DEF Queue!Step
  <2>4. CASE UNCHANGED <<Contents, buf>>
    BY <2>4 DEF Queue!Step
  <2> QED
    BY <2>1, <2>2, <2>3, <2>4, ContentsStep
<1> QED
  BY <1>1, Invariance, PTL DEF Spec, QueueUnlessRaced
=============================================================================
