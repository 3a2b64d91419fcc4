----------------------------- MODULE HeapProofs -----------------------------
(***************************************************************************)
(* Proofs about Heap: the entries tile the frames that the heap has taken, *)
(* free neighbours are joined, and kalloc and kfree implement Malloc, for  *)
(* every frame and entry size, every placement of the heap and of what is  *)
(* reserved around it, and every set of requests.                          *)
(***************************************************************************)
EXTENDS Heap, SequenceTheorems, WellFoundedInduction, TLAPS

-----------------------------------------------------------------------------
(* Numbers and sequences.                                                  *)

(* A set of natural numbers that is not empty has a least element.  In     *)
(* this form, of a set and not of a predicate, it also carries the two     *)
(* inductions along the list below.                                        *)
LEMMA LeastNumber ==
  ASSUME NEW S, S \subseteq Nat, S # {}
  PROVE  \E x \in S : \A y \in S : x <= y
<1> DEFINE R == OpToRel(<, Nat)
<1>1. R = {ss \in Nat \X Nat : ss[1] < ss[2]}
  BY Zenon DEF OpToRel
<1>2. PICK x \in S : \A y \in S : ~(<<y, x>> \in R)
  BY NatLessThanWellFounded, WFMin, Zenon
<1> HIDE DEF R
<1>3. ASSUME NEW y \in S PROVE ~(y < x)
  <2>1. <<y, x>> \in Nat \X Nat /\ <<y, x>>[1] = y /\ <<y, x>>[2] = x
    OBVIOUS
  <2>2. y < x => <<y, x>> \in R
    BY <1>1, <2>1, Zenon
  <2> QED
    BY <2>2, <1>2, Zenon
<1>4. \A y \in S : x <= y
  BY <1>3
<1> QED
  BY <1>4

(* What InsertAt and RemoveAt return, element by element.                  *)
Inserted(t, s, i, e) ==
  /\ Len(t) = Len(s) + 1
  /\ \A j \in 1..i - 1 : t[j] = s[j]
  /\ t[i] = e
  /\ \A j \in i..Len(s) : t[j + 1] = s[j]

Removed(t, s, i) ==
  /\ Len(t) = Len(s) - 1
  /\ \A j \in 1..i - 1 : t[j] = s[j]
  /\ \A j \in i..Len(s) - 1 : t[j] = s[j + 1]

(* InsertAt moves what stood at i and after it one place up.               *)
LEMMA InsertLemma ==
  ASSUME NEW S, NEW s \in Seq(S), NEW i \in 1..Len(s) + 1, NEW e \in S
  PROVE  InsertAt(s, i, e) \in Seq(S) /\ Inserted(InsertAt(s, i, e), s, i, e)
<1> DEFINE before == SubSeq(s, 1, i - 1)
           after  == SubSeq(s, i, Len(s))
<1>0. Len(s) \in Nat /\ i \in Nat \ {0} /\ i <= Len(s) + 1
  OBVIOUS
<1>1. /\ before \in Seq(S) /\ Len(before) = i - 1
      /\ \A j \in 1..i - 1 : before[j] = s[j]
  BY SubSeqProperties
<1>2. /\ after \in Seq(S) /\ Len(after) = Len(s) - i + 1
      /\ \A j \in 1..Len(s) - i + 1 : after[j] = s[i + j - 1]
  BY SubSeqProperties
<1>3. <<e>> \in Seq(S) /\ Len(<<e>>) = 1 /\ <<e>>[1] = e
  OBVIOUS
<1> HIDE DEF before, after
<1> DEFINE left == before \o <<e>>
           t    == left \o after
<1>4. /\ left \in Seq(S) /\ Len(left) = i
      /\ \A j \in 1..i : left[j] = IF j < i THEN s[j] ELSE e
  BY <1>1, <1>3, ConcatProperties
<1>5. InsertAt(s, i, e) = t
  BY Zenon DEF InsertAt, before, after
<1> HIDE DEF left
<1>6. /\ t \in Seq(S) /\ Len(t) = Len(left) + Len(after)
      /\ \A j \in 1..Len(left) + Len(after) : t[j] =
           IF j <= Len(left) THEN left[j] ELSE after[j - Len(left)]
  BY <1>2, <1>4, ConcatProperties, Zenon
<1> HIDE DEF t
<1>7. Len(t) = Len(s) + 1
  BY <1>0, <1>2, <1>4, <1>6
<1>8. ASSUME NEW j \in 1..i - 1 PROVE t[j] = s[j]
  BY <1>0, <1>2, <1>4, <1>6, <1>8
<1>9. t[i] = e
  BY <1>0, <1>2, <1>4, <1>6
<1>10. ASSUME NEW j \in i..Len(s) PROVE t[j + 1] = s[j]
  <2>1. j + 1 - i \in 1..Len(s) - i + 1 /\ i + (j + 1 - i) - 1 = j /\ ~(j + 1 <= i)
    BY <1>0
  <2>2. j + 1 \in 1..Len(left) + Len(after)
    BY <1>0, <1>2, <1>4
  <2>3. t[j + 1] = after[j + 1 - i]
    BY <1>4, <1>6, <2>1, <2>2
  <2> QED
    BY <1>2, <2>1, <2>3
<1> QED
  BY <1>5, <1>6, <1>7, <1>8, <1>9, <1>10 DEF Inserted

(* RemoveAt moves what stood after i one place down.                       *)
LEMMA RemoveLemma ==
  ASSUME NEW S, NEW s \in Seq(S), NEW i \in 1..Len(s)
  PROVE  RemoveAt(s, i) \in Seq(S) /\ Removed(RemoveAt(s, i), s, i)
<1> DEFINE before == SubSeq(s, 1, i - 1)
           after  == SubSeq(s, i + 1, Len(s))
           t      == before \o after
<1>0. Len(s) \in Nat /\ i \in Nat \ {0} /\ i <= Len(s)
  OBVIOUS
<1>1. /\ before \in Seq(S) /\ Len(before) = i - 1
      /\ \A j \in 1..i - 1 : before[j] = s[j]
  BY SubSeqProperties
<1>2. /\ after \in Seq(S) /\ Len(after) = Len(s) - i
      /\ \A j \in 1..Len(s) - i : after[j] = s[i + j]
  BY SubSeqProperties
<1>3. RemoveAt(s, i) = t
  BY Zenon DEF RemoveAt
<1> HIDE DEF before, after
<1>4. /\ t \in Seq(S) /\ Len(t) = Len(before) + Len(after)
      /\ \A j \in 1..Len(before) + Len(after) : t[j] =
           IF j <= Len(before) THEN before[j] ELSE after[j - Len(before)]
  BY <1>1, <1>2, ConcatProperties, Zenon
<1> HIDE DEF t
<1>5. Len(t) = Len(s) - 1
  BY <1>0, <1>1, <1>2, <1>4
<1>6. ASSUME NEW j \in 1..i - 1 PROVE t[j] = s[j]
  <2>1. j \in 1..Len(before) + Len(after) /\ j <= Len(before)
    BY <1>0, <1>1, <1>2
  <2> QED
    BY <1>1, <1>4, <2>1
<1>7. ASSUME NEW j \in i..Len(s) - 1 PROVE t[j] = s[j + 1]
  <2>1. j - (i - 1) \in 1..Len(s) - i /\ i + (j - (i - 1)) = j + 1 /\ ~(j <= i - 1)
    BY <1>0
  <2>2. j \in 1..Len(before) + Len(after)
    BY <1>0, <1>1, <1>2
  <2>3. t[j] = after[j - (i - 1)]
    BY <1>1, <1>4, <2>1, <2>2
  <2> QED
    BY <1>2, <2>1, <2>3
<1> QED
  BY <1>3, <1>4, <1>5, <1>6, <1>7 DEF Removed

(* The first element that passes a test, given the set of the places where *)
(* it does.                                                                *)
LEMMA FirstFitLemma ==
  ASSUME NEW l \in Seq(Entry), NEW u \in Nat
  PROVE  /\ FirstFit(l, u) \in 0..Len(l)
         /\ FirstFit(l, u) # 0 => ~l[FirstFit(l, u)].used /\ l[FirstFit(l, u)].size >= u
<1> DEFINE I == {i \in 1..Len(l) : ~l[i].used /\ l[i].size >= u}
<1>1. FirstFit(l, u) = IF I # {} THEN Min(I) ELSE 0
  BY Zenon DEF FirstFit, SelectInSeq
<1>2. I # {} => Min(I) \in I
  <2>1. I \subseteq Nat
    OBVIOUS
  <2> HIDE DEF I
  <2> QED
    BY <2>1, LeastNumber DEF Min
<1> QED
  BY <1>1, <1>2

Holder(l, p) == SelectInSeq(l, LAMBDA e : e.addr + 1 = p)

(* The entry that kfree finds is the one before the address, if it finds   *)
(* any.                                                                    *)
LEMMA HolderLemma ==
  ASSUME NEW l \in Seq(Entry), NEW p
  PROVE  /\ Holder(l, p) \in 0..Len(l)
         /\ Holder(l, p) # 0 => l[Holder(l, p)].addr + 1 = p
<1> DEFINE I == {i \in 1..Len(l) : l[i].addr + 1 = p}
<1>1. Holder(l, p) = IF I # {} THEN Min(I) ELSE 0
  BY Zenon DEF Holder, SelectInSeq
<1>2. I # {} => Min(I) \in I
  <2>1. I \subseteq Nat
    OBVIOUS
  <2> HIDE DEF I
  <2> QED
    BY <2>1, LeastNumber DEF Min
<1> QED
  BY <1>1, <1>2

-----------------------------------------------------------------------------
(* The list of entries.                                                    *)

Adjacent(l) == \A j \in 1..Len(l) - 1 : l[j + 1].addr = l[j].addr + l[j].size + 1

(* Free entries have no free neighbour, that at k aside. *)
FreeApart(l, k) == \A j \in 1..Len(l) - 1 : l[j].used \/ l[j + 1].used \/ j = k \/ j + 1 = k

(* The unit after the last.  The last entry is never a header alone: were  *)
(* it one, kalloc could return the address after the heap.                 *)
EndAddr(l) == l[Len(l)].addr + l[Len(l)].size + 1
Chain(l)   == l \in Seq(Entry) /\ l # <<>> /\ Adjacent(l) /\ l[Len(l)].size # 0

BlocksOf(l) == {<<l[j].addr + 1, l[j].size>> : j \in {i \in 1..Len(l) : l[i].used}}

(* The fields of the entries of a list.                                    *)
LEMMA EntryLemma ==
  ASSUME NEW l \in Seq(Entry)
  PROVE  /\ Len(l) \in Nat
         /\ \A h \in 1..Len(l) : /\ l[h] \in Entry /\ l[h].addr \in Nat /\ l[h].size \in Nat
                                 /\ l[h].used \in BOOLEAN
<1>1. Len(l) \in Nat /\ \A h \in 1..Len(l) : l[h] \in Entry
  OBVIOUS
<1>2. \A e \in Entry : e.addr \in Nat /\ e.size \in Nat /\ e.used \in BOOLEAN
  BY DEF Entry
<1> QED
  BY <1>1, <1>2

(* One entry changed in place, as kalloc and kfree do it.                  *)
Update(l, k, b, n) == [l EXCEPT ![k].used = b, ![k].size = n]

Updated(t, l, k, b, n) ==
  /\ t \in Seq(Entry) /\ Len(t) = Len(l)
  /\ t[k].addr = l[k].addr /\ t[k].size = n /\ t[k].used = b
  /\ \A j \in 1..Len(l) : j # k => t[j] = l[j]

(* Only the entry at k changes, and of it only what is said.               *)
LEMMA UpdateLemma ==
  ASSUME NEW l \in Seq(Entry), NEW k \in 1..Len(l), NEW b \in BOOLEAN, NEW n \in Nat
  PROVE  Updated(Update(l, k, b, n), l, k, b, n)
<1> DEFINE e == [l[k] EXCEPT !.used = b, !.size = n]
<1>1. l[k] \in Entry
  OBVIOUS
<1>2. e \in Entry /\ e.addr = l[k].addr /\ e.size = n /\ e.used = b
  BY <1>1 DEF Entry
<1>3. Update(l, k, b, n) = [l EXCEPT ![k] = e]
  BY DEF Update
<1> HIDE DEF e
<1>4. /\ [l EXCEPT ![k] = e] \in Seq(Entry) /\ Len([l EXCEPT ![k] = e]) = Len(l)
      /\ \A j \in 1..Len(l) : [l EXCEPT ![k] = e][j] = IF j = k THEN e ELSE l[j]
  BY <1>2, ExceptSeq
<1> QED
  BY <1>2, <1>3, <1>4 DEF Updated

(* An update that leaves a field alone is one that gives it its old value. *)
LEMMA FieldLemma ==
  ASSUME NEW l \in Seq(Entry), NEW k \in 1..Len(l)
  PROVE  /\ \A b \in BOOLEAN : [l EXCEPT ![k].used = b] = Update(l, k, b, l[k].size)
         /\ \A n \in Nat : [l EXCEPT ![k].size = n] = Update(l, k, l[k].used, n)
<1>1. l[k] \in Entry
  OBVIOUS
<1>2. \A b \in BOOLEAN : [l[k] EXCEPT !.used = b] = [l[k] EXCEPT !.used = b, !.size = l[k].size]
  BY <1>1 DEF Entry
<1>3. \A n \in Nat : [l[k] EXCEPT !.size = n] = [l[k] EXCEPT !.used = l[k].used, !.size = n]
  BY <1>1 DEF Entry
<1> QED
  BY ZenonT(40), <1>2, <1>3 DEF Update

(* Adjacent entries are in order, neighbours or not.                       *)
LEMMA OrderLemma ==
  ASSUME NEW l \in Seq(Entry), Adjacent(l), NEW i \in 1..Len(l), NEW j \in 1..Len(l), i < j
  PROVE  l[i].addr + l[i].size < l[j].addr
<1> DEFINE S == {h \in 1..Len(l) : i < h /\ l[i].addr + l[i].size >= l[h].addr}
<1>1. Len(l) \in Nat /\ \A h \in 1..Len(l) : l[h].addr \in Nat /\ l[h].size \in Nat
  BY EntryLemma
<1>2. ASSUME S # {} PROVE FALSE
  <2>1. S \subseteq Nat
    OBVIOUS
  <2>2. PICK h \in S : \A g \in S : h <= g
    <3> HIDE DEF S
    <3> QED
      BY <1>2, <2>1, LeastNumber
  <2>3. h - 1 \in 1..Len(l) - 1 /\ l[h].addr = l[h - 1].addr + l[h - 1].size + 1
    BY DEF Adjacent
  <2>4. h \in Nat /\ i \in Nat /\ i < h /\ l[i].addr + l[i].size >= l[h].addr
    OBVIOUS
  <2>5. /\ l[i].addr \in Nat /\ l[i].size \in Nat /\ l[h].addr \in Nat
        /\ l[h - 1].addr \in Nat /\ l[h - 1].size \in Nat
    BY <1>1, <2>3
  <2>6. h - 1 \notin S
    BY <2>2, <2>4
  <2>7. h - 1 # i => l[i].addr + l[i].size < l[h - 1].addr
    <3>1. h - 1 # i => i < h - 1
      BY <2>4
    <3>2. h - 1 \in 1..Len(l)
      BY <1>1, <2>3
    <3>3. h - 1 # i => ~(l[i].addr + l[i].size >= l[h - 1].addr)
      BY <2>6, <3>1, <3>2
    <3> QED
      BY <2>5, <3>3
  <2>8. CASE h - 1 = i
    BY <2>3, <2>4, <2>5, <2>8
  <2>9. CASE h - 1 # i
    BY SMTT(30), <2>3, <2>4, <2>5, <2>7, <2>9
  <2> QED
    BY <2>8, <2>9
<1> QED
  BY <1>1, <1>2

(* Adjacent entries cover everything from the first to the last.           *)
LEMMA CoverLemma ==
  ASSUME NEW l, Chain(l)
  PROVE  UNION {UnitsOf(l[k]) : k \in 1..Len(l)} = l[1].addr .. EndAddr(l) - 1
<1>1. /\ l \in Seq(Entry) /\ Adjacent(l) /\ Len(l) \in Nat \ {0}
      /\ \A h \in 1..Len(l) : l[h].addr \in Nat /\ l[h].size \in Nat
  BY EntryLemma, EmptySeq DEF Chain
<1>2. ASSUME NEW k \in 1..Len(l), NEW x \in UnitsOf(l[k])
      PROVE  x \in l[1].addr .. EndAddr(l) - 1
  <2>1. k = 1 \/ l[1].addr + l[1].size < l[k].addr
    BY <1>1, OrderLemma
  <2>2. k = Len(l) \/ l[k].addr + l[k].size < l[Len(l)].addr
    BY <1>1, OrderLemma
  <2>3. /\ l[1].addr \in Nat /\ l[1].size \in Nat /\ l[k].addr \in Nat /\ l[k].size \in Nat
        /\ l[Len(l)].addr \in Nat /\ l[Len(l)].size \in Nat
    BY <1>1
  <2>4. x \in Int /\ l[k].addr <= x /\ x <= l[k].addr + l[k].size
    BY <2>3 DEF UnitsOf
  <2>5. l[1].addr <= x
    BY <2>1, <2>3, <2>4
  <2>6. x <= l[Len(l)].addr + l[Len(l)].size
    BY <2>2, <2>3, <2>4
  <2> QED
    BY <2>3, <2>4, <2>5, <2>6 DEF EndAddr
<1>3. ASSUME NEW x \in l[1].addr .. EndAddr(l) - 1
      PROVE  \E k \in 1..Len(l) : x \in UnitsOf(l[k])
  <2> DEFINE S == {k \in 1..Len(l) : x <= l[k].addr + l[k].size}
  <2>1. S \subseteq Nat /\ Len(l) \in S
    BY <1>1 DEF EndAddr
  <2>2. PICK k \in S : \A g \in S : k <= g
    <3> HIDE DEF S
    <3> QED
      BY <2>1, LeastNumber
  <2>3. CASE k = 1
    BY <1>1, <2>3 DEF UnitsOf, EndAddr
  <2>4. CASE k # 1
    <3>1. k - 1 \in 1..Len(l) - 1 /\ l[k].addr = l[k - 1].addr + l[k - 1].size + 1
      BY <1>1, <2>4 DEF Adjacent
    <3>2. k - 1 \notin S
      BY <2>2, <3>1
    <3>3. /\ l[k - 1].addr \in Nat /\ l[k - 1].size \in Nat /\ l[k].addr \in Nat
          /\ l[k].size \in Nat
      BY <1>1, <3>1
    <3>4. x \in Int /\ x > l[k - 1].addr + l[k - 1].size
      BY <1>1, <3>1, <3>2, <3>3 DEF EndAddr
    <3>5. x \in UnitsOf(l[k])
      BY <3>1, <3>3, <3>4 DEF UnitsOf
    <3> QED
      BY <3>5
  <2> QED
    BY <2>3, <2>4
<1> QED
  BY <1>2, <1>3

(* A block taken from a free entry: the chain keeps its ends, and there is *)
(* one more block, of the size asked for or one unit more.                 *)
LEMMA TakeLemma ==
  ASSUME NEW l, Chain(l), NEW k \in 1..Len(l), NEW u \in Nat,
         ~l[k].used, l[k].size >= u,
         FreeApart(l, k), k = Len(l) \/ l[k + 1].used
  PROVE  /\ Chain(Take(l, k, u)) /\ FreeApart(Take(l, k, u), 0)
         /\ Take(l, k, u)[1].addr = l[1].addr /\ EndAddr(Take(l, k, u)) = EndAddr(l)
         /\ \E m \in {u, u + 1} :
              /\ m <= l[k].size
              /\ BlocksOf(Take(l, k, u)) = BlocksOf(l) \cup {<<l[k].addr + 1, m>>}
<1> DEFINE t == Take(l, k, u)
<1>1. /\ l \in Seq(Entry) /\ Adjacent(l) /\ Len(l) \in Nat \ {0}
      /\ \A h \in 1..Len(l) : /\ l[h].addr \in Nat /\ l[h].size \in Nat
                              /\ l[h].used \in BOOLEAN /\ l[h] \in Entry
  BY EntryLemma, EmptySeq DEF Chain
<1>2. CASE l[k].size <= u + 1
  <2>1. t = Update(l, k, TRUE, l[k].size)
    BY <1>1, <1>2, FieldLemma DEF Take
  <2> HIDE DEF t
  <2>2. /\ t \in Seq(Entry) /\ Len(t) = Len(l)
        /\ t[k].addr = l[k].addr /\ t[k].size = l[k].size /\ t[k].used = TRUE
        /\ \A j \in 1..Len(l) : j # k => t[j] = l[j]
    <3>1. Updated(Update(l, k, TRUE, l[k].size), l, k, TRUE, l[k].size)
      BY <1>1, UpdateLemma, Zenon
    <3> QED
      BY <2>1, <3>1 DEF Updated
  <2>4. \A j \in 1..Len(l) : /\ t[j].addr = l[j].addr /\ t[j].size = l[j].size
                             /\ (t[j].used <=> l[j].used \/ j = k)
    BY <2>2
  <2>5. Chain(t) /\ t[1].addr = l[1].addr /\ EndAddr(t) = EndAddr(l)
    BY SMTT(30), <1>1, <2>2, <2>4, EmptySeq DEF Chain, Adjacent, EndAddr
  <2>a. FreeApart(t, 0)
    BY <1>1, <2>2, <2>4 DEF FreeApart
  <2>6. BlocksOf(t) = BlocksOf(l) \cup {<<l[k].addr + 1, l[k].size>>}
    BY <2>2, <2>4 DEF BlocksOf
  <2>7. l[k].size \in {u, u + 1}
    BY <1>1, <1>2
  <2> QED
    BY <1>1, <2>5, <2>a, <2>6, <2>7 DEF t
<1>3. CASE ~(l[k].size <= u + 1)
  <2> DEFINE s    == [l EXCEPT ![k].used = TRUE, ![k].size = u]
             rest == Free(l[k].addr + u + 1, l[k].size - u - 1)
  <2>1. t = InsertAt(s, k + 1, rest)
    BY <1>3 DEF Take
  <2>0. /\ l[k].addr \in Nat /\ l[k].size \in Nat
        /\ l[k].addr + u + 1 \in Nat /\ l[k].size - u - 1 \in Nat \ {0}
    BY <1>1, <1>3
  <2>2. rest \in Entry
    BY <2>0 DEF Entry, Free
  <2>3. s = Update(l, k, TRUE, u)
    BY DEF Update
  <2>5. rest.addr = l[k].addr + u + 1 /\ rest.size = l[k].size - u - 1 /\ rest.used = FALSE
    BY DEF Free
  <2> HIDE DEF s, rest
  <2>a. rest.size # 0 /\ rest.addr + rest.size + 1 = l[k].addr + l[k].size + 1
    <3>1. PICK p \in Nat, q \in Nat : p = l[k].addr /\ q = l[k].size
      BY <2>0
    <3>2. rest.addr = p + u + 1 /\ rest.size = q - u - 1 /\ q - u - 1 \in Nat \ {0}
      BY <2>0, <2>5, <3>1
    <3>3. (p + u + 1) + (q - u - 1) + 1 = p + q + 1
      OBVIOUS
    <3> QED
      BY <3>1, <3>2, <3>3
  <2>4. /\ s \in Seq(Entry) /\ Len(s) = Len(l)
        /\ s[k].addr = l[k].addr /\ s[k].size = u /\ s[k].used = TRUE
        /\ \A j \in 1..Len(l) : j # k => s[j] = l[j]
    <3>1. Updated(Update(l, k, TRUE, u), l, k, TRUE, u)
      BY <1>1, UpdateLemma, Zenon
    <3> QED
      BY <2>3, <3>1 DEF Updated
  <2>6. k + 1 \in 1..Len(s) + 1
    BY <1>1, <2>4
  <2> HIDE DEF t
  <2>7. t \in Seq(Entry) /\ Inserted(t, s, k + 1, rest)
    BY <2>1, <2>2, <2>4, <2>6, InsertLemma, Zenon
  <2>8. /\ Len(t) = Len(l) + 1
        /\ \A j \in 1..k - 1 : t[j] = l[j]
        /\ t[k].addr = l[k].addr /\ t[k].size = u /\ t[k].used = TRUE
        /\ t[k + 1] = rest
        /\ \A j \in k + 1..Len(l) : t[j + 1] = l[j]
    <3>1. \A j \in 1..k - 1 : j \in 1..k + 1 - 1 /\ j # k /\ j \in 1..Len(l)
      BY <1>1
    <3>2. \A j \in k + 1..Len(l) : j # k /\ j \in 1..Len(l)
      BY <1>1
    <3>3. k \in 1..k + 1 - 1
      BY <1>1
    <3> QED
      BY <1>1, <2>4, <2>7, <3>1, <3>2, <3>3 DEF Inserted
  <2>9. ASSUME NEW j \in 1..Len(l)
        PROVE  /\ t[j + 1].addr = t[j].addr + t[j].size + 1
               /\ t[j].used \/ t[j + 1].used
    <3>1. j \in Nat /\ k \in Nat /\ k <= Len(l) /\ j <= Len(l)
      BY <1>1
    <3>2. CASE j < k
      <4>1. /\ j \in 1..k - 1 /\ j \in 1..Len(l) - 1
            /\ j + 1 \in 1..k - 1 \/ j + 1 = k
        BY <1>1, <3>1, <3>2
      <4>2. t[j] = l[j] /\ t[j + 1].addr = l[j + 1].addr /\ (t[j + 1].used \/ t[j + 1] = l[j + 1])
        BY <2>8, <4>1
      <4>3. l[j].used \/ l[j + 1].used \/ j + 1 = k
        BY <4>1, <3>1, <3>2 DEF FreeApart
      <4> QED
        BY <1>1, <2>8, <4>1, <4>2, <4>3 DEF Adjacent
    <3>3. CASE j = k
      BY <1>1, <2>5, <2>8, <3>3
    <3>4. CASE j = k + 1
      <4>1. t[j] = rest /\ t[j + 1] = l[k + 1] /\ k \in 1..Len(l) - 1
        BY <1>1, <2>8, <3>1, <3>4
      <4>2. t[j + 1].addr = t[j].addr + t[j].size + 1
        <5>1. l[k + 1].addr = l[k].addr + l[k].size + 1
          BY <1>1, <4>1 DEF Adjacent
        <5> QED
          BY <2>a, <4>1, <5>1
      <4>3. l[k + 1].used
        BY <1>1, <4>1
      <4> QED
        BY <4>1, <4>2, <4>3
    <3>5. CASE j > k + 1
      <4>1. /\ j - 1 \in k + 1..Len(l) - 1 /\ j - 1 \in 1..Len(l) - 1
            /\ (j - 1) + 1 = j /\ j \in k + 1..Len(l) /\ j - 1 # k /\ j # k
        BY <1>1, <3>1, <3>5
      <4>2. t[j] = l[j - 1] /\ t[j + 1] = l[j]
        BY <1>1, <2>8, <4>1
      <4>3. l[j - 1].used \/ l[j].used
        BY <4>1 DEF FreeApart
      <4>4. l[j].addr = l[j - 1].addr + l[j - 1].size + 1
        BY <1>1, <4>1 DEF Adjacent
      <4> QED
        BY <4>1, <4>2, <4>3, <4>4
    <3> QED
      BY <3>1, <3>2, <3>3, <3>4, <3>5
  <2>10. Adjacent(t) /\ FreeApart(t, 0)
    BY <1>1, <2>8, <2>9 DEF Adjacent, FreeApart
  <2>11. t # <<>> /\ t[1].addr = l[1].addr
    BY <1>1, <2>7, <2>8, EmptySeq
  <2>12. t[Len(t)].size # 0 /\ EndAddr(t) = EndAddr(l)
    <3>1. CASE k = Len(l)
      <4>1. t[Len(t)] = rest
        BY <1>1, <2>8, <3>1
      <4> QED
        BY <2>a, <3>1, <4>1 DEF EndAddr
    <3>2. CASE k # Len(l)
      BY <1>1, <2>7, <2>8, <3>2 DEF EndAddr, Chain
    <3> QED
      BY <3>1, <3>2
  <2>13. BlocksOf(t) = BlocksOf(l) \cup {<<l[k].addr + 1, u>>}
    <3>1. ASSUME NEW j \in 1..Len(t), t[j].used
          PROVE  <<t[j].addr + 1, t[j].size>> \in BlocksOf(l) \cup {<<l[k].addr + 1, u>>}
      <4>1. CASE j < k
        <5>1. j \in 1..Len(l) /\ t[j] = l[j]
          BY <1>1, <2>8, <4>1
        <5> QED
          BY <3>1, <5>1 DEF BlocksOf
      <4>2. CASE j = k
        BY <2>8, <4>2
      <4>3. CASE j > k
        <5>1. j # k + 1
          BY <2>5, <2>8, <3>1
        <5>2. j - 1 \in k + 1..Len(l) /\ t[j] = l[j - 1]
          BY <1>1, <2>7, <2>8, <4>3, <5>1
        <5> QED
          BY <1>1, <3>1, <5>2 DEF BlocksOf
      <4> QED
        BY <1>1, <2>7, <4>1, <4>2, <4>3
    <3>2. ASSUME NEW j \in 1..Len(l), l[j].used
          PROVE  <<l[j].addr + 1, l[j].size>> \in BlocksOf(t)
      <4>1. CASE j < k
        <5>1. j \in 1..Len(t) /\ t[j] = l[j]
          BY <1>1, <2>8, <4>1
        <5> QED
          BY <3>2, <5>1 DEF BlocksOf
      <4>2. CASE j > k
        <5>1. j + 1 \in 1..Len(t) /\ t[j + 1] = l[j]
          BY <1>1, <2>7, <2>8, <4>2
        <5> QED
          BY <3>2, <5>1 DEF BlocksOf
      <4> QED
        BY <1>1, <3>2, <4>1, <4>2
    <3>3. <<l[k].addr + 1, u>> \in BlocksOf(t)
      <4>1. k \in 1..Len(t)
        BY <1>1, <2>8
      <4> QED
        BY <2>8, <4>1 DEF BlocksOf
    <3>4. BlocksOf(t) \subseteq BlocksOf(l) \cup {<<l[k].addr + 1, u>>}
      BY <3>1 DEF BlocksOf
    <3>5. BlocksOf(l) \subseteq BlocksOf(t)
      BY <3>2 DEF BlocksOf
    <3> QED
      BY <3>3, <3>4, <3>5
  <2> QED
    BY <1>1, <1>3, <2>7, <2>9, <2>10, <2>11, <2>12, <2>13 DEF t, Chain
<1> QED
  BY <1>2, <1>3

(* Two free neighbours joined: the chain keeps its ends and its blocks.    *)
Joined(t, l, k) ==
  /\ Len(t) = Len(l) - 1
  /\ \A j \in 1..k - 1 : t[j] = l[j]
  /\ t[k].addr = l[k].addr /\ ~t[k].used
  /\ \A j \in k + 1..Len(t) : t[j] = l[j + 1]

(* Lines 392-395 and 400-403: the entry before takes in the one after,     *)
(* header and all.                                                         *)
LEMMA JoinLemma ==
  ASSUME NEW l, Chain(l), NEW k \in 1..Len(l) - 1, ~l[k].used, ~l[k + 1].used
  PROVE  /\ Chain(Join(l, k)) /\ Joined(Join(l, k), l, k)
         /\ Join(l, k)[1].addr = l[1].addr /\ EndAddr(Join(l, k)) = EndAddr(l)
         /\ BlocksOf(Join(l, k)) = BlocksOf(l)
<1> DEFINE n == l[k].size + l[k + 1].size + 1
           s == Update(l, k, l[k].used, n)
           t == Join(l, k)
<1>1. /\ l \in Seq(Entry) /\ Adjacent(l) /\ Len(l) \in Nat \ {0}
      /\ \A h \in 1..Len(l) : /\ l[h].addr \in Nat /\ l[h].size \in Nat
                              /\ l[h].used \in BOOLEAN /\ l[h] \in Entry
  BY EntryLemma, EmptySeq DEF Chain
<1>2. k \in 1..Len(l) /\ k + 1 \in 1..Len(l) /\ k \in Nat /\ k + 1 <= Len(l)
  BY <1>1
<1>3. n \in Nat
  BY <1>1, <1>2
<1>4. t = RemoveAt(s, k + 1)
  BY <1>1, <1>2, <1>3, FieldLemma DEF Join
<1> HIDE DEF s, n
<1>5. Updated(s, l, k, l[k].used, n)
  BY <1>1, <1>2, <1>3, UpdateLemma, Zenon DEF s
<1>6. s \in Seq(Entry) /\ Len(s) = Len(l)
  BY <1>5 DEF Updated
<1>7. t \in Seq(Entry) /\ Removed(t, s, k + 1)
  <2>1. k + 1 \in 1..Len(s)
    BY <1>2, <1>6
  <2> QED
    BY <1>4, <1>6, <2>1, RemoveLemma, Zenon
<1> HIDE DEF t
<1>8. /\ Len(t) = Len(l) - 1
      /\ \A j \in 1..k - 1 : t[j] = l[j]
      /\ t[k].addr = l[k].addr /\ t[k].size = n /\ ~t[k].used
      /\ \A j \in k + 1..Len(t) : t[j] = l[j + 1]
  <2>1. \A j \in 1..k - 1 : j \in 1..k + 1 - 1 /\ j # k /\ j \in 1..Len(l)
    BY <1>1, <1>2
  <2>2. Len(t) = Len(l) - 1
    BY <1>6, <1>7 DEF Removed
  <2>3. \A j \in k + 1..Len(t) : j \in k + 1..Len(s) - 1 /\ j + 1 # k /\ j + 1 \in 1..Len(l)
    BY <1>1, <1>2, <1>6, <2>2
  <2>4. k \in 1..k + 1 - 1
    BY <1>2
  <2> QED
    BY <1>2, <1>5, <1>7, <2>1, <2>2, <2>3, <2>4 DEF Removed, Updated
<1>9. l[k + 1].addr + l[k + 1].size + 1 = l[k].addr + n + 1
  <2>1. l[k + 1].addr = l[k].addr + l[k].size + 1
    BY <1>1 DEF Adjacent
  <2>2. /\ l[k].addr \in Nat /\ l[k].size \in Nat
        /\ l[k + 1].addr \in Nat /\ l[k + 1].size \in Nat
    BY <1>1, <1>2
  <2> QED
    BY <2>1, <2>2 DEF n
<1>10. ASSUME NEW j \in 1..Len(t) - 1 PROVE t[j + 1].addr = t[j].addr + t[j].size + 1
  <2>1. j \in Nat /\ j <= Len(l) - 2
    BY <1>1, <1>8
  <2>2. CASE j < k
    <3>1. j \in 1..k - 1 /\ j \in 1..Len(l) - 1 /\ (j + 1 \in 1..k - 1 \/ j + 1 = k)
      BY <1>2, <2>1, <2>2
    <3>2. t[j] = l[j] /\ t[j + 1].addr = l[j + 1].addr
      BY <1>8, <3>1
    <3> QED
      BY <1>1, <3>1, <3>2 DEF Adjacent
  <2>3. CASE j = k
    <3>1. k + 1 \in k + 1..Len(t) /\ k + 1 \in 1..Len(l) - 1
      BY <1>1, <1>2, <1>8, <2>1, <2>3
    <3>2. t[k + 1] = l[(k + 1) + 1]
      BY <1>8, <3>1
    <3>3. l[(k + 1) + 1].addr = l[k + 1].addr + l[k + 1].size + 1
      BY <1>1, <3>1 DEF Adjacent
    <3> QED
      BY <1>8, <1>9, <2>3, <3>2, <3>3
  <2>4. CASE j > k
    <3>1. j \in k + 1..Len(t) /\ j + 1 \in k + 1..Len(t) /\ j + 1 \in 1..Len(l) - 1
      BY <1>1, <1>2, <1>8, <2>1, <2>4
    <3>2. t[j] = l[j + 1] /\ t[j + 1] = l[(j + 1) + 1]
      BY <1>8, <3>1
    <3>3. l[(j + 1) + 1].addr = l[j + 1].addr + l[j + 1].size + 1
      BY <1>1, <3>1 DEF Adjacent
    <3> QED
      BY <3>2, <3>3
  <2> QED
    BY <1>2, <2>1, <2>2, <2>3, <2>4
<1>11. t # <<>> /\ t[1].addr = l[1].addr
  BY <1>1, <1>2, <1>8, EmptySeq
<1>12. t[Len(t)].size # 0 /\ EndAddr(t) = EndAddr(l)
  <2>1. CASE k + 1 = Len(l)
    <3>1. Len(t) = k /\ t[Len(t)].size = n /\ t[Len(t)].addr = l[k].addr
      BY <1>1, <1>2, <1>8, <2>1
    <3>2. n # 0
      BY <1>1, <1>2 DEF n
    <3> QED
      BY <1>9, <2>1, <3>1, <3>2 DEF EndAddr
  <2>2. CASE k + 1 # Len(l)
    <3>1. Len(t) \in k + 1..Len(t) /\ Len(t) + 1 = Len(l)
      BY <1>1, <1>2, <1>8, <2>2
    <3>2. t[Len(t)] = l[Len(l)]
      BY <1>8, <3>1
    <3> QED
      BY <3>2 DEF EndAddr, Chain
  <2> QED
    BY <2>1, <2>2
<1>13. BlocksOf(t) = BlocksOf(l)
  <2>1. ASSUME NEW j \in 1..Len(t), t[j].used
        PROVE  \E h \in 1..Len(l) : l[h] = t[j]
    <3>1. j \in Nat /\ j <= Len(l) - 1 /\ j # k
      BY <1>1, <1>8, <2>1
    <3>2. CASE j < k
      <4>1. j \in 1..k - 1 /\ j \in 1..Len(l)
        BY <1>1, <1>2, <3>1, <3>2
      <4> QED
        BY <1>8, <4>1
    <3>3. CASE j > k
      <4>1. j \in k + 1..Len(t) /\ j + 1 \in 1..Len(l)
        BY <1>1, <1>2, <1>8, <3>1, <3>3
      <4> QED
        BY <1>8, <4>1
    <3> QED
      BY <1>2, <3>1, <3>2, <3>3
  <2>2. ASSUME NEW h \in 1..Len(l), l[h].used
        PROVE  \E j \in 1..Len(t) : t[j] = l[h]
    <3>1. h \in Nat /\ h <= Len(l) /\ h # k /\ h # k + 1
      BY <1>1, <2>2
    <3>2. CASE h < k
      <4>1. h \in 1..k - 1 /\ h \in 1..Len(t)
        BY <1>1, <1>2, <1>8, <3>1, <3>2
      <4> QED
        BY <1>8, <4>1
    <3>3. CASE h > k + 1
      <4>1. h - 1 \in k + 1..Len(t) /\ h - 1 \in 1..Len(t) /\ (h - 1) + 1 = h
        BY <1>1, <1>2, <1>8, <3>1, <3>3
      <4>2. t[h - 1] = l[(h - 1) + 1]
        BY <1>8, <4>1
      <4> QED
        BY <4>1, <4>2
    <3> QED
      BY <1>2, <3>1, <3>2, <3>3
  <2>3. BlocksOf(t) \subseteq BlocksOf(l)
    BY <2>1 DEF BlocksOf
  <2>4. BlocksOf(l) \subseteq BlocksOf(t)
    BY <2>2 DEF BlocksOf
  <2> QED
    BY <2>3, <2>4
<1>14. Chain(t)
  BY <1>7, <1>10, <1>11, <1>12 DEF Chain, Adjacent
<1>15. Joined(t, l, k)
  BY <1>8 DEF Joined
<1> QED
  BY <1>11, <1>12, <1>13, <1>14, <1>15 DEF t

(* Lines 384-404: a block given back.  The chain keeps its ends, no two    *)
(* free entries are left side by side, and the other blocks stay.          *)
LEMMA FreeLemma ==
  ASSUME NEW l, Chain(l), FreeApart(l, 0), NEW k \in 1..Len(l), l[k].used
  PROVE  LET t == JoinPrevious(JoinNext([l EXCEPT ![k].used = FALSE], k), k)
         IN  /\ Chain(t) /\ FreeApart(t, 0)
             /\ t[1].addr = l[1].addr /\ EndAddr(t) = EndAddr(l)
             /\ BlocksOf(t) = BlocksOf(l) \ {<<l[k].addr + 1, l[k].size>>}
<1> DEFINE s == Update(l, k, FALSE, l[k].size)
           n == JoinNext(s, k)
           t == JoinPrevious(n, k)
<1>1. /\ l \in Seq(Entry) /\ Adjacent(l) /\ Len(l) \in Nat \ {0} /\ k \in Nat
      /\ \A h \in 1..Len(l) : /\ l[h].addr \in Nat /\ l[h].size \in Nat
                              /\ l[h].used \in BOOLEAN /\ l[h] \in Entry
  BY EntryLemma, EmptySeq DEF Chain
<1>2. [l EXCEPT ![k].used = FALSE] = s
  BY <1>1, FieldLemma
<1> HIDE DEF s
(* The block becomes a free entry. *)
<1>3. Updated(s, l, k, FALSE, l[k].size)
  BY <1>1, UpdateLemma, Zenon DEF s
<1>4. /\ Len(s) = Len(l) /\ ~s[k].used
      /\ \A j \in 1..Len(l) : j # k => s[j] = l[j]
      /\ \A j \in 1..Len(l) : s[j].addr = l[j].addr /\ s[j].size = l[j].size
  BY <1>3 DEF Updated
<1>5. Chain(s) /\ s[1].addr = l[1].addr /\ EndAddr(s) = EndAddr(l)
  <2>1. s \in Seq(Entry)
    BY <1>3 DEF Updated
  <2> QED
    BY <1>1, <1>4, <2>1, EmptySeq DEF Chain, Adjacent, EndAddr
<1>6. FreeApart(s, k)
  BY <1>1, <1>4 DEF FreeApart
<1>7. BlocksOf(s) = BlocksOf(l) \ {<<l[k].addr + 1, l[k].size>>}
  <2>1. ASSUME NEW j \in 1..Len(l), j # k
        PROVE  l[j].addr + 1 # l[k].addr + 1
    <3>1. j < k \/ k < j
      BY <1>1, <2>1
    <3>4. /\ l[j].addr \in Nat /\ l[j].size \in Nat /\ l[k].addr \in Nat /\ l[k].size \in Nat
      BY <1>1
    <3>5. CASE j < k
      <4>1. l[j].addr + l[j].size < l[k].addr
        BY <1>1, <3>5, OrderLemma
      <4> QED
        BY <3>4, <4>1
    <3>6. CASE k < j
      <4>1. l[k].addr + l[k].size < l[j].addr
        BY <1>1, <3>6, OrderLemma
      <4> QED
        BY <3>4, <4>1
    <3> QED
      BY <3>1, <3>5, <3>6
  <2>2. BlocksOf(s) \subseteq BlocksOf(l) \ {<<l[k].addr + 1, l[k].size>>}
    <3>1. ASSUME NEW j \in 1..Len(s), s[j].used
          PROVE  j \in 1..Len(l) /\ j # k /\ s[j] = l[j] /\ l[j].addr + 1 # l[k].addr + 1
      BY <1>4, <2>1, <3>1
    <3> QED
      BY <3>1 DEF BlocksOf
  <2>3. BlocksOf(l) \ {<<l[k].addr + 1, l[k].size>>} \subseteq BlocksOf(s)
    BY <1>4 DEF BlocksOf
  <2> QED
    BY <2>2, <2>3
(* It takes in the next entry. *)
<1>8. /\ Chain(n) /\ n[1].addr = l[1].addr /\ EndAddr(n) = EndAddr(l)
      /\ BlocksOf(n) = BlocksOf(s)
      /\ k \in 1..Len(n) /\ ~n[k].used /\ FreeApart(n, k)
      /\ k = Len(n) \/ n[k + 1].used
  <2>1. CASE k < Len(s) /\ ~s[k + 1].used
    <3>1. n = Join(s, k)
      BY <2>1 DEF JoinNext
    <3>2. k \in 1..Len(s) - 1
      BY <1>1, <1>4, <2>1
    <3>3. /\ Chain(n) /\ Joined(n, s, k) /\ n[1].addr = s[1].addr
          /\ EndAddr(n) = EndAddr(s) /\ BlocksOf(n) = BlocksOf(s)
      BY <1>4, <1>5, <2>1, <3>1, <3>2, JoinLemma
    <3> HIDE DEF n
    <3>4. Len(n) = Len(l) - 1 /\ k \in 1..Len(n) /\ ~n[k].used
      BY <1>1, <1>4, <3>2, <3>3 DEF Joined
    <3>5. ASSUME NEW j \in k + 1..Len(n)
          PROVE  n[j] = l[j + 1] /\ j + 1 \in 1..Len(l) /\ j \in 1..Len(l) - 1 /\ j > k
      <4>1. j + 1 \in 1..Len(l) /\ j + 1 # k /\ j \in 1..Len(l) - 1 /\ j > k
        BY <1>1, <3>4
      <4> QED
        BY <1>4, <3>3, <4>1 DEF Joined
    <3>6. k = Len(n) \/ n[k + 1].used
      <4>1. SUFFICES ASSUME k # Len(n) PROVE n[k + 1].used
        OBVIOUS
      <4>2. k + 1 \in k + 1..Len(n)
        BY <1>1, <3>4, <4>1
      <4>3. s[k + 1] = l[k + 1]
        BY <1>1, <1>4, <3>2
      <4>4. l[(k + 1) + 1].used
        BY <1>1, <2>1, <3>5, <4>2, <4>3 DEF FreeApart
      <4> QED
        BY <3>5, <4>2, <4>4
    <3>7. ASSUME NEW j \in 1..Len(n) - 1, j # k, j + 1 # k
          PROVE  n[j].used \/ n[j + 1].used
      <4>1. CASE j < k
        <5>1. j \in 1..k - 1 /\ j + 1 \in 1..k - 1 /\ j \in 1..Len(s) - 1
          BY <1>1, <1>4, <3>4, <3>7, <4>1
        <5>2. n[j] = s[j] /\ n[j + 1] = s[j + 1]
          BY <3>3, <5>1 DEF Joined
        <5> QED
          BY <1>6, <3>7, <5>1, <5>2 DEF FreeApart
      <4>2. CASE j > k
        <5>1. j \in k + 1..Len(n) /\ j + 1 \in k + 1..Len(n) /\ j + 1 \in 1..Len(l) - 1
          BY <1>1, <3>4, <4>2
        <5>2. n[j] = l[j + 1] /\ n[j + 1] = l[(j + 1) + 1] /\ j + 1 # 0 /\ (j + 1) + 1 # 0
          BY <3>5, <5>1
        <5> QED
          BY <5>1, <5>2 DEF FreeApart
      <4> QED
        BY <1>1, <3>7, <4>1, <4>2
    <3>8. FreeApart(n, k)
      BY <3>7 DEF FreeApart
    <3> QED
      BY <1>5, <3>3, <3>4, <3>6, <3>8
  <2>2. CASE ~(k < Len(s) /\ ~s[k + 1].used)
    <3>1. n = s
      BY <2>2 DEF JoinNext
    <3>2. k = Len(s) \/ s[k + 1].used
      BY <1>1, <1>4, <2>2
    <3> QED
      BY <1>4, <1>5, <1>6, <3>1, <3>2
  <2> QED
    BY <2>1, <2>2
<1> HIDE DEF n
(* The previous entry takes it in. *)
<1>9. /\ Chain(t) /\ FreeApart(t, 0) /\ t[1].addr = l[1].addr /\ EndAddr(t) = EndAddr(l)
      /\ BlocksOf(t) = BlocksOf(s)
  <2>0. Len(n) \in Nat
    BY <1>8, EntryLemma DEF Chain
  <2>1. CASE k > 1 /\ ~n[k - 1].used
    <3>1. t = Join(n, k - 1)
      BY <2>1 DEF JoinPrevious
    <3>2. k - 1 \in 1..Len(n) - 1 /\ (k - 1) + 1 = k
      BY <1>1, <1>8, <2>0, <2>1
    <3>3. /\ Chain(t) /\ Joined(t, n, k - 1) /\ t[1].addr = n[1].addr
          /\ EndAddr(t) = EndAddr(n) /\ BlocksOf(t) = BlocksOf(n)
      BY <1>8, <2>1, <3>1, <3>2, JoinLemma
    <3> HIDE DEF t
    <3>4. ASSUME NEW j \in 1..Len(t) - 1 PROVE t[j].used \/ t[j + 1].used
      <4>0. Len(t) = Len(n) - 1 /\ j \in Nat /\ j <= Len(n) - 2
        BY <2>0, <3>3 DEF Joined
      <4>1. CASE j + 1 < k - 1
        <5>1. j \in 1..(k - 1) - 1 /\ j + 1 \in 1..(k - 1) - 1 /\ j \in 1..Len(n) - 1
              /\ j # k /\ j + 1 # k
          BY <1>1, <4>0, <4>1
        <5>2. t[j] = n[j] /\ t[j + 1] = n[j + 1]
          BY <3>3, <5>1 DEF Joined
        <5> QED
          BY <1>8, <5>1, <5>2 DEF FreeApart
      <4>2. CASE j + 1 = k - 1
        <5>1. j \in 1..(k - 1) - 1 /\ j \in 1..Len(n) - 1 /\ j # k /\ j + 1 # k
          BY <1>1, <4>0, <4>2
        <5>2. t[j] = n[j] /\ ~n[j + 1].used
          BY <2>1, <3>3, <4>2, <5>1 DEF Joined
        <5> QED
          BY <1>8, <5>1, <5>2 DEF FreeApart
      <4>3. CASE j = k - 1
        <5>1. k \in (k - 1) + 1..Len(t) /\ k # Len(n) /\ j + 1 = k
          BY <1>1, <4>0, <4>3
        <5>2. t[k] = n[k + 1]
          BY <3>3, <5>1 DEF Joined
        <5> QED
          BY <1>8, <5>1, <5>2
      <4>4. CASE j > k - 1
        <5>1. /\ j \in (k - 1) + 1..Len(t) /\ j + 1 \in (k - 1) + 1..Len(t)
              /\ j + 1 \in 1..Len(n) - 1 /\ j + 1 # k /\ (j + 1) + 1 # k
          BY <1>1, <4>0, <4>4
        <5>2. t[j] = n[j + 1] /\ t[j + 1] = n[(j + 1) + 1]
          BY <3>3, <5>1 DEF Joined
        <5> QED
          BY <1>8, <5>1, <5>2 DEF FreeApart
      <4> QED
        BY <1>1, <4>0, <4>1, <4>2, <4>3, <4>4
    <3>5. FreeApart(t, 0)
      BY <3>4 DEF FreeApart
    <3> QED
      BY <1>8, <3>3, <3>5
  <2>2. CASE ~(k > 1 /\ ~n[k - 1].used)
    <3>1. t = n
      BY <2>2 DEF JoinPrevious
    <3>2. ASSUME NEW j \in 1..Len(n) - 1 PROVE n[j].used \/ n[j + 1].used
      <4>0. j \in Nat /\ j <= Len(n) - 1
        BY <2>0
      <4>1. CASE j + 1 = k
        BY <1>1, <2>2, <4>0, <4>1
      <4>2. CASE j = k
        BY <1>8, <2>0, <4>0, <4>2
      <4>3. CASE j + 1 # k /\ j # k
        BY <1>8, <4>3 DEF FreeApart
      <4> QED
        BY <4>1, <4>2, <4>3
    <3>3. FreeApart(n, 0)
      BY <3>2 DEF FreeApart
    <3> QED
      BY <1>8, <3>1, <3>3
  <2> QED
    BY <2>1, <2>2
<1> QED
  BY <1>2, <1>7, <1>9 DEF n

-----------------------------------------------------------------------------
(* Units and frames.                                                       *)

(* Quotient, remainder and Ceiling, as lines 316-318 and 350-352 use them. *)
LEMMA DivLemma ==
  ASSUME NEW a \in Nat, NEW b \in Nat \ {0}
  PROVE  /\ a \div b \in Nat /\ a % b \in 0..b - 1 /\ a = b * (a \div b) + (a % b)
         /\ Ceiling(a, b) \in Nat /\ b * Ceiling(a, b) >= a
<1>1. a \div b \in Nat /\ a % b \in 0..b - 1 /\ a = b * (a \div b) + (a % b)
  <2>1. a \div b \in Int /\ a \div b >= 0
    OBVIOUS
  <2>2. a = b * (a \div b) + (a % b)
    OBVIOUS
  <2> QED
    BY <2>1, <2>2
<1> DEFINE q == a \div b
           m == a % b
<1>2. q \in Nat /\ m \in 0..b - 1 /\ a = b * q + m
  BY <1>1
<1>3. Ceiling(a, b) = q + (IF m > 0 THEN 1 ELSE 0)
  BY DEF Ceiling
<1> HIDE DEF q, m
<1>4. CASE m > 0
  <2>1. b * (q + 1) = b * q + b
    BY <1>2
  <2>2. Ceiling(a, b) = q + 1
    BY <1>3, <1>4
  <2> QED
    BY <1>1, <1>2, <2>1, <2>2
<1>5. CASE m = 0
  BY <1>1, <1>2, <1>3, <1>5
<1> QED
  BY <1>2, <1>4, <1>5

(* Multiplication is monotonic.                                            *)
LEMMA TimesLemma ==
  ASSUME NEW x \in Nat, NEW y \in Nat, NEW z \in Nat \ {0}
  PROVE  /\ x * z \in Nat
         /\ x <= y => x * z <= y * z
         /\ x < y => x * z + z <= y * z
<1>1. x * z \in Nat /\ y * z \in Nat
  OBVIOUS
<1>2. ASSUME x <= y PROVE x * z <= y * z
  <2>1. PICK d \in Nat : y = x + d
    BY <1>2
  <2>2. y * z = x * z + d * z /\ d * z >= 0
    BY <2>1
  <2> QED
    BY <1>1, <2>2
<1>3. ASSUME x < y PROVE x * z + z <= y * z
  <2>1. PICK d \in Nat : y = x + 1 + d
    BY <1>3
  <2>2. y * z = x * z + z + d * z /\ d * z >= 0
    BY <2>1
  <2> QED
    BY <1>1, <2>2
<1> QED
  BY <1>1, <1>2, <1>3

Low  == MEM_KERNEL_FIRST_FRAME
High == MEM_USER_FIRST_FRAME

(* A frame is a whole number of units, two at least.                       *)
LEMMA FrameLemma ==
  /\ Low \in Nat \ {0} /\ High \in Nat /\ KernelFrame = 0..High
  /\ ENTRY_SIZE \in Nat \ {0} /\ FRAME_UNITS \in Nat /\ FRAME_UNITS >= 2
  /\ MEM_FRAME_SIZE \in Nat \ {0} /\ MEM_FRAME_SIZE = FRAME_UNITS * ENTRY_SIZE
<1>1. /\ ENTRY_SIZE \in Nat \ {0} /\ MEM_FRAME_SIZE \in Nat \ {0}
      /\ MEM_FRAME_SIZE % ENTRY_SIZE = 0 /\ MEM_FRAME_SIZE > ENTRY_SIZE
      /\ Low \in Nat \ {0} /\ High \in Nat /\ KernelFrame = 0..High
  BY HeapAssumption DEF Low, High, KernelFrame
<1>2. /\ FRAME_UNITS \in Nat
      /\ MEM_FRAME_SIZE = ENTRY_SIZE * FRAME_UNITS + (MEM_FRAME_SIZE % ENTRY_SIZE)
  BY <1>1, DivLemma DEF FRAME_UNITS
<1>3. FRAME_UNITS # 0 /\ FRAME_UNITS # 1
  BY <1>1, <1>2
<1> QED
  BY <1>1, <1>2, <1>3

(* What a request asks for: units, and frames enough for them and for the  *)
(* header.                                                                 *)
LEMMA SizeLemma ==
  ASSUME NEW bytes \in Requests
  PROVE  /\ Units(bytes) \in Nat
         /\ FramesFor(Units(bytes)) \in Nat \ {0}
         /\ FramesFor(Units(bytes)) * FRAME_UNITS - 1 \in Nat \ {0}
         /\ FramesFor(Units(bytes)) * FRAME_UNITS - 1 >= Units(bytes)
<1> DEFINE u == Units(bytes)
           n == FramesFor(u)
<1>1. u \in Nat
  BY HeapAssumption, DivLemma, FrameLemma DEF Units
<1> HIDE DEF u
<1>2. n \in Nat /\ MEM_FRAME_SIZE * n >= (u + 1) * ENTRY_SIZE
  BY <1>1, DivLemma, FrameLemma DEF FramesFor
<1> HIDE DEF n
<1>3. n * FRAME_UNITS \in Nat /\ u + 1 \in Nat /\ ENTRY_SIZE \in Nat \ {0}
  BY <1>1, <1>2, FrameLemma
<1>4. (n * FRAME_UNITS) * ENTRY_SIZE >= (u + 1) * ENTRY_SIZE
  BY <1>1, <1>2, FrameLemma
<1>5. n * FRAME_UNITS >= u + 1
  <2>1. SUFFICES ASSUME n * FRAME_UNITS < u + 1 PROVE FALSE
    BY <1>3
  <2>2. (n * FRAME_UNITS) * ENTRY_SIZE + ENTRY_SIZE <= (u + 1) * ENTRY_SIZE
    BY <1>3, <2>1, TimesLemma
  <2>3. (n * FRAME_UNITS) * ENTRY_SIZE \in Nat /\ (u + 1) * ENTRY_SIZE \in Nat
    BY <1>3, TimesLemma
  <2> QED
    BY <1>3, <1>4, <2>2, <2>3
<1>6. n # 0
  BY <1>1, <1>5, FrameLemma
<1>7. n * FRAME_UNITS >= FRAME_UNITS
  <2>1. 1 * FRAME_UNITS = FRAME_UNITS /\ 1 <= n
    BY <1>2, <1>6, FrameLemma
  <2> QED
    BY <1>2, <2>1, TimesLemma, FrameLemma
<1> QED
  BY <1>1, <1>2, <1>3, <1>5, <1>6, <1>7, FrameLemma DEF u, n

(* The units of the frames from a on and before e.                         *)
LEMMA UnitsLemma ==
  ASSUME NEW a \in Nat, NEW e \in Nat
  PROVE  UNION {g * FRAME_UNITS .. (g + 1) * FRAME_UNITS - 1 : g \in a..e - 1}
           = a * FRAME_UNITS .. e * FRAME_UNITS - 1
<1>0. FRAME_UNITS \in Nat \ {0}
  BY FrameLemma
<1>1. ASSUME NEW g \in a..e - 1, NEW x \in g * FRAME_UNITS .. (g + 1) * FRAME_UNITS - 1
      PROVE  x \in a * FRAME_UNITS .. e * FRAME_UNITS - 1
  <2>1. g \in Nat /\ g + 1 \in Nat /\ a <= g /\ g + 1 <= e
    OBVIOUS
  <2>2. a * FRAME_UNITS <= g * FRAME_UNITS /\ (g + 1) * FRAME_UNITS <= e * FRAME_UNITS
    BY <1>0, <2>1, TimesLemma
  <2>3. /\ a * FRAME_UNITS \in Nat /\ g * FRAME_UNITS \in Nat
        /\ (g + 1) * FRAME_UNITS \in Nat /\ e * FRAME_UNITS \in Nat
    BY <1>0, <2>1, TimesLemma
  <2> QED
    BY <2>2, <2>3
<1>2. ASSUME NEW x \in a * FRAME_UNITS .. e * FRAME_UNITS - 1
      PROVE  \E g \in a..e - 1 : x \in g * FRAME_UNITS .. (g + 1) * FRAME_UNITS - 1
  <2> DEFINE q == x \div FRAME_UNITS
  <2>0. a * FRAME_UNITS \in Nat /\ e * FRAME_UNITS \in Nat
    BY <1>0, TimesLemma
  <2>1. x \in Nat
    BY <2>0
  <2>2. q \in Nat /\ x = FRAME_UNITS * q + (x % FRAME_UNITS) /\ x % FRAME_UNITS \in 0..FRAME_UNITS - 1
    BY <1>0, <2>1, DivLemma
  <2> HIDE DEF q
  <2>3. q * FRAME_UNITS \in Nat /\ q * FRAME_UNITS <= x /\ x < q * FRAME_UNITS + FRAME_UNITS
    BY <1>0, <2>1, <2>2
  <2>4. (q + 1) * FRAME_UNITS = q * FRAME_UNITS + FRAME_UNITS
    BY <1>0, <2>2
  <2>5. q < e
    <3>1. SUFFICES ASSUME e <= q PROVE FALSE
      BY <2>2
    <3>2. e * FRAME_UNITS <= q * FRAME_UNITS
      BY <1>0, <2>2, <3>1, TimesLemma
    <3> QED
      BY <2>0, <2>1, <2>3, <3>2
  <2>6. a <= q
    <3>1. SUFFICES ASSUME q < a PROVE FALSE
      BY <2>2
    <3>2. q * FRAME_UNITS + FRAME_UNITS <= a * FRAME_UNITS
      BY <1>0, <2>2, <3>1, TimesLemma
    <3> QED
      BY <1>0, <2>0, <2>1, <2>3, <3>2
  <2>7. x \in q * FRAME_UNITS .. (q + 1) * FRAME_UNITS - 1
    BY <1>0, <2>1, <2>3, <2>4
  <2>8. q \in a..e - 1
    BY <2>2, <2>5, <2>6
  <2> QED
    BY <2>7, <2>8
<1> QED
  BY <1>1, <1>2

-----------------------------------------------------------------------------
(* The inductive invariant.                                                *)

FREE == Physical!FREE
USED == Physical!USED
RESERVED == Physical!RESERVED

(* Nothing is reserved or released after mem_setup. *)
FramesInv ==
  \A g \in KernelFrame : frames[g] = RESERVED <=> g \in ReservedFrames \/ g < Low

(* The frames that the heap has taken are those from a on and before e,    *)
(* where the entries lie; nothing below them is free, so that the next     *)
(* ones it gets are those at e. *)
Spans(a, e) ==
  /\ Low <= a /\ a < e /\ e <= High
  /\ \A g \in KernelFrame : frames[g] = USED <=> a <= g /\ g < e
  /\ \A g \in Low..a - 1 : frames[g] # FREE
  /\ list[1].addr = a * FRAME_UNITS /\ EndAddr(list) = e * FRAME_UNITS

ListInv ==
  IF list = <<>> THEN \A g \in KernelFrame : frames[g] # USED
  ELSE Chain(list) /\ FreeApart(list, 0) /\ \E a, e \in KernelFrame : Spans(a, e)

IInv == TypeOK /\ FramesInv /\ ListInv

(* The frames of kalloc's next chunk continue those it has, and leave none *)
(* below that is free: NoHole is what makes this so.                       *)
LEMMA GrowLemma ==
  ASSUME IInv, NEW n \in Nat \ {0},
         NEW s \in Physical!Fits(frames, n, Low, High),
         \A t \in Physical!Fits(frames, n, Low, High) : s <= t,
         NEW M, M = Physical!Mark(frames, Physical!Block(s, n), USED)
  PROVE  /\ s \in Nat /\ Low <= s /\ s + n <= High
         /\ list # <<>> => EndAddr(list) = s * FRAME_UNITS
         /\ M \in [KernelFrame -> {FREE, USED, RESERVED}]
         /\ \A g \in KernelFrame : M[g] = RESERVED <=> g \in ReservedFrames \/ g < Low
         /\ \E a \in KernelFrame :
              /\ Low <= a /\ a <= s
              /\ \A g \in KernelFrame : M[g] = USED <=> a <= g /\ g < s + n
              /\ \A g \in Low..a - 1 : M[g] # FREE
              /\ IF list = <<>> THEN a = s ELSE list[1].addr = a * FRAME_UNITS
<1> USE DEF IInv
<1>0. /\ Low \in Nat \ {0} /\ High \in Nat /\ KernelFrame = 0..High
      /\ FREE # USED /\ FREE # RESERVED /\ USED # RESERVED
      /\ frames \in [KernelFrame -> {FREE, USED, RESERVED}]
  BY FrameLemma DEF TypeOK, FREE, USED, RESERVED, Physical!FREE, Physical!USED, Physical!RESERVED
<1>1. ASSUME NEW g \in Low..High - n
      PROVE  g \in Physical!Fits(frames, n, Low, High)
               <=> \A h \in g..g + n - 1 : frames[h] = FREE
  BY <1>1 DEF Physical!Fits, Physical!Block, FREE
<1>2. s \in Low..High - n
  BY DEF Physical!Fits
<1>3. s \in Nat /\ Low <= s /\ s + n <= High
  BY <1>0, <1>2
<1>4. \A h \in s..s + n - 1 : frames[h] = FREE /\ h \in KernelFrame
  BY <1>0, <1>1, <1>2, <1>3
<1>5. /\ M \in [KernelFrame -> {FREE, USED, RESERVED}]
      /\ \A g \in KernelFrame : M[g] = IF s <= g /\ g < s + n THEN USED ELSE frames[g]
  BY <1>0, <1>3 DEF Physical!Mark, Physical!Block
<1>6. \A g \in KernelFrame : M[g] = RESERVED <=> g \in ReservedFrames \/ g < Low
  BY <1>0, <1>3, <1>4, <1>5 DEF FramesInv
<1>7. ASSUME NEW g \in Low..High - 1, NEW h \in Low..High - 1, NEW m \in g..h,
             frames[g] # RESERVED, frames[h] # RESERVED
      PROVE  frames[m] # RESERVED
  <2>1. g \in KernelFrame /\ h \in KernelFrame /\ m \in KernelFrame /\ m >= Low
    BY <1>0
  <2>2. g \notin ReservedFrames /\ h \notin ReservedFrames
    BY <1>7, <2>1 DEF FramesInv
  <2>3. m \notin ReservedFrames
    BY <2>2, NoHole DEF Low, High
  <2> QED
    BY <1>0, <2>1, <2>3 DEF FramesInv
<1>8. CASE list = <<>>
  <2>1. ASSUME NEW g \in Low..s - 1, frames[g] = FREE PROVE FALSE
    <3>1. g \in Nat /\ g < s /\ g \in Low..High - n
      BY <1>0, <1>3
    <3>2. ASSUME NEW h \in g..g + n - 1 PROVE frames[h] = FREE
      <4>1. h \in g..s + n - 1 /\ s + n - 1 \in Low..High - 1 /\ g \in Low..High - 1
            /\ h \in KernelFrame /\ s + n - 1 \in s..s + n - 1
        BY <1>0, <1>3, <3>1
      <4>2. frames[h] # RESERVED
        BY <1>0, <1>4, <1>7, <2>1, <4>1
      <4>3. frames[h] # USED
        BY <1>8, <4>1 DEF ListInv
      <4> QED
        BY <1>0, <4>1, <4>2, <4>3
    <3>3. s <= g
      BY <1>1, <3>1, <3>2
    <3> QED
      BY <1>3, <3>1, <3>3
  <2>2. \A g \in Low..s - 1 : M[g] # FREE
    BY <1>0, <1>3, <1>5, <2>1
  <2>3. \A g \in KernelFrame : M[g] = USED <=> s <= g /\ g < s + n
    BY <1>0, <1>5, <1>8 DEF ListInv
  <2>4. s \in KernelFrame /\ s <= s
    BY <1>0, <1>3
  <2> QED
    BY <1>3, <1>5, <1>6, <1>8, <2>2, <2>3, <2>4
<1>9. CASE list # <<>>
  <2>1. PICK a \in KernelFrame, e \in KernelFrame : Spans(a, e)
    BY <1>9 DEF ListInv
  <2>2. /\ a \in Nat /\ e \in Nat /\ Low <= a /\ a < e /\ e <= High
        /\ \A g \in KernelFrame : frames[g] = USED <=> a <= g /\ g < e
        /\ \A g \in Low..a - 1 : frames[g] # FREE
    BY <1>0, <2>1 DEF Spans
  <2>3. s >= e
    <3>1. SUFFICES ASSUME s < e PROVE FALSE
      BY <1>3, <2>2
    <3>2. s \in s..s + n - 1
      BY <1>3
    <3>3. frames[s] = FREE /\ s \in KernelFrame
      BY <1>4, <3>2
    <3>4. CASE a <= s
      BY <1>0, <2>2, <3>1, <3>3, <3>4
    <3>5. CASE s < a
      BY <1>3, <2>2, <3>3, <3>5
    <3> QED
      BY <1>3, <2>2, <3>4, <3>5
  <2>4. s = e
    <3>1. SUFFICES ASSUME e < s PROVE FALSE
      BY <1>3, <2>2, <2>3
    <3>2. /\ e - 1 \in Low..High - 1 /\ s + n - 1 \in Low..High - 1 /\ e \in Low..High - n
          /\ s + n - 1 \in s..s + n - 1 /\ e - 1 \in KernelFrame
      BY <1>0, <1>3, <2>2, <3>1
    <3>3. frames[e - 1] = USED
      BY <2>2, <3>2
    <3>4. ASSUME NEW h \in e..e + n - 1 PROVE frames[h] = FREE
      <4>1. h \in e - 1..s + n - 1 /\ h \in KernelFrame /\ h >= e
        BY <1>0, <1>3, <2>2, <3>1
      <4>2. frames[h] # RESERVED
        BY <1>0, <1>4, <1>7, <3>2, <3>3, <4>1
      <4>3. frames[h] # USED
        BY <2>2, <4>1
      <4> QED
        BY <1>0, <4>1, <4>2, <4>3
    <3>5. s <= e
      BY <1>1, <3>2, <3>4
    <3> QED
      BY <1>3, <2>2, <3>1, <3>5
  <2>5. \A g \in KernelFrame : M[g] = USED <=> a <= g /\ g < s + n
    BY <1>0, <1>3, <1>5, <2>2, <2>4
  <2>6. \A g \in Low..a - 1 : M[g] # FREE
    BY <1>0, <1>3, <1>5, <2>2, <2>4
  <2>7. EndAddr(list) = s * FRAME_UNITS /\ list[1].addr = a * FRAME_UNITS
    BY <2>1, <2>4 DEF Spans
  <2>8. Low <= a /\ a <= s
    BY <2>2, <2>4
  <2> QED
    BY <1>3, <1>5, <1>6, <1>9, <2>5, <2>6, <2>7, <2>8
<1> QED
  BY <1>8, <1>9

(* The chain with the new chunk at its end.                                *)
Grown(l, addr, size) == Append(l, Free(addr, size))

(* Lines 356-363: the chunk follows the last entry, and is the one free    *)
(* entry that may have a free neighbour.                                   *)
LEMMA AppendLemma ==
  ASSUME NEW l \in Seq(Entry), l # <<>> => Chain(l) /\ FreeApart(l, 0),
         NEW addr \in Nat, NEW size \in Nat \ {0}, l # <<>> => EndAddr(l) = addr
  PROVE  LET t == Grown(l, addr, size)
         IN  /\ Chain(t) /\ FreeApart(t, Len(t))
             /\ t[Len(t)].addr = addr /\ t[Len(t)].size = size /\ ~t[Len(t)].used
             /\ t[1].addr = IF l = <<>> THEN addr ELSE l[1].addr
             /\ EndAddr(t) = addr + size + 1
             /\ BlocksOf(t) = BlocksOf(l)
<1> DEFINE e == Free(addr, size)
           t == Append(l, e)
<1>1. e \in Entry /\ e.addr = addr /\ e.size = size /\ ~e.used
  BY DEF Free, Entry
<1>2. /\ Len(l) \in Nat /\ (l # <<>> => Len(l) # 0)
      /\ \A h \in 1..Len(l) : l[h].addr \in Nat /\ l[h].size \in Nat
  BY EntryLemma, EmptySeq
<1> HIDE DEF e
<1>3. /\ t \in Seq(Entry) /\ Len(t) = Len(l) + 1 /\ t[Len(l) + 1] = e
      /\ \A j \in 1..Len(l) : t[j] = l[j]
  BY <1>1, AppendProperties
<1> HIDE DEF t
<1>4. t # <<>> /\ t[Len(t)].size # 0 /\ EndAddr(t) = addr + size + 1
  BY <1>1, <1>2, <1>3, EmptySeq DEF EndAddr
<1>5. ASSUME NEW j \in 1..Len(t) - 1
      PROVE  /\ t[j + 1].addr = t[j].addr + t[j].size + 1
             /\ t[j].used \/ t[j + 1].used \/ j + 1 = Len(t)
  <2>1. j \in 1..Len(l) /\ t[j] = l[j] /\ l # <<>> /\ j + 1 <= Len(l) + 1
    BY <1>2, <1>3, EmptySeq
  <2>2. CASE j = Len(l)
    BY <1>1, <1>3, <2>1, <2>2 DEF EndAddr
  <2>3. CASE j # Len(l)
    <3>1. j \in 1..Len(l) - 1 /\ j + 1 \in 1..Len(l) /\ j + 1 # 0 /\ j # 0
      BY <1>2, <2>1, <2>3
    <3>2. t[j + 1] = l[j + 1]
      BY <1>3, <3>1
    <3> QED
      BY <2>1, <3>1, <3>2 DEF Chain, Adjacent, FreeApart
  <2> QED
    BY <2>2, <2>3
<1>6. Chain(t) /\ FreeApart(t, Len(t))
  BY <1>3, <1>4, <1>5 DEF Chain, Adjacent, FreeApart
<1>7. t[1].addr = IF l = <<>> THEN addr ELSE l[1].addr
  <2>1. CASE l = <<>>
    BY <1>1, <1>3, <2>1, EmptySeq
  <2>2. CASE l # <<>>
    BY <1>2, <1>3, <2>2
  <2> QED
    BY <2>1, <2>2
<1>8. BlocksOf(t) = BlocksOf(l)
  <2>1. ASSUME NEW j \in 1..Len(t), t[j].used PROVE j \in 1..Len(l) /\ t[j] = l[j]
    <3>1. j # Len(l) + 1
      BY <1>1, <1>3, <2>1
    <3> QED
      BY <1>2, <1>3, <3>1
  <2>2. \A j \in 1..Len(l) : j \in 1..Len(t) /\ t[j] = l[j]
    BY <1>2, <1>3
  <2>3. BlocksOf(t) \subseteq BlocksOf(l)
    BY <2>1 DEF BlocksOf
  <2>4. BlocksOf(l) \subseteq BlocksOf(t)
    BY <2>2 DEF BlocksOf
  <2> QED
    BY <2>3, <2>4
<1> QED
  BY <1>1, <1>2, <1>3, <1>4, <1>6, <1>7, <1>8 DEF Grown, t, e

(* A block in a free entry of a chain lies in the heap and overlaps no     *)
(* block there is.                                                         *)
LEMMA BlockLemma ==
  ASSUME NEW l, Chain(l), NEW k \in 1..Len(l), ~l[k].used, NEW m \in Nat, m <= l[k].size,
         Low * FRAME_UNITS <= l[1].addr, EndAddr(l) <= High * FRAME_UNITS
  PROVE  /\ l[k].addr + 1 \in HeapUnits
         /\ Malloc!Extent(<<l[k].addr + 1, m>>) \subseteq HeapUnits
         /\ \A b \in BlocksOf(l) :
              Malloc!Extent(b) \cap Malloc!Extent(<<l[k].addr + 1, m>>) = {}
<1>1. /\ l \in Seq(Entry) /\ Adjacent(l) /\ Len(l) \in Nat \ {0} /\ k \in Nat
      /\ \A h \in 1..Len(l) : l[h].addr \in Nat /\ l[h].size \in Nat
  BY EntryLemma, EmptySeq DEF Chain
<1> DEFINE addr == l[k].addr
           size == l[k].size
           low  == l[1].addr
           high == EndAddr(l)
<1>2. addr \in Nat /\ size \in Nat /\ low \in Nat /\ high \in Nat
  BY <1>1 DEF EndAddr
<1>3. low <= addr
  <2>1. CASE k = 1
    BY <1>2, <2>1
  <2>2. CASE k # 1
    <3>1. 1 \in 1..Len(l) /\ 1 < k
      BY <1>1, <2>2
    <3>2. l[1].addr + l[1].size < l[k].addr
      BY <1>1, <3>1, OrderLemma
    <3> QED
      BY <1>1, <1>2, <3>1, <3>2
  <2> QED
    BY <2>1, <2>2
<1>4. addr + size < high /\ addr + 1 < high
  <2>0. l[Len(l)].addr \in Nat /\ l[Len(l)].size \in Nat /\ l[Len(l)].size # 0
    BY <1>1 DEF Chain
  <2>1. CASE k = Len(l)
    BY <2>0, <2>1 DEF EndAddr
  <2>2. CASE k # Len(l)
    <3>1. Len(l) \in 1..Len(l) /\ k < Len(l)
      BY <1>1, <2>2
    <3>2. addr + size < l[Len(l)].addr
      BY <1>1, <3>1, OrderLemma
    <3>3. high = l[Len(l)].addr + l[Len(l)].size + 1
      BY DEF EndAddr
    <3> HIDE DEF addr, size, high
    <3> QED
      BY <1>2, <2>0, <3>2, <3>3
  <2> QED
    BY <2>1, <2>2
<1>5. /\ HeapUnits = Low * FRAME_UNITS .. High * FRAME_UNITS - 1
      /\ Low * FRAME_UNITS \in Nat /\ High * FRAME_UNITS \in Nat
      /\ Low * FRAME_UNITS <= low /\ high <= High * FRAME_UNITS
  BY FrameLemma DEF HeapUnits, Low, High
<1>6. addr + 1 \in HeapUnits
  <2> HIDE DEF addr, size, low, high
  <2> QED
    BY <1>2, <1>3, <1>4, <1>5
<1>7. \A x : x \in Malloc!Extent(<<addr + 1, m>>)
               => x \in Int /\ addr <= x /\ x <= addr + size
  <2>1. m <= size
    OBVIOUS
  <2> HIDE DEF addr, size
  <2> QED
    BY <1>2, <2>1 DEF Malloc!Extent
<1>8. Malloc!Extent(<<addr + 1, m>>) \subseteq HeapUnits
  <2> HIDE DEF addr, size, low, high
  <2>1. ASSUME NEW x \in Int, addr <= x, x <= addr + size PROVE x \in HeapUnits
    BY <1>2, <1>3, <1>4, <1>5, <2>1
  <2> QED
    BY <1>7, <2>1
<1>9. ASSUME NEW b \in BlocksOf(l), NEW x \in Malloc!Extent(b),
             x \in Malloc!Extent(<<l[k].addr + 1, m>>)
      PROVE  FALSE
  <2>1. PICK j \in 1..Len(l) : l[j].used /\ b = <<l[j].addr + 1, l[j].size>>
    BY DEF BlocksOf
  <2>2. l[j].addr \in Nat /\ l[j].size \in Nat /\ j \in Nat /\ j # k
    BY <1>1, <2>1
  <2>3. x \in Int /\ l[j].addr <= x /\ x <= l[j].addr + l[j].size
    BY SMTT(30), <2>1, <2>2 DEF Malloc!Extent
  <2>4. x \in Int /\ l[k].addr <= x /\ x <= l[k].addr + l[k].size
    BY <1>7, <1>9
  <2>5. CASE j < k
    <3>1. l[j].addr + l[j].size < l[k].addr
      BY <1>1, <2>5, OrderLemma
    <3> QED
      BY <1>2, <2>2, <2>3, <2>4, <3>1
  <2>6. CASE k < j
    <3>1. l[k].addr + l[k].size < l[j].addr
      BY <1>1, <2>6, OrderLemma
    <3> QED
      BY <1>2, <2>2, <2>3, <2>4, <3>1
  <2> QED
    BY <1>1, <2>2, <2>5, <2>6
<1> QED
  BY <1>6, <1>8, <1>9

-----------------------------------------------------------------------------
(* The invariant is inductive, and each call is one of Malloc.             *)

(* The heap is empty when mem_setup has called kalloc_init.                *)
THEOREM InitInv == Init => IInv
<1> SUFFICES ASSUME Init PROVE IInv
  OBVIOUS
<1>1. list = <<>> /\ ret = 0 /\ chunk = 0
  BY DEF Init, NULL
<1>2. /\ frames \in [KernelFrame -> {FREE, USED, RESERVED}]
      /\ \A g \in KernelFrame : frames[g] # USED
      /\ \A g \in KernelFrame : frames[g] = RESERVED <=> g \in ReservedFrames \/ g < Low
  BY DEF Init, FREE, USED, RESERVED, Physical!FREE, Physical!USED, Physical!RESERVED, Low
<1>3. 0 \in KernelFrame
  BY FrameLemma
<1>4. TypeOK
  BY <1>1, <1>2, <1>3 DEF TypeOK, NULL, FREE, USED, RESERVED
<1> QED
  BY <1>1, <1>2, <1>4 DEF IInv, FramesInv, ListInv

(* The heap's first unit and its last, as an allocation sees them.         *)
LEMMA SpanLemma ==
  ASSUME IInv, list # <<>>
  PROVE  Low * FRAME_UNITS <= list[1].addr /\ EndAddr(list) <= High * FRAME_UNITS
<1>1. PICK a \in KernelFrame, e \in KernelFrame : Spans(a, e)
  BY DEF IInv, ListInv
<1>2. /\ Low \in Nat /\ High \in Nat /\ a \in Nat /\ e \in Nat /\ FRAME_UNITS \in Nat \ {0}
      /\ Low <= a /\ e <= High
      /\ list[1].addr = a * FRAME_UNITS /\ EndAddr(list) = e * FRAME_UNITS
  BY <1>1, FrameLemma DEF Spans
<1> QED
  BY <1>2, TimesLemma

(* An entry of the list fits.                                              *)
LEMMA FitStep ==
  ASSUME IInv, NEW bytes \in Requests, KallocFit(bytes)
  PROVE  IInv' /\ Malloc!Alloc(Units(bytes))
<1> DEFINE u == Units(bytes)
           k == FirstFit(list, u)
           t == Take(list, k, u)
<1>1. u \in Nat /\ list \in Seq(Entry)
  BY SizeLemma DEF IInv, TypeOK
<1> HIDE DEF u
<1>2. /\ k # 0 /\ list' = t /\ ret' = list[k].addr + 1
      /\ frames' = frames /\ chunk' = chunk
  BY DEF KallocFit, u
<1>3. k \in 1..Len(list) /\ ~list[k].used /\ list[k].size >= u
  <2>1. k \in 0..Len(list) /\ Len(list) \in Nat
    BY <1>1, FirstFitLemma
  <2> QED
    BY <1>1, <1>2, <2>1, FirstFitLemma
<1> HIDE DEF k
<1>4. list # <<>>
  BY <1>3, EmptySeq
<1>5. Chain(list) /\ FreeApart(list, 0)
  BY <1>4 DEF IInv, ListInv
<1>6. FreeApart(list, k) /\ (k = Len(list) \/ list[k + 1].used)
  <2>1. FreeApart(list, k)
    BY <1>5 DEF FreeApart
  <2>2. k # Len(list) => k \in 1..Len(list) - 1 /\ k # 0 /\ k + 1 # 0
    BY <1>1, <1>3
  <2> QED
    BY <1>3, <1>5, <2>1, <2>2 DEF FreeApart
<1>7. /\ Chain(t) /\ FreeApart(t, 0)
      /\ t[1].addr = list[1].addr /\ EndAddr(t) = EndAddr(list)
      /\ \E m \in {u, u + 1} :
           /\ m <= list[k].size
           /\ BlocksOf(t) = BlocksOf(list) \cup {<<list[k].addr + 1, m>>}
  BY <1>1, <1>3, <1>5, <1>6, TakeLemma
<1> HIDE DEF t
<1>8. PICK m \in {u, u + 1} : /\ m <= list[k].size
                             /\ BlocksOf(t) = BlocksOf(list) \cup {<<list[k].addr + 1, m>>}
  BY <1>7
<1>9. /\ list[k].addr + 1 \in HeapUnits
      /\ Malloc!Extent(<<list[k].addr + 1, m>>) \subseteq HeapUnits
      /\ \A b \in BlocksOf(list) :
           Malloc!Extent(b) \cap Malloc!Extent(<<list[k].addr + 1, m>>) = {}
  <2>1. m \in Nat
    BY <1>1
  <2> QED
    BY <1>3, <1>4, <1>5, <1>8, <2>1, SpanLemma, BlockLemma
<1>10. IInv'
  <2>1. TypeOK'
    BY <1>2, <1>7, <1>9 DEF IInv, TypeOK, Chain
  <2>2. FramesInv'
    BY <1>2 DEF IInv, FramesInv
  <2>3. PICK a \in KernelFrame, e \in KernelFrame : Spans(a, e)
    BY <1>4 DEF IInv, ListInv
  <2>4. Spans(a, e)'
    BY <1>2, <1>7, <2>3 DEF Spans, EndAddr
  <2>5. Chain(list') /\ FreeApart(list', 0) /\ list' # <<>>
    BY <1>2, <1>7 DEF Chain
  <2>6. ListInv'
    BY <2>4, <2>5 DEF ListInv, Chain, Adjacent, FreeApart
  <2> QED
    BY <2>1, <2>2, <2>6 DEF IInv
<1>11. Malloc!Alloc(u)
  <2>1. Blocks = BlocksOf(list) /\ Blocks' = BlocksOf(t)
    BY <1>2 DEF Blocks, BlocksOf
  <2> QED
    BY <1>2, <1>8, <1>9, <2>1 DEF Malloc!Alloc
<1> QED
  BY <1>10, <1>11 DEF u

(* No entry fits: the heap grows, or kalloc returns NULL.                  *)
LEMMA GrowStep ==
  ASSUME IInv, NEW bytes \in Requests, KallocGrow(bytes)
  PROVE  IInv' /\ Malloc!Alloc(Units(bytes))
<1> DEFINE u == Units(bytes)
           n == FramesFor(u)
<1>1. /\ u \in Nat /\ n \in Nat \ {0} /\ n * FRAME_UNITS - 1 \in Nat \ {0}
      /\ n * FRAME_UNITS - 1 >= u /\ list \in Seq(Entry)
  BY SizeLemma DEF IInv, TypeOK
<1>2. Physical!Allocate(n, Low, High)
  BY DEF KallocGrow, Low, High
<1>3. IF chunk' = NULL
      THEN ret' = NULL /\ list' = list
      ELSE LET grown == Append(list, Free(chunk' * FRAME_UNITS, n * FRAME_UNITS - 1))
           IN  list' = Take(grown, Len(grown), u) /\ ret' = chunk' * FRAME_UNITS + 1
  BY DEF KallocGrow
<1> HIDE DEF u, n
<1>4. Low \in Nat \ {0} /\ High \in Nat /\ KernelFrame = 0..High /\ FRAME_UNITS \in Nat \ {0}
  BY FrameLemma
(* No run of free frames is long enough. *)
<1>5. CASE chunk' = NULL
  <2>1. frames' = frames
    <3>1. \A s \in Physical!Fits(frames, n, Low, High) : s # NULL
      BY <1>1, <1>4 DEF Physical!Fits, NULL
    <3> QED
      BY <1>2, <1>5, <3>1 DEF Physical!Allocate
  <2>2. ret' = NULL /\ list' = list
    BY <1>3, <1>5
  <2>3. TypeOK'
    BY <1>4, <1>5, <2>1, <2>2 DEF IInv, TypeOK, NULL
  <2>4. FramesInv' /\ ListInv'
    BY <2>1, <2>2 DEF IInv, FramesInv, ListInv, Spans, EndAddr, Chain, Adjacent, FreeApart
  <2>5. Malloc!Alloc(u)
    BY <2>2 DEF Malloc!Alloc, Blocks, NULL, Malloc!NULL
  <2> QED
    BY <2>3, <2>4, <2>5 DEF IInv, u
(* One is: its frames become the last entry, from which the block is taken. *)
<1>6. CASE chunk' # NULL
  <2>0. PICK s \in Physical!Fits(frames, n, Low, High) :
               /\ \A r \in Physical!Fits(frames, n, Low, High) : s <= r
               /\ chunk' = s
               /\ frames' = Physical!Mark(frames, Physical!Block(s, n), USED)
    BY <1>2, <1>6 DEF Physical!Allocate, NULL, Physical!NULL, USED, Physical!USED
  <2> DEFINE M == Physical!Mark(frames, Physical!Block(s, n), USED)
             addr == s * FRAME_UNITS
             size == n * FRAME_UNITS - 1
             grown == Grown(list, addr, size)
             k == Len(grown)
             t == Take(grown, k, u)
  <2>1. /\ s \in Physical!Fits(frames, n, Low, High)
        /\ \A r \in Physical!Fits(frames, n, Low, High) : s <= r
        /\ frames' = M /\ chunk' = s
    BY <2>0
  <2>2. list' = t /\ ret' = addr + 1
    BY <1>3, <1>6, <2>1 DEF Grown
  <2> HIDE DEF M
  <2>3. /\ s \in Nat /\ Low <= s /\ s + n <= High
        /\ list # <<>> => EndAddr(list) = addr
        /\ M \in [KernelFrame -> {FREE, USED, RESERVED}]
        /\ \A g \in KernelFrame : M[g] = RESERVED <=> g \in ReservedFrames \/ g < Low
        /\ \E a \in KernelFrame :
             /\ Low <= a /\ a <= s
             /\ \A g \in KernelFrame : M[g] = USED <=> a <= g /\ g < s + n
             /\ \A g \in Low..a - 1 : M[g] # FREE
             /\ IF list = <<>> THEN a = s ELSE list[1].addr = a * FRAME_UNITS
    BY <1>1, <2>1, GrowLemma DEF M
  <2>4. addr \in Nat /\ size \in Nat \ {0} /\ addr + size + 1 = (s + n) * FRAME_UNITS
    BY SMTT(30), <1>1, <1>4, <2>3
  <2>5. PICK a \in KernelFrame :
             /\ Low <= a /\ a <= s
             /\ \A g \in KernelFrame : M[g] = USED <=> a <= g /\ g < s + n
             /\ \A g \in Low..a - 1 : M[g] # FREE
             /\ IF list = <<>> THEN a = s ELSE list[1].addr = a * FRAME_UNITS
    BY <2>3
  <2> HIDE DEF addr, size
  <2>6. list # <<>> => Chain(list) /\ FreeApart(list, 0)
    BY DEF IInv, ListInv
  <2>7. /\ Chain(grown) /\ FreeApart(grown, k)
        /\ grown[k].addr = addr /\ grown[k].size = size /\ ~grown[k].used
        /\ grown[1].addr = IF list = <<>> THEN addr ELSE list[1].addr
        /\ EndAddr(grown) = addr + size + 1
        /\ BlocksOf(grown) = BlocksOf(list)
    BY <1>1, <2>3, <2>4, <2>6, AppendLemma
  <2> HIDE DEF grown, k
  <2>8. k \in 1..Len(grown) /\ k = Len(grown)
    BY <2>7, EntryLemma, EmptySeq DEF Chain, k
  <2>9. /\ Chain(t) /\ FreeApart(t, 0)
        /\ t[1].addr = grown[1].addr /\ EndAddr(t) = EndAddr(grown)
        /\ \E m \in {u, u + 1} :
             /\ m <= size
             /\ BlocksOf(t) = BlocksOf(list) \cup {<<addr + 1, m>>}
    <3>1. grown[k].size >= u
      BY <1>1, <2>7 DEF size
    <3>2. /\ Chain(t) /\ FreeApart(t, 0)
          /\ t[1].addr = grown[1].addr /\ EndAddr(t) = EndAddr(grown)
          /\ \E m \in {u, u + 1} :
               /\ m <= grown[k].size
               /\ BlocksOf(t) = BlocksOf(grown) \cup {<<grown[k].addr + 1, m>>}
      BY <1>1, <2>7, <2>8, <3>1, TakeLemma
    <3> QED
      BY <2>7, <3>2
  <2> HIDE DEF t
  <2>10. PICK m \in {u, u + 1} : /\ m <= size
                                /\ BlocksOf(t) = BlocksOf(list) \cup {<<addr + 1, m>>}
    BY <2>9
  <2>11. t[1].addr = a * FRAME_UNITS /\ EndAddr(t) = (s + n) * FRAME_UNITS
    BY <2>4, <2>5, <2>7, <2>9 DEF addr
  <2>12. Low * FRAME_UNITS <= grown[1].addr /\ EndAddr(grown) <= High * FRAME_UNITS
    <3>1. a \in Nat /\ s + n \in Nat
      BY <1>1, <1>4, <2>3
    <3> QED
      <4>1. Low * FRAME_UNITS <= a * FRAME_UNITS
        BY <1>4, <2>5, <3>1, TimesLemma
      <4>2. (s + n) * FRAME_UNITS <= High * FRAME_UNITS
        BY <1>4, <2>3, <3>1, TimesLemma
      <4> QED
        BY <2>9, <2>11, <4>1, <4>2
  <2>13. /\ addr + 1 \in HeapUnits
         /\ Malloc!Extent(<<addr + 1, m>>) \subseteq HeapUnits
         /\ \A b \in BlocksOf(list) :
              Malloc!Extent(b) \cap Malloc!Extent(<<addr + 1, m>>) = {}
    <3>1. m \in Nat /\ m <= grown[k].size
      BY <1>1, <2>7, <2>10
    <3>2. /\ grown[k].addr + 1 \in HeapUnits
          /\ Malloc!Extent(<<grown[k].addr + 1, m>>) \subseteq HeapUnits
          /\ \A b \in BlocksOf(grown) :
               Malloc!Extent(b) \cap Malloc!Extent(<<grown[k].addr + 1, m>>) = {}
      BY <2>7, <2>8, <2>12, <3>1, BlockLemma
    <3> QED
      BY <2>7, <3>2
  <2>14. TypeOK'
    <3>1. s \in KernelFrame
      BY <1>1, <1>4, <2>3
    <3>2. list' \in Seq(Entry)
      BY <2>2, <2>9 DEF Chain
    <3> QED
      BY <2>1, <2>2, <2>3, <2>13, <3>1, <3>2 DEF TypeOK, FREE, USED, RESERVED
  <2>15. FramesInv'
    BY <2>1, <2>3 DEF FramesInv
  <2>16. ListInv'
    <3>1. s + n \in KernelFrame /\ a < s + n
      BY <1>1, <1>4, <2>3, <2>5
    <3>2. Spans(a, s + n)'
      BY <2>1, <2>2, <2>3, <2>5, <2>11, <3>1 DEF Spans, EndAddr
    <3>3. Chain(list') /\ FreeApart(list', 0) /\ list' # <<>>
      BY <2>2, <2>9 DEF Chain
    <3> QED
      BY <3>1, <3>2, <3>3 DEF ListInv, Chain, Adjacent, FreeApart
  <2>17. Malloc!Alloc(u)
    <3>1. Blocks = BlocksOf(list) /\ Blocks' = BlocksOf(t)
      BY <2>2 DEF Blocks, BlocksOf
    <3> QED
      BY <2>2, <2>10, <2>13, <3>1 DEF Malloc!Alloc
  <2> QED
    BY <2>14, <2>15, <2>16, <2>17 DEF IInv, u
<1> QED
  BY <1>5, <1>6

(* A stray or a second kfree changes nothing. *)
LEMMA KfreeStep ==
  ASSUME IInv, NEW p, kfree(p)
  PROVE  IInv' /\ ((\E b \in Blocks : Malloc!Free(b)) \/ Malloc!FreeStray)
<1> DEFINE k == Holder(list, p)
<1>1. list \in Seq(Entry) /\ k \in 0..Len(list) /\ Len(list) \in Nat
  BY HolderLemma DEF IInv, TypeOK
<1>2. /\ list' = IF k = 0 \/ ~list[k].used THEN list
                 ELSE JoinPrevious(JoinNext([list EXCEPT ![k].used = FALSE], k), k)
      /\ ret' = NULL /\ frames' = frames /\ chunk' = chunk
  BY Zenon DEF kfree, Holder
<1> HIDE DEF k
<1>3. CASE k = 0 \/ ~list[k].used
  <2>1. list' = list
    BY <1>2, <1>3
  <2>2. IInv'
    BY <1>2, <2>1 DEF IInv, TypeOK, FramesInv, ListInv, Spans, EndAddr, Chain, Adjacent, FreeApart
  <2>3. Malloc!FreeStray
    BY <1>2, <2>1 DEF Malloc!FreeStray, Blocks, NULL, Malloc!NULL
  <2> QED
    BY <2>2, <2>3
<1>4. CASE ~(k = 0 \/ ~list[k].used)
  <2> DEFINE t == JoinPrevious(JoinNext([list EXCEPT ![k].used = FALSE], k), k)
             b == <<list[k].addr + 1, list[k].size>>
  <2>1. k \in 1..Len(list) /\ list[k].used /\ list # <<>>
    BY <1>1, <1>4, EmptySeq
  <2>2. Chain(list) /\ FreeApart(list, 0)
    BY <2>1 DEF IInv, ListInv
  <2>3. /\ Chain(t) /\ FreeApart(t, 0)
        /\ t[1].addr = list[1].addr /\ EndAddr(t) = EndAddr(list)
        /\ BlocksOf(t) = BlocksOf(list) \ {b}
    BY <2>1, <2>2, FreeLemma
  <2>4. list' = t
    BY <1>2, <1>4
  <2> HIDE DEF t
  <2>5. TypeOK'
    BY <1>2, <2>3, <2>4 DEF IInv, TypeOK, Chain
  <2>6. FramesInv'
    BY <1>2 DEF IInv, FramesInv
  <2>7. ListInv'
    <3>1. PICK a \in KernelFrame, e \in KernelFrame : Spans(a, e)
      BY <2>1 DEF IInv, ListInv
    <3>2. Spans(a, e)'
      BY <1>2, <2>3, <2>4, <3>1 DEF Spans, EndAddr
    <3>3. Chain(list') /\ FreeApart(list', 0) /\ list' # <<>>
      BY <2>3, <2>4 DEF Chain
    <3> QED
      BY <3>2, <3>3 DEF ListInv, Chain, Adjacent, FreeApart
  <2>8. b \in Blocks
    BY <2>1 DEF Blocks
  <2>9. Malloc!Free(b)
    <3>1. Blocks = BlocksOf(list) /\ Blocks' = BlocksOf(t)
      BY <2>4 DEF Blocks, BlocksOf
    <3> QED
      BY <1>2, <2>3, <3>1 DEF Malloc!Free, NULL, Malloc!NULL
  <2> QED
    BY <2>5, <2>6, <2>7, <2>8, <2>9 DEF IInv
<1> QED
  BY <1>3, <1>4

(* The invariant is inductive.                                             *)
THEOREM NextInv == IInv /\ [Next]_vars => IInv'
<1> SUFFICES ASSUME IInv, [Next]_vars PROVE IInv'
  OBVIOUS
<1>1. ASSUME NEW bytes \in Requests, kalloc(bytes) PROVE IInv'
  BY <1>1, FitStep, GrowStep DEF kalloc
<1>2. ASSUME NEW p \in HeapUnits \cup {NULL}, kfree(p) PROVE IInv'
  BY <1>2, KfreeStep
<1>3. CASE UNCHANGED vars
  BY <1>3 DEF vars, IInv, TypeOK, FramesInv, ListInv, Spans, EndAddr, Chain, Adjacent, FreeApart
<1> QED
  BY <1>1, <1>2, <1>3 DEF Next

(* The invariant holds of every behaviour.                                 *)
THEOREM Invariance == Spec => []IInv
BY InitInv, NextInv, PTL DEF Spec

(* The entries tile the frames that the heap has taken: no memory is lost  *)
(* between them and none belongs to two (mem.c:331-340, 391-404).          *)
THEOREM Tiling == Spec => []Tiles
<1>1. ASSUME IInv PROVE Tiles
  <2> DEFINE F == {h \in KernelFrame : frames[h] = USED}
             units(g) == g * FRAME_UNITS .. (g + 1) * FRAME_UNITS - 1
  <2>0. list \in Seq(Entry) /\ Len(list) \in Nat
    BY <1>1 DEF IInv, TypeOK
  <2>1. CASE list = <<>>
    <3>1. Len(list) = 0 /\ F = {}
      BY <1>1, <2>1, EmptySeq DEF IInv, ListInv
    <3>2. /\ \A k \in 1..Len(list) - 1 : list[k + 1].addr = list[k].addr + list[k].size + 1
          /\ UNION {UnitsOf(list[k]) : k \in 1..Len(list)} = {}
      BY <3>1
    <3>3. UNION {units(g) : g \in F} = {}
      BY <3>1
    <3> QED
      BY <1>1, <3>2, <3>3 DEF IInv, Tiles, USED
  <2>2. CASE list # <<>>
    <3>1. Chain(list)
      BY <1>1, <2>2 DEF IInv, ListInv
    <3>2. PICK a \in KernelFrame, e \in KernelFrame : Spans(a, e)
      BY <1>1, <2>2 DEF IInv, ListInv
    <3>3. a \in Nat /\ e \in Nat
      BY FrameLemma
    <3>4. F = a..e - 1
      BY <3>2, <3>3, FrameLemma DEF Spans
    <3>5. UNION {units(g) : g \in F} = a * FRAME_UNITS .. e * FRAME_UNITS - 1
      BY <3>3, <3>4, UnitsLemma
    <3>6. UNION {UnitsOf(list[k]) : k \in 1..Len(list)} = a * FRAME_UNITS .. e * FRAME_UNITS - 1
      BY <3>1, <3>2, CoverLemma DEF Spans
    <3>7. \A k \in 1..Len(list) - 1 : list[k + 1].addr = list[k].addr + list[k].size + 1
      BY <3>1 DEF Chain, Adjacent
    <3> QED
      BY <1>1, <3>5, <3>6, <3>7 DEF IInv, Tiles, USED
  <2> QED
    BY <2>1, <2>2
<1> QED
  BY <1>1, Invariance, PTL

(* What was freed is joined with its neighbours (mem.c:389-404).           *)
THEOREM FreeJoined == Spec => []NoFreeNeighbours
<1>1. ASSUME IInv PROVE NoFreeNeighbours
  <2>1. CASE list = <<>>
    <3>1. Len(list) = 0
      BY <2>1
    <3> QED
      BY <3>1 DEF NoFreeNeighbours
  <2>2. CASE list # <<>>
    <3>1. FreeApart(list, 0) /\ Len(list) \in Nat
      BY <1>1, <2>2 DEF IInv, ListInv, TypeOK
    <3>2. \A k \in 1..Len(list) - 1 : k # 0 /\ k + 1 # 0
      BY <3>1
    <3> QED
      BY <3>1, <3>2 DEF NoFreeNeighbours, FreeApart
  <2> QED
    BY <2>1, <2>2
<1> QED
  BY <1>1, Invariance, PTL

(* kalloc hands out blocks that are large enough and overlap no other, and *)
(* kfree takes back the one it is given or has no effect (mem.c:311,       *)
(* 376-385).                                                               *)
THEOREM Refinement == Spec => ImplementsMalloc
<1>1. Init => Malloc!Init
  <2> SUFFICES ASSUME Init PROVE Malloc!Init
    OBVIOUS
  <2>1. Len(list) = 0 /\ ret = 0
    BY DEF Init, NULL
  <2>2. Blocks = {}
    BY <2>1 DEF Blocks
  <2> QED
    BY <2>1, <2>2 DEF Malloc!Init, Malloc!NULL
<1>2. IInv /\ [Next]_vars => [Malloc!Next]_<<Blocks, ret>>
  <2> SUFFICES ASSUME IInv, [Next]_vars PROVE [Malloc!Next]_<<Blocks, ret>>
    OBVIOUS
  <2>1. ASSUME NEW bytes \in Requests, kalloc(bytes) PROVE Malloc!Next
    <3>1. Malloc!Alloc(Units(bytes))
      BY <2>1, FitStep, GrowStep DEF kalloc
    <3> QED
      BY <3>1 DEF Malloc!Next
  <2>2. ASSUME NEW p \in HeapUnits \cup {NULL}, kfree(p) PROVE Malloc!Next
    BY <2>2, KfreeStep DEF Malloc!Next
  <2>3. CASE UNCHANGED vars
    BY <2>3 DEF vars, Blocks
  <2> QED
    BY <2>1, <2>2, <2>3 DEF Next
<1> QED
  BY <1>1, <1>2, Invariance, PTL DEF Spec, ImplementsMalloc, Malloc!Spec
=============================================================================
