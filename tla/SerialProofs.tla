---------------------------- MODULE SerialProofs ----------------------------
(***************************************************************************)
(* Proofs about Serial: the kernel's lock keeps the handler and the reader *)
(* of the ring apart, and the ring implements LossyQueue, for every size   *)
(* of the ring and every sequence of bytes.                                *)
(***************************************************************************)
EXTENDS Serial, SequenceTheorems, TLAPS

(* The interrupt flag, who runs and where the thread is go together: while *)
(* a handler runs, interrupts are disabled and the thread was not between  *)
(* lock and unlock; while none does, they are disabled just there.         *)
LockInv ==
  /\ hpc # "none" => itr_status = "IN" /\ ints = FALSE /\ isr # {}
                       /\ mpc \notin {"copy", "unlock"}
  /\ hpc = "none" => itr_status = "NOT_IN" /\ isr = {}
                       /\ (ints = FALSE <=> mpc \in {"copy", "unlock"})

(* The handler fetches a byte only when there is one. *)
FetchInv == hpc = "fetch" => fifo # <<>>

IInv == TypeOK /\ LockInv /\ FetchInv

(* NextSlot goes around the ring.                                          *)
LEMMA NextSlotLemma ==
  ASSUME NEW h \in Slots
  PROVE  NextSlot(h) \in Slots /\ NextSlot(h) = IF h = N - 1 THEN 0 ELSE h + 1
<1>1. N \in Nat /\ N >= 2 /\ h \in 0..N-1
  BY SerialAssumption DEF N, Slots
<1>2. CASE h = N - 1
  <2>1. h + 1 = N /\ N % N = 0
    BY <1>1, <1>2
  <2> QED
    BY <1>1, <1>2, <2>1 DEF NextSlot, Slots
<1>3. CASE h # N - 1
  <2>1. h + 1 \in 0..N-1
    BY <1>1, <1>3
  <2>2. (h + 1) % N = h + 1
    BY <2>1, <1>1
  <2> QED
    BY <1>3, <2>1, <2>2 DEF NextSlot, Slots
<1> QED
  BY <1>2, <1>3

(* The state that serial_init leaves satisfies the invariant.              *)
THEOREM InitInv == Init => IInv
<1> SUFFICES ASSUME Init PROVE IInv
  OBVIOUS
<1>1. TypeOK
  <2>1. 0 \in Slots
    BY SerialAssumption DEF N, Slots
  <2>2. ItrTypeOK
    BY SerialAssumption DEF Init, ItrTypeOK
  <2>3. fifo \in Seq(Byte) /\ Len(fifo) <= FifoLen
    BY SerialAssumption DEF Init
  <2> QED
    BY <2>1, <2>2, <2>3 DEF Init, TypeOK
<1>2. LockInv /\ FetchInv
  BY DEF Init, LockInv, FetchInv
<1> QED
  BY <1>1, <1>2 DEF IInv

(* Each step keeps the types.                                              *)
LEMMA TypeStep ==
  ASSUME IInv, [Next]_vars
  PROVE  TypeOK'
<1> USE SerialAssumption DEF IInv
<1>1. ASSUME NEW b \in Byte, Receive(b) PROVE TypeOK'
  <2>1. fifo' \in Seq(Byte) /\ Len(fifo') <= FifoLen
    BY <1>1 DEF Receive, TypeOK
  <2> QED
    BY <1>1, <2>1 DEF Receive, Rise, TypeOK, ItrTypeOK, ringVars, readVars
<1>2. CASE Transmit
  BY <1>2 DEF Transmit, Rise, TypeOK, ItrTypeOK, ringVars, readVars
<1>3. CASE KeyPress
  BY <1>3 DEF KeyPress, Rise, TypeOK, ItrTypeOK, uartVars, ringVars, readVars
<1>4. CASE HandlerEnter \/ KbHandlerEnter
  BY <1>4 DEF HandlerEnter, KbHandlerEnter, TakeInterrupt, TypeOK, ItrTypeOK, uartVars,
     ringVars, readVars
<1>5. CASE HandlerIdentify
  BY <1>5 DEF HandlerIdentify, TypeOK, ItrTypeOK, itrVars, ringVars, readVars
<1>6. CASE HandlerFetch
  <2>1. fifo # <<>>
    BY <1>6 DEF HandlerFetch, FetchInv
  <2>2. Head(fifo) \in Byte /\ Tail(fifo) \in Seq(Byte) /\ Len(Tail(fifo)) <= FifoLen
    BY <2>1 DEF TypeOK
  <2>3. NextSlot(write_head) \in Slots
    BY NextSlotLemma DEF TypeOK
  <2> QED
    BY <1>6, <2>2, <2>3 DEF HandlerFetch, unlock, TypeOK, ItrTypeOK, readVars
<1>7. CASE HandlerLeave
  BY <1>7 DEF HandlerLeave, pic_send_eoi, LeaveInterrupt, TypeOK, ItrTypeOK, uartVars,
     ringVars, readVars
<1>8. ASSUME NEW c \in Counts, CallRead(c) PROVE TypeOK'
  BY <1>8 DEF CallRead, TypeOK, ItrTypeOK, itrVars, uartVars, ringVars
<1>9. CASE ReadCopy
  <2>1. NextSlot(read_head) \in Slots
    BY NextSlotLemma DEF TypeOK
  <2> QED
    BY <1>9, <2>1 DEF ReadCopy, TypeOK, ItrTypeOK, itrVars, uartVars
<1>10. CASE ReadCheck
  BY <1>10 DEF ReadCheck, TypeOK, ItrTypeOK, itrVars, uartVars, ringVars
<1>11. CASE ReadHalt
  BY <1>11 DEF ReadHalt, hw_hlt, TypeOK, ItrTypeOK, uartVars, ringVars
<1>12. CASE ReadLock
  BY <1>12 DEF ReadLock, lock, TypeOK, ItrTypeOK, uartVars, ringVars
<1>13. CASE ReadUnlock
  BY <1>13 DEF ReadUnlock, unlock, TypeOK, ItrTypeOK, uartVars, ringVars
<1>14. CASE WriteByte \/ CallWrite
  BY <1>14 DEF WriteByte, CallWrite, TypeOK, ItrTypeOK, itrVars, uartVars, ringVars
<1>15. CASE UNCHANGED vars
  BY <1>15 DEF vars, itrVars, uartVars, ringVars, readVars, TypeOK, ItrTypeOK
<1> QED
  BY <1>1, <1>2, <1>3, <1>4, <1>5, <1>6, <1>7, <1>8, <1>9, <1>10, <1>11, <1>12,
     <1>13, <1>14, <1>15
  DEF Next, Handler, Reader, Call

(* Each step keeps the flag and the places together.                       *)
LEMMA LockStep ==
  ASSUME IInv, [Next]_vars
  PROVE  LockInv' /\ FetchInv'
<1> USE DEF IInv, LockInv, FetchInv
<1>1. ASSUME NEW b \in Byte, Receive(b) PROVE LockInv' /\ FetchInv'
  <2>1. Append(fifo, b) # <<>>
    BY DEF TypeOK
  <2> QED
    BY <1>1, <2>1 DEF Receive, readVars
<1>2. CASE Transmit \/ KeyPress
  BY <1>2 DEF Transmit, KeyPress, uartVars, readVars
<1>3. CASE HandlerEnter \/ KbHandlerEnter
  BY <1>3 DEF HandlerEnter, KbHandlerEnter, TakeInterrupt, uartVars, readVars
<1>4. CASE HandlerIdentify \/ HandlerFetch
  BY <1>4 DEF HandlerIdentify, HandlerFetch, unlock, itrVars, readVars
<1>5. CASE HandlerLeave
  BY <1>5 DEF HandlerLeave, pic_send_eoi, LeaveInterrupt, readVars
<1>6. CASE Call
  BY <1>6 DEF Call, CallRead, CallWrite, Running, itrVars, uartVars
<1>7. CASE ReadCheck \/ ReadHalt \/ ReadCopy \/ WriteByte
  BY <1>7 DEF ReadCheck, ReadHalt, ReadCopy, WriteByte, hw_hlt, Running, itrVars, uartVars
<1>8. CASE ReadLock \/ ReadUnlock
  BY <1>8 DEF ReadLock, ReadUnlock, lock, unlock, Running, uartVars
<1>9. CASE UNCHANGED vars
  BY <1>9 DEF vars, itrVars, uartVars, readVars
<1> QED
  BY <1>1, <1>2, <1>3, <1>4, <1>5, <1>6, <1>7, <1>8, <1>9 DEF Next, Handler, Reader

(* The invariant is inductive.                                             *)
THEOREM NextInv == IInv /\ [Next]_vars => IInv'
BY TypeStep, LockStep DEF IInv

(* The invariant holds of every behaviour.                                 *)
THEOREM Invariance == Spec => []IInv
BY InitInv, NextInv, PTL DEF Spec

(* Type correctness; the heads of the ring never leave it.                 *)
THEOREM TypeCorrect == Spec => []TypeOK
<1>1. IInv => TypeOK
  BY DEF IInv
<1> QED
  BY <1>1, Invariance, PTL

(* No unlock inside a handler enables interrupts (lock.h:15-21).           *)
THEOREM Uninterrupted == Spec => []HandlersUninterrupted
<1>1. IInv => HandlersUninterrupted
  BY DEF IInv, LockInv, HandlersUninterrupted
<1> QED
  BY <1>1, Invariance, PTL

(* No handler runs while the thread is between lock and unlock (lock.h:    *)
(* 26-38).                                                                 *)
THEOREM MutualExclusion == Spec => []CriticalSectionAlone
<1>1. IInv => CriticalSectionAlone
  BY DEF IInv, LockInv, CriticalSectionAlone
<1> QED
  BY <1>1, Invariance, PTL

-----------------------------------------------------------------------------
(* Refinement.                                                             *)

AnyByte == Byte \cup {NoByte}

(* The ring read as a sequence.                                            *)
LEMMA ContentsLemma ==
  ASSUME NEW buf \in [Slots -> AnyByte], NEW w \in Slots, NEW rd \in Slots
  PROVE  /\ Used(w, rd) \in 0..N-1
         /\ ContentsOf(buf, w, rd) \in Seq(AnyByte)
         /\ Len(ContentsOf(buf, w, rd)) = Used(w, rd)
         /\ \A k \in 1..Used(w, rd) : /\ SlotOf(rd, k) \in Slots
                                     /\ ContentsOf(buf, w, rd)[k] = buf[SlotOf(rd, k)]
<1>1. N \in Nat /\ w \in 0..N-1 /\ rd \in 0..N-1
  BY SerialAssumption DEF N, Slots
<1>2. Used(w, rd) \in 0..N-1
  BY <1>1 DEF Used
<1>3. \A k \in 1..Used(w, rd) : SlotOf(rd, k) \in Slots
  BY <1>1 DEF Used, SlotOf, Slots
<1>4. ContentsOf(buf, w, rd) \in [1..Used(w, rd) -> AnyByte]
  BY <1>3 DEF ContentsOf
<1>5. ContentsOf(buf, w, rd) \in Seq(AnyByte)
  BY <1>2, <1>4, SeqDef
<1>6. Len(ContentsOf(buf, w, rd)) = Used(w, rd)
  BY <1>2, <1>4, <1>5, LenProperties
<1> QED
  BY <1>2, <1>3, <1>5, <1>6 DEF ContentsOf

(* A byte stored at the write head goes to the end of the sequence; when   *)
(* the head reaches the read head the ring is empty.                       *)
LEMMA PutLemma ==
  ASSUME NEW buf \in [Slots -> AnyByte], NEW w \in Slots, NEW rd \in Slots, NEW b \in AnyByte
  PROVE  ContentsOf([buf EXCEPT ![w] = b], NextSlot(w), rd)
           = IF Len(ContentsOf(buf, w, rd)) = N - 1 THEN <<>>
             ELSE Append(ContentsOf(buf, w, rd), b)
<1> DEFINE C  == ContentsOf(buf, w, rd)
           new == [buf EXCEPT ![w] = b]
           w1 == NextSlot(w)
           D  == ContentsOf(new, w1, rd)
<1>1. N \in Nat /\ N >= 2 /\ w \in 0..N-1 /\ rd \in 0..N-1
  BY SerialAssumption DEF N, Slots
<1>2. w1 \in Slots /\ w1 = IF w = N - 1 THEN 0 ELSE w + 1
  BY NextSlotLemma
<1>3. new \in [Slots -> AnyByte] /\ \A k \in Slots : new[k] = IF k = w THEN b ELSE buf[k]
  OBVIOUS
<1> HIDE DEF w1, new
<1>4. /\ C \in Seq(AnyByte) /\ Len(C) = Used(w, rd) /\ Used(w, rd) \in 0..N-1
      /\ \A k \in 1..Used(w, rd) : SlotOf(rd, k) \in Slots /\ C[k] = buf[SlotOf(rd, k)]
  BY ContentsLemma
<1>5. /\ D \in Seq(AnyByte) /\ Len(D) = Used(w1, rd)
      /\ \A k \in 1..Used(w1, rd) : SlotOf(rd, k) \in Slots /\ D[k] = new[SlotOf(rd, k)]
  BY ZenonT(40), <1>2, <1>3, ContentsLemma
<1> HIDE DEF C, D
<1>6. CASE Len(C) = N - 1
  <2>1. Used(w1, rd) = 0
    BY <1>1, <1>2, <1>4, <1>6 DEF Used
  <2>2. D = <<>>
    BY <2>1, <1>5, EmptySeq
  <2> QED
    BY <1>6, <2>2 DEF C, D, w1, new
<1>7. CASE Len(C) # N - 1
  <2>1. Used(w1, rd) = Used(w, rd) + 1
    BY <1>1, <1>2, <1>4, <1>7 DEF Used
  <2>2. \A k \in 1..Used(w, rd) : SlotOf(rd, k) # w
    BY <1>1 DEF Used, SlotOf
  <2>3. SlotOf(rd, Used(w, rd) + 1) = w
    BY <1>1 DEF Used, SlotOf
  <2>4. /\ Append(C, b) \in Seq(AnyByte) /\ Len(Append(C, b)) = Used(w, rd) + 1
        /\ \A k \in 1..Used(w, rd) + 1 :
             Append(C, b)[k] = IF k = Used(w, rd) + 1 THEN b ELSE C[k]
    BY <1>4
  <2>5. ASSUME NEW k \in 1..Used(w, rd) + 1
        PROVE  D[k] = Append(C, b)[k]
    <3>1. CASE k = Used(w, rd) + 1
      BY <3>1, <2>1, <2>3, <2>4, <1>3, <1>5
    <3>2. CASE k # Used(w, rd) + 1
      <4>1. k \in 1..Used(w, rd)
        BY <3>2, <1>4
      <4> QED
        BY <4>1, <3>2, <2>1, <2>2, <2>4, <1>3, <1>4, <1>5
    <3> QED
      BY <3>1, <3>2
  <2>6. D = Append(C, b)
    BY <2>1, <2>4, <2>5, <1>5, SeqEqual
  <2> QED
    BY <1>7, <2>6 DEF C, D, w1, new
<1> QED
  BY <1>6, <1>7

(* The byte at the read head is the first of the sequence.                 *)
LEMMA GetLemma ==
  ASSUME NEW buf \in [Slots -> AnyByte], NEW w \in Slots, NEW rd \in Slots, w # rd
  PROVE  /\ ContentsOf(buf, w, rd) # <<>>
         /\ Head(ContentsOf(buf, w, rd)) = buf[rd]
         /\ ContentsOf(buf, w, NextSlot(rd)) = Tail(ContentsOf(buf, w, rd))
<1> DEFINE C  == ContentsOf(buf, w, rd)
           r1 == NextSlot(rd)
           D  == ContentsOf(buf, w, r1)
<1>1. N \in Nat /\ N >= 2 /\ w \in 0..N-1 /\ rd \in 0..N-1
  BY SerialAssumption DEF N, Slots
<1>2. r1 \in Slots /\ r1 = IF rd = N - 1 THEN 0 ELSE rd + 1
  BY NextSlotLemma
<1> HIDE DEF r1
<1>3. /\ C \in Seq(AnyByte) /\ Len(C) = Used(w, rd) /\ Used(w, rd) \in 0..N-1
      /\ \A k \in 1..Used(w, rd) : C[k] = buf[SlotOf(rd, k)]
  BY ContentsLemma
<1>4. /\ D \in Seq(AnyByte) /\ Len(D) = Used(w, r1)
      /\ \A k \in 1..Used(w, r1) : D[k] = buf[SlotOf(r1, k)]
  BY ZenonT(40), <1>2, ContentsLemma
<1> HIDE DEF C, D
<1>5. Used(w, rd) >= 1 /\ Used(w, r1) = Used(w, rd) - 1
  BY <1>1, <1>2 DEF Used
<1>6. SlotOf(rd, 1) = rd
  BY <1>1 DEF SlotOf
<1>7. C # <<>> /\ Head(C) = buf[rd]
  BY <1>3, <1>5, <1>6, EmptySeq
<1>8. /\ Tail(C) \in Seq(AnyByte) /\ Len(Tail(C)) = Used(w, rd) - 1
      /\ \A k \in 1..Used(w, rd) - 1 : Tail(C)[k] = C[k + 1]
  BY <1>3, <1>7, HeadTailProperties
<1>9. ASSUME NEW k \in 1..Used(w, r1)
      PROVE  D[k] = Tail(C)[k]
  <2>1. SlotOf(r1, k) = SlotOf(rd, k + 1)
    BY <1>1, <1>2, <1>3, <1>5 DEF SlotOf
  <2>2. k + 1 \in 1..Used(w, rd) /\ k \in 1..Used(w, rd) - 1
    BY <1>3, <1>5
  <2> QED
    BY <2>1, <2>2, <1>3, <1>4, <1>8
<1>10. D = Tail(C)
  BY <1>4, <1>5, <1>8, <1>9, SeqEqual
<1> QED
  BY <1>7, <1>10 DEF C, D, r1

(* The ring, between the handler and serial_read, is a queue that loses    *)
(* its bytes when it overflows (serial.c:254-261, 356-384).                *)
THEOREM Refinement == Spec => ImplementsQueue
<1>1. Init => Queue!Init
  <2> SUFFICES ASSUME Init PROVE Queue!Init
    OBVIOUS
  <2>1. Used(0, 0) = 0 /\ 0 \in Slots /\ buffer \in [Slots -> AnyByte]
    BY SerialAssumption DEF Used, Init, Slots, N, AnyByte
  <2>2. Contents \in Seq(AnyByte) /\ Len(Contents) = 0
    BY <2>1, ContentsLemma DEF Init, Contents
  <2> QED
    BY <2>2, EmptySeq DEF Init, Queue!Init
<1>2. IInv /\ [Next]_vars => [Queue!Next]_<<Contents, out>>
  <2> SUFFICES ASSUME IInv, [Next]_vars
               PROVE  Queue!Next \/ UNCHANGED <<Contents, out>>
    OBVIOUS
  <2>1. buffer \in [Slots -> AnyByte] /\ write_head \in Slots /\ read_head \in Slots
    BY DEF IInv, TypeOK, AnyByte
  <2>2. CASE HandlerFetch
    <3>1. fifo \in Seq(Byte) /\ fifo # <<>>
      BY <2>2 DEF HandlerFetch, IInv, TypeOK, FetchInv
    <3>2. PICK b \in Byte : b = Head(fifo)
      BY <3>1, HeadTailProperties
    <3>3. Contents' = ContentsOf([buffer EXCEPT ![write_head] = b], NextSlot(write_head), read_head)
      BY <2>2, <3>2 DEF HandlerFetch, Contents
    <3>4. Contents' = IF Len(Contents) = N - 1 THEN <<>> ELSE Append(Contents, b)
      <4>1. b \in AnyByte
        BY DEF AnyByte
      <4> QED
        BY <4>1, <2>1, <3>3, PutLemma DEF Contents
    <3>5. UNCHANGED out
      BY <2>2 DEF HandlerFetch, readVars
    <3>6. Queue!Put(b)
      BY <3>4, <3>5, Zenon DEF Queue!Put, N
    <3> QED
      BY <3>6 DEF Queue!Next
  <2>3. CASE ReadCopy /\ bread < count /\ read_head # write_head
    <3>1. /\ Contents' = ContentsOf(buffer, write_head, NextSlot(read_head))
          /\ out' = buffer[read_head]
      BY <2>3 DEF ReadCopy, Contents
    <3>2. Queue!Get
      BY <2>1, <2>3, <3>1, GetLemma DEF Queue!Get, Contents
    <3> QED
      BY <3>2 DEF Queue!Next
  <2>4. CASE ~HandlerFetch /\ ~(ReadCopy /\ bread < count /\ read_head # write_head)
    <3>1. UNCHANGED <<ringVars, out>>
      BY <2>4 DEF Next, Receive, Transmit, KeyPress, Handler, HandlerEnter, KbHandlerEnter,
         HandlerIdentify, HandlerLeave, Reader, ReadCheck, ReadHalt, ReadLock, ReadCopy,
         ReadUnlock, WriteByte, Call, CallRead, CallWrite, vars, ringVars, readVars
    <3> QED
      BY <3>1 DEF ringVars, Contents
  <2> QED
    BY <2>2, <2>3, <2>4
<1> QED
  BY <1>1, <1>2, Invariance, PTL DEF Spec, ImplementsQueue, Queue!Spec
=============================================================================
