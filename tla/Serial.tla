------------------------------- MODULE Serial -------------------------------
(***************************************************************************)
(* The serial driver (drivers/serial.c) at work on one of its devices: the *)
(* UART and its line to the interrupt controller, the interrupt handler    *)
(* that moves received bytes into the ring read_buf, and the kernel's one  *)
(* thread in serial_read and serial_write.  The devices do not share any   *)
(* state but the controller.  A second line, the keyboard's, stands for    *)
(* the handlers that do nothing to this device.                            *)
(***************************************************************************)
EXTENDS Interrupts, Integers, Sequences

CONSTANTS
  SERIAL_BUFFER_LEN,   \* the size of the ring: 64 in serial.c:18
  SerialIrq, KbIrq,    \* the two lines
  Byte, NoByte,        \* the values received, and none
  Counts,              \* the counts that vfs_read may pass
  FifoLen,             \* bound: the bytes the UART holds before it overruns
  MaxBytes             \* bound: the bytes received in a behaviour

ASSUME SerialAssumption ==
  /\ SERIAL_BUFFER_LEN \in Nat /\ SERIAL_BUFFER_LEN >= 2
  /\ Irqs = {SerialIrq, KbIrq} /\ SerialIrq # KbIrq
  /\ NoByte \notin Byte /\ Byte # {}
  /\ Counts \subseteq Nat
  /\ FifoLen \in Nat \ {0} /\ MaxBytes \in Nat

VARIABLES
  fifo,          \* UART: bytes received and not fetched (RBR and its FIFO)
  thr,           \* UART: the transmitter holding register is full
  thre,          \* UART: its transmitter-empty interrupt is pending
  received,      \* bytes received so far
  buffer, write_head, read_head,     \* read_buf of serial_device_t
  hpc,           \* handler: none, iir, fetch, eoi
  mpc,           \* kernel thread: idle, check, hlt, lock, copy, unlock, write
  count, bread,  \* argument and progress of serial_read
  out            \* the byte serial_read copied last

uartVars == <<fifo, thr, thre, received>>
ringVars == <<buffer, write_head, read_head>>
readVars == <<mpc, count, bread, out>>
vars     == <<itrVars, uartVars, ringVars, hpc, readVars>>

N == SERIAL_BUFFER_LEN
Slots == 0..N-1

(* serial_init (serial.c:529) empties the ring; the buffer is static data. *)
(* It also enables the transmitter's interrupt (line 504) while there is   *)
(* nothing to transmit, which raises it on some chips.                     *)
Init ==
  /\ ints = TRUE /\ itr_status = "NOT_IN" /\ halted = FALSE /\ isr = {}
  /\ thre \in BOOLEAN /\ irr = IF thre THEN {SerialIrq} ELSE {}
  /\ fifo = <<>> /\ thr = FALSE /\ received = 0
  /\ buffer = [k \in Slots |-> NoByte] /\ write_head = 0 /\ read_head = 0
  /\ hpc = "none"
  /\ mpc = "idle" /\ count = 0 /\ bread = 0 /\ out = NoByte

-----------------------------------------------------------------------------
(* The UART.  Its line is high while any enabled interrupt is pending.     *)
LineLow == fifo = <<>> /\ ~thre

Receive(b) ==
  /\ received < MaxBytes
  /\ Len(fifo) < FifoLen
  /\ fifo' = Append(fifo, b)
  /\ received' = received + 1
  /\ Rise(SerialIrq, LineLow)
  /\ UNCHANGED <<ints, itr_status, halted, isr, thr, thre, ringVars, hpc, readVars>>

(* The byte in the holding register leaves. *)
Transmit ==
  /\ thr
  /\ thr' = FALSE /\ thre' = TRUE
  /\ Rise(SerialIrq, LineLow)
  /\ UNCHANGED <<ints, itr_status, halted, isr, fifo, received, ringVars, hpc, readVars>>

(* A key is pressed. *)
KeyPress ==
  /\ Rise(KbIrq, TRUE)
  /\ UNCHANGED <<ints, itr_status, halted, isr, uartVars, ringVars, hpc, readVars>>

-----------------------------------------------------------------------------
(* serial_interrupt_handler (serial.c:280-327).                            *)

HandlerEnter ==
  /\ TakeInterrupt(SerialIrq)
  /\ hpc' = "iir"
  /\ UNCHANGED <<uartVars, ringVars, readVars>>

(* Lines 292-323: one read of the identification register names one        *)
(* pending interrupt, received data before the empty transmitter, and      *)
(* reading it clears the latter.                                           *)
HandlerIdentify ==
  /\ hpc = "iir"
  /\ IF fifo # <<>> THEN hpc' = "fetch" /\ UNCHANGED thre
                    ELSE hpc' = "eoi" /\ thre' = FALSE
  /\ UNCHANGED <<itrVars, fifo, thr, received, ringVars, readVars>>

NextSlot_nomod(h) == h + 1                  \* mutant
NextSlot(h) == (h + 1) % N

HandlerFetch_before ==              \* mutant: the head advances first
  /\ hpc = "fetch"
  /\ buffer' = [buffer EXCEPT ![NextSlot(write_head)] = Head(fifo)]
  /\ write_head' = NextSlot(write_head)
  /\ fifo' = Tail(fifo)
  /\ unlock
  /\ hpc' = "eoi"
  /\ UNCHANGED <<itr_status, halted, irr, isr, thr, thre, received, read_head, readVars>>

(* serial_read_byte (serial.c:254-261), between lock and unlock. *)
HandlerFetch ==
  /\ hpc = "fetch"
  /\ buffer' = [buffer EXCEPT ![write_head] = Head(fifo)]
  /\ write_head' = NextSlot(write_head)
  /\ fifo' = Tail(fifo)
  /\ unlock
  /\ hpc' = "eoi"
  /\ UNCHANGED <<itr_status, halted, irr, isr, thr, thre, received, read_head, readVars>>

(* Line 326, and the return through itr_interrupt_handler. *)
HandlerLeave ==
  /\ hpc = "eoi"
  /\ pic_send_eoi
  /\ LeaveInterrupt
  /\ hpc' = "none"
  /\ UNCHANGED <<halted, irr, uartVars, ringVars, readVars>>

(* The keyboard's handler, of which only its end matters here. *)
KbHandlerEnter ==
  /\ TakeInterrupt(KbIrq)
  /\ hpc' = "eoi"
  /\ UNCHANGED <<uartVars, ringVars, readVars>>

-----------------------------------------------------------------------------
(* The kernel's thread runs while no handler does and the CPU is awake.    *)
Running == hpc = "none" /\ ~halted

(* serial_read (serial.c:356-384). *)
CallRead(c) ==
  /\ Running /\ mpc = "idle"
  /\ mpc' = "check" /\ count' = c /\ bread' = 0
  /\ UNCHANGED <<itrVars, uartVars, ringVars, hpc, out>>

(* The condition of the loop at line 364. *)
ReadCheck ==
  /\ Running /\ mpc = "check"
  /\ mpc' = IF read_head = write_head THEN "hlt" ELSE "lock"
  /\ UNCHANGED <<itrVars, uartVars, ringVars, hpc, count, bread, out>>

(* Line 365; when the CPU wakes it evaluates the condition again. *)
ReadHalt ==
  /\ Running /\ mpc = "hlt"
  /\ hw_hlt
  /\ mpc' = "check"
  /\ UNCHANGED <<ints, itr_status, irr, isr, uartVars, ringVars, hpc, count, bread, out>>

ReadLock_none ==                      \* mutant: the call of lock left out
  /\ Running /\ mpc = "lock"
  /\ mpc' = "copy"
  /\ UNCHANGED <<itrVars, uartVars, ringVars, hpc, count, bread, out>>

(* Line 368. *)
ReadLock ==
  /\ Running /\ mpc = "lock"
  /\ lock
  /\ mpc' = "copy"
  /\ UNCHANGED <<itr_status, halted, irr, isr, uartVars, ringVars, hpc, count, bread, out>>

(* Lines 370-377, a byte a step. *)
ReadCopy ==
  /\ Running /\ mpc = "copy"
  /\ IF bread < count /\ read_head # write_head
     THEN /\ out' = buffer[read_head]
          /\ read_head' = NextSlot(read_head)
          /\ bread' = bread + 1
          /\ UNCHANGED mpc
     ELSE mpc' = "unlock" /\ UNCHANGED <<out, read_head, bread>>
  /\ UNCHANGED <<itrVars, uartVars, buffer, write_head, hpc, count>>

(* Line 379, and the return. *)
ReadUnlock ==
  /\ Running /\ mpc = "unlock"
  /\ unlock
  /\ mpc' = "idle" /\ count' = 0 /\ bread' = 0
  /\ UNCHANGED <<itr_status, halted, irr, isr, uartVars, ringVars, hpc, out>>

(* serial_write (serial.c:386-408), for each byte: wait until the holding  *)
(* register is empty, then fill it; filling it clears the interrupt.       *)
CallWrite ==
  /\ Running /\ mpc = "idle"
  /\ mpc' = "write"
  /\ UNCHANGED <<itrVars, uartVars, ringVars, hpc, count, bread, out>>

WriteByte ==
  /\ Running /\ mpc = "write"
  /\ ~thr
  /\ thr' = TRUE /\ thre' = FALSE
  /\ mpc' = "idle"
  /\ UNCHANGED <<itrVars, fifo, received, ringVars, hpc, count, bread, out>>

-----------------------------------------------------------------------------
Handler == HandlerEnter \/ KbHandlerEnter \/ HandlerIdentify \/ HandlerFetch
             \/ HandlerLeave
Reader  == ReadCheck \/ ReadHalt \/ ReadLock \/ ReadCopy \/ ReadUnlock \/ WriteByte
Call    == (\E c \in Counts : CallRead(c)) \/ CallWrite

Next ==
  \/ \E b \in Byte : Receive(b)
  \/ Transmit
  \/ KeyPress
  \/ Handler
  \/ Reader
  \/ Call

Spec == Init /\ [][Next]_vars
(* The CPU executes whatever code has it; it takes a request that stands   *)
(* at an enabled interrupt input before the next instruction, so a request *)
(* that finds interrupts enabled again and again is taken; the transmitter *)
(* sends what it holds.  Nothing has to arrive, and no one has to call.    *)
FairSpec ==
  /\ Spec
  /\ WF_vars(Reader) /\ WF_vars(Transmit)
  /\ WF_vars(HandlerIdentify \/ HandlerFetch \/ HandlerLeave)
  /\ SF_vars(HandlerEnter) /\ SF_vars(KbHandlerEnter)

-----------------------------------------------------------------------------
(* Properties.                                                             *)

(* Type correctness; the heads stay inside the ring (serial.c:258, 376).   *)
TypeOK ==
  /\ ItrTypeOK
  /\ fifo \in Seq(Byte) /\ Len(fifo) <= FifoLen
  /\ thr \in BOOLEAN /\ thre \in BOOLEAN /\ received \in Nat
  /\ buffer \in [Slots -> Byte \cup {NoByte}]
  /\ write_head \in Slots /\ read_head \in Slots
  /\ hpc \in {"none", "iir", "fetch", "eoi"}
  /\ mpc \in {"idle", "check", "hlt", "lock", "copy", "unlock", "write"}
  /\ count \in Nat /\ bread \in Nat /\ out \in Byte \cup {NoByte}

(* While a handler runs nothing, not even the unlock of a function that it *)
(* calls, enables interrupts: lock.h:15-21, "arbitrarily issuing sti would *)
(* lead to undesired problems when running interrupt handlers".            *)
HandlersUninterrupted == hpc # "none" => ~ints /\ itr_status = "IN"

(* While the thread is between lock and unlock no handler touches the ring *)
(* (lock.h:26-38: the two scenarios exclude each other).                   *)
CriticalSectionAlone == mpc \in {"copy", "unlock"} => ~ints /\ hpc = "none"

(* The ring as the sequence of bytes from read_head up to write_head. *)
Used(w, rd) == IF w >= rd THEN w - rd ELSE w - rd + N
SlotOf(rd, k) == IF rd + k - 1 < N THEN rd + k - 1 ELSE rd + k - 1 - N
ContentsOf(buf, w, rd) == [k \in 1..Used(w, rd) |-> buf[SlotOf(rd, k)]]
Contents == ContentsOf(buffer, write_head, read_head)

Queue == INSTANCE LossyQueue WITH Size <- N, queue <- Contents

(* The ring, filled by the handler and emptied by serial_read, is a queue  *)
(* that loses its bytes when it overflows and never otherwise reorders,    *)
(* repeats or drops one.                                                   *)
ImplementsQueue == Queue!Spec

(* Every request that reaches the controller is taken: no path through     *)
(* lock, unlock and the handlers leaves interrupts disabled for good.      *)
InterruptsServed == \A irq \in Irqs : irq \in irr ~> irq \notin irr

Waiting == mpc \in {"check", "hlt"}

(* A read that waits while there are bytes in the ring goes on (serial.c:  *)
(* 362: it stays "until something arrives").                               *)
RingDataEndsWait == Waiting /\ read_head # write_head ~> ~Waiting
=============================================================================
