------------------------------ MODULE Keyboard ------------------------------
(***************************************************************************)
(* The keyboard driver (drivers/kb.c): the handler that collects the bytes *)
(* of a scan code and stores them in kb_buffer, and kb_scan_code, which    *)
(* the kernel's thread calls to take one out, without disabling            *)
(* interrupts: the handler may run between any two of its steps.           *)
(***************************************************************************)
EXTENDS Interrupts, Integers, Sequences

CONSTANTS
  KB_BUF_LEN,             \* kb.c:31: 32 in the code
  Kb,                     \* the keyboard's line
  Codes,                  \* the scan codes the keys send, sequences of bytes
  NoByte                  \* what the buffer holds at first

VARIABLES
  wire, full,                         \* bytes sent; the encoder holds the first
  kb_buffer, kb_buf_head, kb_buf_count,
  partial, hpc,                       \* handler: partial[0..len-1]; none, byte, eoi
  kpc, buf, loaded,                   \* thread: idle, test, take, head, load, store
  raced, cut                          \* history, see Races and Cuts

bufVars == <<kb_buffer, kb_buf_head, kb_buf_count>>
threadVars == <<kpc, buf, loaded>>
flaws == <<raced, cut>>
vars == <<itrVars, wire, full, bufVars, partial, hpc, threadVars, flaws>>

Byte == UNION {{c[i] : i \in DOMAIN c} : c \in Codes}

ASSUME KeyboardAssumption ==
  KB_BUF_LEN \in Nat \ {0} /\ Irqs = {Kb} /\ Codes \subseteq Seq(Byte) \ {<< >>}

(* The scan codes there are: a plain byte, one with the prefix e0, PRNTSCR *)
(* and its like, and PAUSE (the shapes for which lines 60-71 wait).        *)
ASSUME ScanCodes ==
  \A c \in Codes :
    \/ Len(c) = 1 /\ c[1] \notin {"e0", "e1"}
    \/ Len(c) = 2 /\ c[1] = "e0" /\ c[2] \notin {"e0", "e1", "2a", "b7"}
    \/ Len(c) = 4 /\ c[1] = "e0" /\ c[2] \in {"2a", "b7"} /\ c[3] = "e0" /\ c[4] \notin {"e0", "e1"}
    \/ /\ Len(c) = 6 /\ c[1] = "e1" /\ c[4] = "e1"
       /\ \A i \in {2, 3, 5, 6} : c[i] \notin {"e0", "e1"}

At(k) == k % KB_BUF_LEN

Init ==                                     \* kb_init (36-47), interrupts on
  /\ ints = TRUE /\ itr_status = "NOT_IN" /\ halted = FALSE /\ irr = {} /\ isr = {}
  /\ wire = << >> /\ full = FALSE
  /\ kb_buffer = [k \in 0 .. KB_BUF_LEN - 1 |-> NoByte]
  /\ kb_buf_head = 0 /\ kb_buf_count = 0 /\ partial = << >> /\ hpc = "none"
  /\ kpc = "idle" /\ buf = NoByte /\ loaded = 0 /\ raced = FALSE /\ cut = FALSE

(* The encoder: a key sends its code, once the code before it has been     *)
(* fetched (a bound), and the line rises for each byte.                    *)
Press(c) ==
  /\ wire = << >> /\ wire' = c
  /\ UNCHANGED <<itrVars, full, bufVars, partial, hpc, threadVars, flaws>>

Deliver ==
  /\ ~full /\ wire # << >> /\ full' = TRUE /\ Rise(Kb, TRUE)
  /\ UNCHANGED <<ints, itr_status, halted, isr, wire, bufVars, partial, hpc, threadVars, flaws>>

-----------------------------------------------------------------------------
(* kb_interrupt_handler (50-87).                                           *)

Enter ==
  /\ TakeInterrupt(Kb) /\ hpc' = "byte"
  /\ UNCHANGED <<wire, full, bufVars, partial, threadVars, flaws>>

(* Lines 60-71: what waits for more bytes.  The third byte always ends the *)
(* wait, so the fourth case of the code never applies.                     *)
Waits_never(p) == FALSE                     \* mutant
Waits(p) == \/ Len(p) = 1 /\ p[1] \in {"e0", "e1"}
            \/ Len(p) = 2 /\ (p[1] = "e1" \/ p[2] \in {"2a", "b7"})

Fits_any(p) == TRUE                         \* mutant: line 72 left out
Fits(p) == kb_buf_count + Len(p) <= KB_BUF_LEN

(* The handler stores while kb_scan_code has advanced the head and not yet *)
(* brought the count down.                                                 *)
Races == kpc \in {"load", "store"}

(* PRNTSCR, of four bytes, is stored after its third, the next e0: what    *)
(* follows comes later, as if it were a code of its own.                   *)
Cuts(p) == Len(p) = 3 /\ p[1] = "e0"

FetchByte ==
  /\ hpc = "byte" /\ hpc' = "eoi"
  /\ wire' = Tail(wire) /\ full' = FALSE
  /\ LET p == Append(partial, Head(wire))
         stored == ~Waits(p) /\ Fits(p)
     IN  /\ partial' = IF Waits(p) THEN p ELSE << >>
         /\ IF stored
            THEN /\ kb_buffer' = [k \in DOMAIN kb_buffer |->
                      IF \E i \in DOMAIN p : k = At(kb_buf_head + kb_buf_count + i - 1)
                      THEN p[CHOOSE i \in DOMAIN p : k = At(kb_buf_head + kb_buf_count + i - 1)]
                      ELSE kb_buffer[k]]
                 /\ kb_buf_count' = kb_buf_count + Len(p)
            ELSE UNCHANGED <<kb_buffer, kb_buf_count>>
         /\ raced' = (raced \/ (stored /\ Races))
         /\ cut' = (cut \/ (stored /\ Cuts(p)))
  /\ UNCHANGED <<itrVars, kb_buf_head, threadVars>>

Leave ==
  /\ hpc = "eoi" /\ hpc' = "none" /\ pic_send_eoi /\ LeaveInterrupt
  /\ UNCHANGED <<halted, irr, wire, full, bufVars, partial, threadVars, flaws>>

-----------------------------------------------------------------------------
(* kb_scan_code (89-127).  A byte of kb_buffer is a signed char and equals *)
(* neither 0xe0 nor 0xe1, so every call takes the last branch: one byte.   *)

Thread(from, to) == hpc = "none" /\ kpc = from /\ kpc' = to
Stays == UNCHANGED <<itrVars, wire, full, partial, hpc, flaws>>

ScanCode == Thread("idle", "test") /\ Stays /\ UNCHANGED <<bufVars, buf, loaded>>
Test == /\ Thread("test", IF kb_buf_count = 0 THEN "idle" ELSE "take")
        /\ Stays /\ UNCHANGED <<bufVars, buf, loaded>>
Take == /\ Thread("take", "head") /\ buf' = kb_buffer[kb_buf_head]
        /\ Stays /\ UNCHANGED <<bufVars, loaded>>
Advance == /\ Thread("head", "load") /\ kb_buf_head' = At(kb_buf_head + 1)
           /\ Stays /\ UNCHANGED <<kb_buffer, kb_buf_count, buf, loaded>>
Load == /\ Thread("load", "store") /\ loaded' = kb_buf_count
        /\ Stays /\ UNCHANGED <<bufVars, buf>>
Store_none == /\ Thread("store", "idle") /\ loaded' = 0   \* mutant: size stays 0 (line 121)
              /\ Stays /\ UNCHANGED <<bufVars, buf>>
Store == /\ Thread("store", "idle") /\ kb_buf_count' = loaded - 1 /\ loaded' = 0
         /\ Stays /\ UNCHANGED <<kb_buffer, kb_buf_head, buf>>

Handler == Enter \/ FetchByte \/ Leave
Reader == Test \/ Take \/ Advance \/ Load \/ Store
Next == (\E c \in Codes : Press(c)) \/ Deliver \/ Handler \/ ScanCode \/ Reader

Spec == Init /\ [][Next]_vars

-----------------------------------------------------------------------------
(* Properties. *)

(* The head and the count stay inside the buffer, and partial, of 6 bytes, *)
(* keeps less than 3 from one interrupt to the next.                       *)
TypeOK ==
  /\ ItrTypeOK /\ kb_buffer \in [0 .. KB_BUF_LEN - 1 -> Byte \cup {NoByte}]
  /\ kb_buf_head \in 0 .. KB_BUF_LEN - 1 /\ kb_buf_count \in 0 .. KB_BUF_LEN
  /\ partial \in Seq(Byte) /\ Len(partial) < 3 /\ loaded \in 0 .. KB_BUF_LEN

(* The bytes in the buffer, without the one that kb_scan_code has in hand. *)
Contents ==
  LET taken == IF kpc = "head" \/ Races THEN 1 ELSE 0
  IN  [i \in 1 .. kb_buf_count - taken |->
         kb_buffer[At(kb_buf_head + i - (IF kpc = "head" THEN 0 ELSE 1))]]

(* Unless the handler stores between the thread's two updates, the buffer  *)
(* is the queue of KeyQueue: nothing is lost but what finds no room, and   *)
(* then all that was collected of it.                                      *)
Queue == INSTANCE KeyQueue WITH
  queue <- Contents, Size <- KB_BUF_LEN,
  Chunk <- UNION {{SubSeq(c, i, j) : i, j \in DOMAIN c} : c \in Codes}
QueueUnlessRaced == [][~raced' => Queue!Step]_vars

(* A prefix e0 is never in the buffer without the byte it belongs to, even *)
(* when the buffer is full and whatever came before was dropped; until a   *)
(* PRNTSCR is stored in two parts.                                         *)
PrefixKept ==
  ~raced /\ ~cut => \A i \in DOMAIN Contents :
    Contents[i] = "e0" => i < Len(Contents) /\ Contents[i + 1] # "e0"
=============================================================================
