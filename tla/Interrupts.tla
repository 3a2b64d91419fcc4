----------------------------- MODULE Interrupts -----------------------------
(***************************************************************************)
(* The CPU's interrupt flag, the interrupt controller and the kernel's     *)
(* global lock (interrupts.c, lock.h, drivers/pic.c).  There is one CPU    *)
(* and one kernel thread: code loses the processor only to an interrupt    *)
(* handler, and a handler runs to its end with interrupts disabled.        *)
(*                                                                         *)
(* The controller is programmed for edge triggered inputs (pic.c:148 sets  *)
(* no PIC_ICW1_LEVEL): it latches a request when a line rises, hands it to *)
(* the CPU when interrupts are enabled, and takes the next one after the   *)
(* end-of-interrupt command.                                               *)
(***************************************************************************)

CONSTANT Irqs            \* the interrupt lines that are not masked

VARIABLES
  ints,          \* the CPU's interrupt flag
  itr_status,    \* interrupts.c:40: a handler is running
  halted,        \* the CPU has executed hlt and no interrupt came since
  irr,           \* requests that the controller has latched
  isr            \* the request being served, before end-of-interrupt

itrVars == <<ints, itr_status, halted, irr, isr>>

ItrTypeOK ==
  /\ ints \in BOOLEAN /\ halted \in BOOLEAN
  /\ itr_status \in {"NOT_IN", "IN"}
  /\ irr \subseteq Irqs /\ isr \subseteq Irqs

(* lock and unlock (interrupts.c:136-144). *)
lock == ints' = FALSE

unlock_always == ints' = TRUE         \* mutant: sti inside a handler too
unlock == ints' = IF itr_status = "NOT_IN" THEN TRUE ELSE ints

(* The interrupt gate clears IF, and itr_interrupt_handler (interrupts.c:  *)
(* 44-57) sets its flag before it calls the handler of the line.           *)
TakeInterrupt(irq) ==
  /\ ints = TRUE
  /\ isr = {}
  /\ irq \in irr
  /\ irr' = irr \ {irq} /\ isr' = {irq}
  /\ ints' = FALSE
  /\ itr_status' = "IN"
  /\ halted' = FALSE

(* pic_send_eoi (pic.c:82-92). *)
pic_send_eoi_none == isr' = isr       \* mutant: the command left out
pic_send_eoi == isr' = {}

(* Line 71 clears the flag; iret brings back the IF that was interrupted,  *)
(* which was set, or the interrupt would not have been taken.              *)
LeaveInterrupt == itr_status' = "NOT_IN" /\ ints' = TRUE

(* hw_hlt (hw.asm:9-11). *)
hw_hlt == halted' = TRUE

(* A line that was low rises. *)
Rise(irq, low) == irr' = IF low THEN irr \cup {irq} ELSE irr
=============================================================================
