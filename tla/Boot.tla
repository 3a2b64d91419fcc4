-------------------------------- MODULE Boot --------------------------------
(***************************************************************************)
(* kmain and kmain2 (kernel.c): the order in which the kernel loads the    *)
(* table of interrupts, programs the controller, installs the handlers and *)
(* unmasks their lines, against devices that may interrupt at any time;    *)
(* and what becomes of interrupts once the process or the idle loop runs.  *)
(***************************************************************************)
EXTENDS Interrupts, Integers, Sequences

CONSTANTS
  Ports,                  \* the serial lines, among Irqs; then timer and kb
  BiosMasks               \* the sets of lines that the BIOS may leave masked

VARIABLES
  step,                   \* the position in Program
  hpc,                    \* none, handler; hung or crash: see Interrupt
  mode,                   \* kernel, user, exit, idle, panic
  present,                \* the serial devices of this machine
  idt, remapped, masked, handlers, configured,
  nomem                   \* kb_init found no memory for its buffer

setUpVars == <<idt, remapped, masked, handlers, configured, nomem>>
bootVars == <<itrVars, step, hpc, mode, present, setUpVars>>

ASSUME BootAssumption ==
  /\ Ports = {"com1", "com2"} /\ Irqs = Ports \cup {"timer", "kb"}
  /\ BiosMasks \subseteq SUBSET Irqs

(* kmain (40-49), itr_set_up, lines 72-86, pic_init (pic.c:58-77), and     *)
(* lines 103-125; proc_exec either never returns or the clock is tested    *)
(* and the idle loop entered.  Four of the fifteen lines that pic_init     *)
(* masks stand for all.                                                    *)
Masks_few == << <<"mask", "kb">>, <<"mask", "com2">>, <<"mask", "com1">> >>   \* mutant: pic.c:62
Masks == << <<"mask", "timer">>, <<"mask", "kb">>, <<"mask", "com2">>, <<"mask", "com1">> >>
Program ==
  << <<"memory", "">>, <<"stack", "">>, <<"itr_set_up", "">>, <<"vfs", "">>, <<"remap", "">> >>
    \o Masks \o
  << <<"kb_init", "">>, <<"unmask", "kb">>, <<"configure", "">>, <<"handle", "com1">>,
     <<"handle", "com2">>, <<"unmask", "com1">>, <<"unmask", "com2">>, <<"hw_sti", "">>,
     <<"create", "">>, <<"exec", "">> >>
Op == Program[step][1]
Line == Program[step][2]

BootInit ==                             \* interrupts off since kernel_init.asm:236
  /\ ints = FALSE /\ itr_status = "NOT_IN" /\ halted = FALSE /\ irr = {} /\ isr = {}
  /\ step = 1 /\ hpc = "none" /\ mode = "kernel"
  /\ present \in SUBSET Ports /\ masked \in BiosMasks
  /\ idt = FALSE /\ remapped = FALSE /\ handlers = {} /\ configured = FALSE /\ nomem = FALSE

-----------------------------------------------------------------------------
(* The devices.  A serial device interrupts once it has been configured.   *)
Raise(l) ==
  /\ l \in Ports => l \in present /\ configured
  /\ Rise(l, TRUE)
  /\ UNCHANGED <<ints, itr_status, halted, isr, step, hpc, mode, present, setUpVars>>

(* itr_interrupt_handler (interrupts.c:44-72).  Before itr_load_idt the    *)
(* table is the BIOS's, of another format.  A vector without a handler is  *)
(* printed and hw_hlt waits, interrupts disabled, for nothing: until the   *)
(* remapping the vectors are not those that handlers are set for.          *)
Handled(l) == remapped /\ l \in handlers
Interrupt(l) ==
  /\ hpc = "none" /\ l \notin masked /\ TakeInterrupt(l)
  /\ hpc' = IF ~idt THEN "crash" ELSE IF Handled(l) THEN "handler" ELSE "hung"
  /\ UNCHANGED <<step, mode, present, setUpVars>>

Return ==
  /\ hpc = "handler" /\ hpc' = "none" /\ pic_send_eoi /\ LeaveInterrupt
  /\ UNCHANGED <<halted, irr, step, mode, present, setUpVars>>

-----------------------------------------------------------------------------
(* The kernel's thread. *)

Reached(op) == hpc = "none" /\ mode = "kernel" /\ Op = op
Runs == UNCHANGED <<halted, isr, hpc, present>>

(* A step that succeeds, and kernel_panic (errors.c:30-38), to which until *)
(* set_panic_level(PANIC_PERROR) every error leads (12-19).                *)
Ok == step' = step + 1 /\ UNCHANGED <<itr_status, mode>>
Panic ==
  /\ hpc = "none" /\ mode = "kernel" /\ Op \in {"memory", "stack", "itr_set_up", "vfs", "create"}
  /\ mode' = "panic" /\ ints' = FALSE /\ hw_hlt
  /\ UNCHANGED <<itr_status, irr, isr, step, hpc, present, setUpVars>>

MemSetup == Reached("memory") /\ Ok /\ Runs /\ UNCHANGED <<ints, irr, setUpVars>>

(* mem_allocate_frames ends in unlock, which enables interrupts whether    *)
(* they were enabled before or not; so does every call of kalloc.          *)
StackFrame == Reached("stack") /\ unlock /\ Ok /\ Runs /\ UNCHANGED <<irr, setUpVars>>

itr_set_up ==
  /\ Reached("itr_set_up") /\ unlock /\ idt' = TRUE /\ Ok /\ Runs
  /\ UNCHANGED <<irr, remapped, masked, handlers, configured, nomem>>

FileSystems ==                      \* lines 72-86, and later /init (118-121)
  Reached("vfs") /\ unlock /\ Ok /\ Runs /\ UNCHANGED <<irr, setUpVars>>
CreateInit == Reached("create") /\ unlock /\ Ok /\ Runs /\ UNCHANGED <<irr, setUpVars>>

(* pic_remap (pic.c:107-167) keeps the masks; ICW1 clears the requests.    *)
pic_remap ==
  /\ Reached("remap") /\ remapped' = TRUE /\ irr' = {} /\ Ok /\ Runs
  /\ UNCHANGED <<ints, idt, masked, handlers, configured, nomem>>

pic_mask_dev ==
  /\ Reached("mask") /\ masked' = masked \cup {Line} /\ Ok /\ Runs
  /\ UNCHANGED <<ints, irr, idt, remapped, handlers, configured, nomem>>

pic_unmask_dev ==
  /\ Reached("unmask") /\ masked' = masked \ {Line} /\ Ok /\ Runs
  /\ UNCHANGED <<ints, irr, idt, remapped, handlers, configured, nomem>>

(* kb_init (kb.c:36-48): without memory it fails, and kmain2 goes on.      *)
kb_init ==
  /\ Reached("kb_init") /\ unlock /\ nomem' \in BOOLEAN
  /\ handlers' = IF nomem' THEN handlers ELSE handlers \cup {"kb"}
  /\ Ok /\ Runs /\ UNCHANGED <<irr, idt, remapped, masked, configured>>

(* serial_init (serial.c:421-556): the devices found are configured, with  *)
(* their interrupts, and their lines then given the handler.               *)
Configure ==
  /\ Reached("configure") /\ unlock /\ configured' = TRUE /\ Ok /\ Runs
  /\ UNCHANGED <<irr, idt, remapped, masked, handlers, nomem>>
SerialHandler ==
  /\ Reached("handle") /\ handlers' = handlers \cup ({Line} \cap present) /\ Ok /\ Runs
  /\ UNCHANGED <<ints, irr, idt, remapped, masked, configured, nomem>>

hw_sti == Reached("hw_sti") /\ ints' = TRUE /\ Ok /\ Runs /\ UNCHANGED <<irr, setUpVars>>

(* proc_exec: the iretd of proc.asm:34 loads the eflags that proc.c:78     *)
(* cleared.  When it fails, the clock's tests, and hlt for ever.           *)
eflags == FALSE
StartInit ==
  /\ Reached("exec") /\ UNCHANGED <<itr_status, irr, step, setUpVars>> /\ Runs
  /\ \/ mode' = "user" /\ ints' = eflags
     \/ mode' = "idle" /\ unlock
Idle == /\ mode = "idle" /\ hpc = "none" /\ ~halted /\ hw_hlt
        /\ UNCHANGED <<ints, itr_status, irr, isr, step, hpc, mode, present, setUpVars>>

(* int 0x80 (syscall.c:12-46): only exit does anything, and it halts in    *)
(* the handler.                                                            *)
syscall_exit ==
  /\ mode = "user" /\ hpc = "none" /\ mode' = "exit" /\ itr_status' = "IN" /\ ints' = FALSE /\ hw_hlt
  /\ UNCHANGED <<irr, isr, step, hpc, present, setUpVars>>

Thread == \/ MemSetup \/ StackFrame \/ itr_set_up \/ FileSystems \/ pic_remap \/ pic_mask_dev
          \/ kb_init \/ pic_unmask_dev \/ Configure \/ SerialHandler \/ hw_sti \/ CreateInit
          \/ StartInit \/ Idle \/ syscall_exit
BootNext == Thread \/ Panic \/ Return \/ \E l \in Irqs : Raise(l) \/ Interrupt(l)

BootSpec == BootInit /\ [][BootNext]_bootVars

(* The CPU runs handlers to their end and takes what is requested again    *)
(* and again; between two interrupts the thread gets on, for the devices   *)
(* are slower than their handlers.                                         *)
BootFairSpec ==
  /\ BootSpec /\ SF_bootVars(Thread) /\ WF_bootVars(Return)
  /\ \A l \in Irqs : SF_bootVars(Interrupt(l))

-----------------------------------------------------------------------------
(* Properties. *)

Stuck == hpc \in {"hung", "crash"}

(* Types; and whatever runs in a handler runs with interrupts disabled.    *)
BootTypeOK ==
  /\ ItrTypeOK /\ step \in DOMAIN Program /\ hpc \in {"none", "handler", "hung", "crash"}
  /\ mode \in {"kernel", "user", "exit", "idle", "panic"} /\ present \subseteq Ports
  /\ {idt, remapped, configured, nomem} \subseteq BOOLEAN
  /\ masked \subseteq Irqs /\ handlers \subseteq Irqs
  /\ (hpc # "none" => itr_status = "IN" /\ ~ints)

(* The state is well typed and, once pic_init has masked the lines, no     *)
(* interrupt finds itself without a handler, whichever devices there are:  *)
(* except the keyboard's when kb_init, whose result kmain2 does not look   *)
(* at, ran out of memory.                                                  *)
Early == Op \in {"itr_set_up", "vfs", "remap", "mask"}
HandlersInPlace == BootTypeOK /\ (Stuck => Early \/ (nomem /\ isr = {"kb"}))

(* The idle loop sleeps, and every interrupt wakes it and is served.       *)
Served(l) == (mode = "idle" /\ l \in irr \ masked) ~> (l \notin irr \/ Stuck)
InterruptsServed == \A l \in Irqs : Served(l)

=============================================================================
