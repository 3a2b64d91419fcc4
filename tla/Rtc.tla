-------------------------------- MODULE Rtc --------------------------------
(***************************************************************************)
(* The real time clock chip as drivers/rtc.c sees it: seven time registers *)
(* that the CPU reads and writes one at a time through ports 0x70/0x71,    *)
(* and the chip's own update cycle.  During an update the chip raises the  *)
(* update-in-progress flag of register A, carries the new second through   *)
(* the registers one after another, and drops the flag.  The CPU is not    *)
(* kept away meanwhile: these are the "dodgy/inconsistent values due to    *)
(* RTC updates" of time.c:46-47.                                           *)
(***************************************************************************)
EXTENDS Calendar

CONSTANTS
  Boots,      \* how the kernel may find the chip: <<register B, instant>>
  MaxTicks    \* bound: the number of updates of the chip in a behaviour

ASSUME RtcAssumption ==
  /\ \A b \in Boots : b[1] \in Modes
  /\ MaxTicks \in Nat

VARIABLES
  reg,     \* the seven time registers
  mode,    \* register B
  upd,     \* what the update in progress has yet to store, by position
  ticks    \* updates begun so far

rtcVars == <<reg, mode, upd, ticks>>

RtcInit ==
  /\ \E b \in Boots : mode = b[1] /\ reg = RegistersOf(mode, b[2])
  /\ upd = [k \in {} |-> 0]
  /\ ticks = 0

(* get_update_in_progress_flag (rtc.c:96-100): bit 7 of register A. *)
get_update_in_progress_flag == DOMAIN upd # {}

(* get_RTC_register and set_RTC_register (rtc.c:84-93). *)
get_RTC_register(i)    == reg[i]
set_RTC_register(i, b) == reg' = [reg EXCEPT ![i] = b]

(* The stores by which an update moves the registers r to the next second. *)
UpdateOf(r) ==
  LET next == RegistersOf(mode, NextSecond(InstantOf(mode, r)))
  IN [k \in {j \in 1..7 : r[j] # next[j]} |-> next[k]]

UpdateBegin ==
  /\ ~get_update_in_progress_flag
  /\ ticks < MaxTicks
  /\ upd' = UpdateOf(reg)
  /\ ticks' = ticks + 1
  /\ UNCHANGED <<reg, mode>>

(* One after another, the seconds first.                                   *)
UpdateStore ==
  \E k \in DOMAIN upd :
    /\ \A j \in DOMAIN upd : k <= j
    /\ reg' = [reg EXCEPT ![k] = upd[k]]
    /\ upd' = [j \in DOMAIN upd \ {k} |-> upd[j]]
    /\ UNCHANGED <<mode, ticks>>
=============================================================================
