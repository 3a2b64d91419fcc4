-------------------------------- MODULE Time --------------------------------
(***************************************************************************)
(* The kernel's clock, time_get and time_set of time.c, over the chip of   *)
(* module Rtc and the register transfers of drivers/rtc.c.  One step is    *)
(* one access to a register of the chip, so that an update of the chip can *)
(* fall between any two of them: rtc_read and rtc_write disable interrupts *)
(* (rtc.c:24, 35), which stops the CPU's own handlers but not the chip.    *)
(***************************************************************************)
EXTENDS Rtc

CONSTANT SetTimes      \* the instants the kernel may pass to time_set

VARIABLES
  pc,        \* idle, wait, read, century, compare, convert, write, wcentury
  ints,       \* the CPU's interrupt flag, toggled by hw_cli and hw_sti
  buf,       \* the char buf[REGISTER_COUNT] of time_get and of time_set
  i,         \* the position in buf that rtc_read or rtc_write is at
  tm,        \* struct tm *t of time_get, six fields, year not yet full
  century,   \* the global u8 century of time.c:14, or time_set's local one
  last,      \* last_second .. last_century; << >> during the first load
  result,    \* history: what the last call of time_get returned, or << >>
  shown,     \* history: the register files whole at some time of this call
  loads,     \* history: time_load calls made by this time_get, capped
  ticks0,    \* history: the updates finished when the current call began
  setting    \* history: the argument of the last time_set, or << >>

codeVars == <<pc, ints, buf, i, tm, century, last>>
histVars == <<result, shown, loads, ticks0, setting>>
vars     == <<rtcVars, codeVars, histVars>>

(* A call of time_get or time_set takes less than a minute, whatever the   *)
(* instant; in 12 hour mode 12:30 PM is read as 0:30 (time.c:81), and in   *)
(* BCD the byte of a year from 80 on is a negative char, which never       *)
(* equals its u8 copy (line 64).                                           *)
ASSUME TimeAssumption ==
  /\ \A b \in Boots : b[1].h24 /\ b[2] \in Instant
  /\ SetTimes \subseteq Instant
  /\ MaxTicks < 60
ASSUME YearsReadable ==
  \A b \in Boots : b[1].binary \/
    \A t \in SetTimes \cup {b[2]} : (t[6] % 100) + MaxTicks < 80

LoadCap == 2 * MaxTicks + 3     \* loads saturates here
Finished == IF get_update_in_progress_flag THEN ticks - 1 ELSE ticks

NoBuf == [k \in 1..REGISTER_COUNT |-> 0]

Init ==
  /\ RtcInit
  /\ pc = "idle" /\ ints = TRUE
  /\ buf = NoBuf /\ i = 1 /\ tm = NoBuf /\ century = 0 /\ last = <<>>
  /\ result = <<>> /\ shown = {} /\ loads = 0 /\ ticks0 = 0 /\ setting = <<>>

-----------------------------------------------------------------------------
(* time_load (time.c:16-30).                                               *)

(* Line 19: spin until the update-in-progress flag is clear. *)
SeesNoUpdate == ~get_update_in_progress_flag

WaitUpdate ==
  /\ pc = "wait"
  /\ SeesNoUpdate
  /\ pc' = "read" /\ i' = 1 /\ ints' = FALSE          \* rtc_read: hw_cli
  /\ loads' = IF loads < LoadCap THEN loads + 1 ELSE loads
  /\ UNCHANGED <<rtcVars, buf, tm, century, last, result, shown, ticks0, setting>>

(* The char buf[5] is signed: t->year, a u32, gets its sign extension.  A  *)
(* negative year stands for the u32 that is congruent to it.               *)
SignExtend(b) == IF b >= 128 THEN b - 256 ELSE b

(* rtc_read (rtc.c:33-42), one register a step; after the last one hw_sti, *)
(* and lines 23-28 of time_load move buf to the fields of t.               *)
ReadRegister ==
  /\ pc = "read"
  /\ buf' = [buf EXCEPT ![i] = get_RTC_register(i)]
  /\ IF i < REGISTER_COUNT
     THEN i' = i + 1 /\ UNCHANGED <<pc, ints, tm>>
     ELSE /\ pc' = "century" /\ i' = 1 /\ ints' = TRUE
          /\ tm' = [buf' EXCEPT ![6] = SignExtend(@)]
  /\ UNCHANGED <<rtcVars, century, last, histVars>>

(* Lines 52-58: the u8 copies of the last load. *)
Copies(c) == Append([tm EXCEPT ![6] = @ % 256], c)

(* Line 29 reads the century on its own, then time_get goes on.  The first *)
(* load is followed by the copies of lines 52-58 and a second load.        *)
ReadCentury ==
  /\ pc = "century"
  /\ century' = get_RTC_register(CENTURY)
  /\ IF last = <<>>
     THEN pc' = "wait" /\ last' = Copies(get_RTC_register(CENTURY))
     ELSE pc' = "compare" /\ UNCHANGED last
  /\ UNCHANGED <<rtcVars, ints, buf, i, tm, histVars>>

-----------------------------------------------------------------------------
(* time_get (time.c:34-87).                                                *)

CallGet ==
  /\ pc = "idle"
  /\ pc' = "wait"
  /\ last' = <<>> /\ buf' = NoBuf /\ tm' = NoBuf
  /\ loads' = 0 /\ ticks0' = Finished
  /\ shown' = IF get_update_in_progress_flag THEN {} ELSE {reg}
  /\ setting' = <<>>
  /\ UNCHANGED <<rtcVars, ints, i, century, result>>

(* The loop condition of lines 62-64.  last_year is a u8 and t->year a     *)
(* u32: a sign extended year never equals its own copy.                    *)
SameTwice_nocentury == SubSeq(last, 1, 6) = tm      \* mutant: no last_century
SameTwice == last = Append(tm, century)

Compare_nocopy ==                   \* mutant: lines 52-58 before the loop only
  /\ pc = "compare"
  /\ pc' = IF SameTwice THEN "convert" ELSE "wait"
  /\ UNCHANGED <<rtcVars, ints, buf, i, tm, century, last, histVars>>

Compare ==
  /\ pc = "compare"
  /\ IF SameTwice
     THEN pc' = "convert" /\ UNCHANGED last
     ELSE pc' = "wait" /\ last' = Copies(century)
  /\ UNCHANGED <<rtcVars, ints, buf, i, tm, century, histVars>>

(* Lines 69-77, for the fields but the hours, and for the hours. *)
FromBCD(b)     == (b % 16) + (b \div 16) * 10
FromBCDHour(b) == (b % 16) + ((b % 128) \div 16) * 10 + (b \div 128) * 128

(* Lines 79-82. *)
To24(h) == IF ~mode.h24 /\ h >= 128 THEN ((h % 128) + 12) % 24 ELSE h

Convert ==
  LET C(b) == IF mode.binary THEN b ELSE FromBCD(b)
      H(b) == IF mode.binary THEN b ELSE FromBCDHour(b)
  IN /\ pc = "convert"
     /\ pc' = "idle"
     /\ century' = C(century)
     /\ result' = <<C(tm[1]), C(tm[2]), To24(H(tm[3])), C(tm[4]), C(tm[5]),
                    C(tm[6]) + century' * 100>>
     /\ last' = <<>> /\ buf' = NoBuf /\ tm' = NoBuf
     /\ UNCHANGED <<rtcVars, ints, i, shown, loads, ticks0, setting>>

-----------------------------------------------------------------------------
(* time_set (time.c:96-117).                                               *)

BIN_TO_BCD_none(v) == v                             \* mutant
BIN_TO_BCD(v) == (v \div 10) * 16 + (v % 10)        \* rtc.h:31

(* Lines 97-109: register B and the conversion; the first statement of     *)
(* rtc_write is hw_cli.  The hours are stored as they come in every mode.  *)
CallSet(t) ==
  LET C(v) == IF mode.binary THEN v ELSE BIN_TO_BCD(v)
  IN /\ pc = "idle"
     /\ pc' = "write" /\ ints' = FALSE /\ i' = 1
     /\ buf' = [k \in 1..REGISTER_COUNT |-> C(IF k = 6 THEN t[6] % 100 ELSE t[k])]
     /\ century' = C(t[6] \div 100)
     /\ setting' = t /\ ticks0' = Finished
     /\ result' = <<>> /\ shown' = {} /\ loads' = 0
     /\ UNCHANGED <<rtcVars, tm, last>>

(* rtc_write (rtc.c:22-31), one register a step, then hw_sti. *)
WriteRegister ==
  /\ pc = "write"
  /\ set_RTC_register(i, buf[i])
  /\ IF i < REGISTER_COUNT
     THEN i' = i + 1 /\ UNCHANGED <<pc, ints, buf>>
     ELSE pc' = "wcentury" /\ i' = 1 /\ ints' = TRUE /\ buf' = NoBuf
  /\ UNCHANGED <<mode, upd, ticks, tm, century, last, histVars>>

(* Lines 113-115, with interrupts disabled and enabled again around it. *)
WriteCentury ==
  /\ pc = "wcentury"
  /\ set_RTC_register(CENTURY, century)
  /\ pc' = "idle" /\ ints' = TRUE
  /\ UNCHANGED <<mode, upd, ticks, buf, i, tm, century, last, histVars>>

-----------------------------------------------------------------------------
(* The chip.  The history notes each register file that a call in progress *)
(* could have seen whole.                                                  *)
ChipBegin == UpdateBegin /\ UNCHANGED <<codeVars, histVars>>

ChipStore ==
  /\ UpdateStore
  /\ shown' = IF ~get_update_in_progress_flag' /\ pc # "idle" /\ setting = <<>>
              THEN shown \cup {reg'} ELSE shown
  /\ UNCHANGED <<codeVars, result, loads, ticks0, setting>>

InCall == WaitUpdate \/ ReadRegister \/ ReadCentury \/ Compare \/ Convert
            \/ WriteRegister \/ WriteCentury

Next ==
  \/ CallGet
  \/ \E t \in SetTimes : CallSet(t)
  \/ InCall
  \/ ChipBegin
  \/ ChipStore

Spec == Init /\ [][Next]_vars

(* The CPU goes on executing, and an update once begun ends: the chip's    *)
(* oscillator runs by itself.  Nothing makes the kernel call, or the chip  *)
(* tick again after MaxTicks.                                              *)
FairSpec == Spec /\ WF_vars(InCall) /\ WF_vars(ChipStore)
-----------------------------------------------------------------------------
(* Properties.                                                             *)

Byte == 0..255

(* Type correctness: the registers and buffers hold bytes, the year of an  *)
(* unfinished time_get may be negative, and interrupts are disabled just   *)
(* while rtc_read or rtc_write transfers registers (rtc.c:24-27, 35-38).   *)
TypeOK ==
  /\ reg \in [1..7 -> Byte] /\ mode \in Modes
  /\ DOMAIN upd \subseteq 1..7 /\ \A k \in DOMAIN upd : upd[k] \in Byte
  /\ ticks \in 0..MaxTicks /\ ticks0 \in -1..MaxTicks
  /\ pc \in {"idle", "wait", "read", "century", "compare", "convert", "write", "wcentury"}
  /\ ints = (pc \notin {"read", "write"})
  /\ buf \in [1..REGISTER_COUNT -> Byte] /\ i \in 1..REGISTER_COUNT
  /\ DOMAIN tm = 1..REGISTER_COUNT /\ tm[6] \in -128..255
  /\ \A k \in 1..5 : tm[k] \in Byte
  /\ century \in Byte /\ Len(last) \in {0, 7} /\ loads \in 0..LoadCap

(* time_get returns an instant that the clock showed, whole, at some time  *)
(* between the call and the return, whatever updates fell between its      *)
(* register reads: the promise of time.c:46-47.                            *)
GetReturnsShownTime ==
  pc = "idle" /\ result # <<>> /\ setting = <<>>
    => \E r \in shown : result = InstantOf(mode, r)

(* The state is well typed, and one update of the chip costs time_get two  *)
(* more loads at most: the loop of time.c:51-64 does not live on the luck  *)
(* of its timing.                                                          *)
FewLoads == TypeOK /\ (pc # "idle" => loads <= 2 + 2 * (Finished + 1 - ticks0))

(* A time_set that no update of the chip meets leaves the registers        *)
(* showing the instant it was given (time.c:95-117).                       *)
SetStoresTime ==
  pc = "idle" /\ setting # <<>> /\ ticks = ticks0 => InstantOf(mode, reg) = setting

(* Every call of time_get and of time_set returns (README.md:6-7).         *)
CallsReturn == pc # "idle" ~> pc = "idle"
=============================================================================
