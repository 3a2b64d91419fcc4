------------------------------ MODULE Calendar ------------------------------
(***************************************************************************)
(* The calendar, and the bytes in which an MC146818 real time clock keeps  *)
(* it.  Nothing here is code of the kernel: it is the hardware that        *)
(* drivers/rtc.c and time.c are written against.                           *)
(*                                                                         *)
(* An instant is a tuple <<seconds, minutes, hours, day, month, year>>, in *)
(* the order of REGISTER_VALUES (rtc.c:58-63), with a four digit year.  A  *)
(* register file is a tuple of seven bytes: the six registers in the same  *)
(* order, the year modulo 100, and then REG_CENTURY.                       *)
(***************************************************************************)
EXTENDS Integers, Sequences

REGISTER_COUNT == 6      \* rtc.h:35
CENTURY        == 7      \* the position of REG_CENTURY in a register file

Instant == (0..59) \X (0..59) \X (0..23) \X (1..31) \X (1..12) \X (0..9999)

IsLeap(year) == (year % 4 = 0 /\ year % 100 # 0) \/ year % 400 = 0

DaysInMonth(month, year) ==
  CASE month = 2              -> IF IsLeap(year) THEN 29 ELSE 28
    [] month \in {4, 6, 9, 11} -> 30
    [] OTHER                  -> 31

(* The instant one second later. *)
NextSecond(t) ==
  LET s  == t[1] >= 59
      mi == s  /\ t[2] >= 59
      h  == mi /\ t[3] >= 23
      d  == h  /\ t[4] >= DaysInMonth(t[5], t[6])
      mo == d  /\ t[5] >= 12
      Step(carry, wrapped, from, v) ==
        IF wrapped THEN from ELSE IF carry THEN v + 1 ELSE v
  IN <<Step(TRUE, s, 0, t[1]), Step(s, mi, 0, t[2]), Step(mi, h, 0, t[3]),
       Step(h, d, 1, t[4]), Step(d, mo, 1, t[5]), IF mo THEN t[6] + 1 ELSE t[6]>>

-----------------------------------------------------------------------------
(* Register B selects how the bytes are coded: mode.binary is bit 2        *)
(* (BINARY_MODE, rtc.h:24), mode.h24 is bit 1 (FORMAT_24HOURS, rtc.h:25).  *)
Modes == [binary : BOOLEAN, h24 : BOOLEAN]

ToByte(mode, v)   == IF mode.binary THEN v ELSE (v \div 10) * 16 + (v % 10)
FromByte(mode, b) == IF mode.binary THEN b ELSE (b \div 16) * 10 + (b % 16)

(* In twelve hour mode the clock shows 12, 1, ... 11 and bit 7 marks PM. *)
HourByte(mode, h) ==
  IF mode.h24 THEN ToByte(mode, h)
  ELSE ToByte(mode, IF h % 12 = 0 THEN 12 ELSE h % 12)
         + (IF h >= 12 THEN 128 ELSE 0)

HourOfByte(mode, b) ==
  IF mode.h24 THEN FromByte(mode, b)
  ELSE (FromByte(mode, b % 128) % 12) + (IF b >= 128 THEN 12 ELSE 0)

(* The registers that show instant t, and the instant the registers show. *)
RegistersOf(mode, t) ==
  <<ToByte(mode, t[1]), ToByte(mode, t[2]), HourByte(mode, t[3]),
    ToByte(mode, t[4]), ToByte(mode, t[5]), ToByte(mode, t[6] % 100),
    ToByte(mode, t[6] \div 100)>>

InstantOf(mode, r) ==
  <<FromByte(mode, r[1]), FromByte(mode, r[2]), HourOfByte(mode, r[3]),
    FromByte(mode, r[4]), FromByte(mode, r[5]),
    FromByte(mode, r[6]) + 100 * FromByte(mode, r[CENTURY])>>
=============================================================================
