------------------------------- MODULE Sleep -------------------------------
(***************************************************************************)
(* time_sleep and get_seconds (time.c:119-135).  A call of time_get is one *)
(* step that returns what the clock shows, which is what module Time       *)
(* establishes for it; here the clock runs through the real calendar and   *)
(* get_seconds counts in months of 30 days and years of 365.               *)
(*                                                                         *)
(* get_seconds adds in 32 bits: t->year is a u32, so the whole sum is, and *)
(* only its value is widened to u64.  TLC's integers are no wider, so an   *)
(* amount of seconds is a pair <<days, seconds of the day>>.               *)
(***************************************************************************)
EXTENDS Calendar

CONSTANTS
  Sleeps,       \* the calls considered: <<instant of the call, argument s>>
  MaxElapsed    \* bound: the seconds a behaviour lasts

ASSUME SleepAssumption ==
  /\ MaxElapsed \in Nat
  /\ \A c \in Sleeps : c[2] \in Nat

VARIABLES
  phase,          \* start, polling, ticked, returned
  now,            \* the instant the clock shows
  s,              \* the argument
  seconds_end,    \* the u64 of time.c:130
  elapsed         \* history: seconds that passed since the call

sleepVars == <<phase, now, s, seconds_end, elapsed>>

DAY == 24 * 60 * 60

Pair(days, secs) == <<days + secs \div DAY, secs % DAY>>
Less(a, b)  == a[1] < b[1] \/ (a[1] = b[1] /\ a[2] < b[2])
Minus(a, b) == Pair(a[1] - b[1], a[2] - b[2])

(* The value of a sum in a u32: 2^32 seconds are 49710 days and 23296 s. *)
Times2To32(k) == Pair(49710 * k, 23296 * k)
Wrap32(a) ==
  LET k == CHOOSE n \in 0..a[1] \div 49710 :
             ~Less(a, Times2To32(n)) /\ Less(a, Times2To32(n + 1))
  IN Minus(a, Times2To32(k))

(* Mutant: months of 31 days. *)
get_seconds_31(t) ==
  Wrap32(Pair(t[4] + t[5] * 31 + t[6] * 365, t[1] + t[2] * 60 + t[3] * 60 * 60))

(* get_seconds (time.c:119-123). *)
get_seconds(t) ==
  Wrap32(Pair(t[4] + t[5] * 30 + t[6] * 365, t[1] + t[2] * 60 + t[3] * 60 * 60))

-----------------------------------------------------------------------------
SleepInit ==
  /\ phase = "start"
  /\ \E c \in Sleeps : now = c[1] /\ s = c[2]
  /\ seconds_end = <<0, 0>>
  /\ elapsed = 0

(* Lines 128-130: the first time_get, and the end in 64 bits. *)
Start ==
  /\ phase = "start"
  /\ phase' = "polling"
  /\ seconds_end' = Pair(get_seconds(now)[1], get_seconds(now)[2] + s)
  /\ UNCHANGED <<now, s, elapsed>>

(* Lines 132-134.  The loop polls thousands of times a second: every       *)
(* second that the clock shows is seen by it before the next one.          *)
Poll ==
  /\ phase = "polling"
  /\ phase' = IF Less(get_seconds(now), seconds_end) THEN "ticked" ELSE "returned"
  /\ UNCHANGED <<now, s, seconds_end, elapsed>>

(* A second passes while the loop waits. *)
Tick ==
  /\ phase = "ticked"
  /\ elapsed < MaxElapsed
  /\ now' = NextSecond(now)
  /\ elapsed' = elapsed + 1
  /\ phase' = "polling"
  /\ UNCHANGED <<s, seconds_end>>

SleepNext == Start \/ Poll \/ Tick

SleepSpec == SleepInit /\ [][SleepNext]_sleepVars

-----------------------------------------------------------------------------
(* The calls with which get_seconds agrees with the calendar: those that   *)
(* are over before midnight, or within a day of an evening after which the *)
(* calendar moves on as months of 30 days do, and for which the sum stays  *)
(* below 2^32 to the end.                                                  *)
IsDate(t) == t \in Instant /\ t[4] <= DaysInMonth(t[5], t[6])
SecondOfDay(t) == t[1] + t[2] * 60 + t[3] * 60 * 60
Regular(t) == t[4] < DaysInMonth(t[5], t[6]) \/ DaysInMonth(t[5], t[6]) = 30
Quiet(t, n) == SecondOfDay(t) + n < DAY \/ (Regular(t) /\ n <= DAY)
Unwrapped(a) == Less(a, Times2To32(1))
OrdinaryCall(t, n) ==
  /\ IsDate(t) /\ Quiet(t, n)
  /\ Unwrapped(Pair(get_seconds(t)[1], get_seconds(t)[2] + n))

(* Type correctness: what get_seconds returns fits in 32 bits.             *)
SleepTypeOK ==
  /\ phase \in {"start", "polling", "ticked", "returned"}
  /\ now[4] \in 1..DaysInMonth(now[5], now[6]) /\ now[5] \in 1..12
  /\ seconds_end \in Nat \X (0..DAY-1)
  /\ Less(seconds_end, Pair(49710, 23296 + s))
  /\ elapsed \in 0..MaxElapsed

(* The state is well typed, and time_sleep(s) is over exactly when s       *)
(* seconds have passed: it does not return before (README.md:8: time_sleep *)
(* stops the execution for some seconds), nor wait for another one.        *)
SleepsExactly ==
  /\ SleepTypeOK
  /\ phase = "returned" => elapsed >= s
  /\ phase = "ticked" => elapsed < s
=============================================================================
