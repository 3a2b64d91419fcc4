------------------------------ MODULE MCSleep ------------------------------
(* Instances of Sleep: calls shortly before midnight.                      *)
EXTENDS Sleep

(* Every day of a leap year and the year after it but the last days of     *)
(* February and of the months of 31 days, and the call of kernel.c:163.    *)
OrdinaryDays ==
  { <<57, 59, 23, d, m, y>> : d \in 1..30, m \in 1..12, y \in {2016, 2017} }
Ordinary ==
  ({ t \in OrdinaryDays : t[5] = 2 => t[4] < DaysInMonth(2, t[6]) }
    \X {0, 1, 5}) \cup { <<<<59, 59, 18, 31, 12, 2100>>, 5>> }

(* The calls are those that the theorem about SleepsExactly speaks of. *)
ASSUME OrdinaryCalls == \A c \in Ordinary : OrdinaryCall(c[1], c[2])
=============================================================================
