------------------------------- MODULE MCTime -------------------------------
(* Instances of Time: the instants at which several registers change at    *)
(* once, and the settings of register B.                                   *)
EXTENDS Time

BCD24    == [binary |-> FALSE, h24 |-> TRUE]
Binary24 == [binary |-> TRUE,  h24 |-> TRUE]

(* Carries through every register, into a leap day, through noon, and      *)
(* within the minute; and, in binary mode, where the years from 80 on can  *)
(* be read at all, through the century register.                           *)
Boots24h ==
  ({BCD24, Binary24} \X { <<58, 59, 23, 31, 12, 2016>>, <<58, 59, 23, 28, 2, 2016>>,
                          <<58, 59, 11, 15, 6, 2016>>,  <<10, 30, 9, 9, 9, 2009>> })
    \cup ({Binary24} \X { <<58, 59, 23, 31, 12, 1999>>, <<58, 59, 23, 31, 12, 2099>> })

(* The instant kernel.c:140-147 sets, and one with every field different. *)
KernelTest == { <<59, 59, 18, 31, 12, 2100>>, <<0, 1, 2, 3, 4, 2005>> }
=============================================================================
