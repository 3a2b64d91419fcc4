------------------------------ MODULE ByteFile ------------------------------
(***************************************************************************)
(* What a regular file promises its users, whatever they do: a sequence of *)
(* bytes in which a write replaces what it covers and fills a gap with     *)
(* zeroes, and of which a read returns what is there, cut at the end.      *)
(***************************************************************************)
EXTENDS Sequences, Integers

CONSTANTS Zero, At, Text, Count    \* the filler; positions, writes and read lengths

VARIABLES content, last     \* last: what the last read returned, and from where

Min2(a, b) == IF a <= b THEN a ELSE b

Init == content = << >> /\ last = [at |-> 0, bytes |-> << >>]

Write(at, bytes) ==
  LET end == at + Len(bytes)
  IN  content' = [i \in 1 .. (IF end > Len(content) THEN end ELSE Len(content)) |->
                    IF i > at /\ i <= end THEN bytes[i - at]
                    ELSE IF i <= Len(content) THEN content[i] ELSE Zero]
      /\ UNCHANGED last

Read(at, n) ==
  /\ last' = [at |-> at, bytes |-> SubSeq(content, at + 1, Min2(at + n, Len(content)))]
  /\ UNCHANGED content

Next == \E at \in At : \/ \E bytes \in Text : Write(at, bytes)
                       \/ \E n \in Count : Read(at, n)

Spec == Init /\ [][Next]_<<content, last>>
===============================================================================
