----------------------------- MODULE LossyQueue -----------------------------
(***************************************************************************)
(* What the receiving side of a serial device promises: bytes come out in  *)
(* the order in which they went in, each once.  A queue holds Size - 1 of  *)
(* them; the byte that comes to a full queue empties it (serial.c:252-253  *)
(* leaves open what should happen then).                                   *)
(***************************************************************************)
EXTENDS Naturals, Sequences

CONSTANTS Byte, Size, NoByte

VARIABLES
  queue,     \* the bytes received and not read
  out        \* the byte that was read last

Init == queue = <<>> /\ out = NoByte

Put(b) ==
  /\ queue' = IF Len(queue) = Size - 1 THEN <<>> ELSE Append(queue, b)
  /\ UNCHANGED out

Get ==
  /\ queue # <<>>
  /\ queue' = Tail(queue)
  /\ out' = Head(queue)

Next == (\E b \in Byte : Put(b)) \/ Get

Spec == Init /\ [][Next]_<<queue, out>>
=============================================================================
