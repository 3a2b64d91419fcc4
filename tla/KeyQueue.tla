------------------------------ MODULE KeyQueue ------------------------------
(* What the keyboard's buffer promises: bytes come out in the order in     *)
(* which they went in; what the handler stores at once goes in whole, or,  *)
(* when there is no room for all of it, not at all.                        *)
EXTENDS Naturals, Sequences

CONSTANTS Chunk, Size

VARIABLES queue, buf        \* the bytes stored and not read, the last one read

Put(c) == Len(queue) + Len(c) <= Size /\ queue' = queue \o c /\ UNCHANGED buf
Get == queue # << >> /\ queue' = Tail(queue) /\ buf' = Head(queue)

Step == (\E c \in Chunk : Put(c)) \/ Get \/ UNCHANGED <<queue, buf>>
=============================================================================
