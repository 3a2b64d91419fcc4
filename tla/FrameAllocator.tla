--------------------------- MODULE FrameAllocator ---------------------------
(***************************************************************************)
(* What mem.h:82-92 promises of the physical allocator, each call one      *)
(* step: a request for count contiguous frames in first .. last-1 gets the *)
(* lowest such run of free frames or, when there is none, NULL; a release  *)
(* frees the used frames of a range and nothing else.                      *)
(***************************************************************************)
EXTENDS Integers

CONSTANT Frame              \* the frames that the bitmap has entries for, 0 .. some number

VARIABLES
  status,                   \* of each frame: FREE, USED or RESERVED
  result                    \* the first frame of the block got last, or NULL

NULL == 0                   \* frame 0 is always reserved (mem.c:204-205)
FREE == "free"
USED == "used"
RESERVED == "reserved"

Block(s, count) == s .. s + count - 1

(* The places where count free frames can be had between first and last. *)
Fits(st, count, first, last) ==
  { s \in first .. last - count : \A f \in Block(s, count) : st[f] = FREE }

Mark(st, frames, new) == [f \in DOMAIN st |-> IF f \in frames THEN new ELSE st[f]]

Allocate(count, first, last) ==
  \/ /\ Fits(status, count, first, last) = {}
     /\ result' = NULL
     /\ UNCHANGED status
  \/ \E s \in Fits(status, count, first, last) :
       /\ \A t \in Fits(status, count, first, last) : s <= t
       /\ result' = s
       /\ status' = Mark(status, Block(s, count), USED)

Release(s, count) ==
  /\ status' = Mark(status, {f \in Block(s, count) : f \in Frame /\ status[f] = USED}, FREE)
  /\ UNCHANGED result

Init == status \in [Frame -> {FREE, RESERVED}] /\ result = NULL

Next ==
  \E count \in Frame \ {0}, first, last \in Frame :
    Allocate(count, first, last) \/ Release(first, count)

Spec == Init /\ [][Next]_<<status, result>>
=============================================================================
