------------------------------ MODULE MCHeap ------------------------------
(* An instance of Heap: six frames of four units, the first and the last   *)
(* two of them taken by the bitmap and the stacks.                         *)
EXTENDS Heap

BitmapAndStacks == {1, 5, 6}
(* Nothing; just over a unit; a frame with its header; more than a frame.  *)
Sample == {0, 20, 48, 70}
=============================================================================
