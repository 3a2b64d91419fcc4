------------------------------ MODULE MCFrames ------------------------------
(* Instances of Frames: frames of four bytes, twelve of them at most.      *)
EXTENDS Frames

RAM(b, n)  == [base |-> b, size |-> n, available |-> TRUE]
ROM(b, n)  == [base |-> b, size |-> n, available |-> FALSE]

(* Memory without gaps: plain; with the reserved end of low memory; with a *)
(* reserved region that starts and ends inside frames of user space; in    *)
(* regions that adjoin inside a frame; with too little memory for the      *)
(* bitmap; and with less than the kernel's part.  And memory with a gap.   *)
MCMaps ==
  { {RAM(0, 48)},
    {RAM(0, 6), ROM(6, 2), RAM(8, 40)},
    {RAM(0, 6), ROM(6, 2), RAM(8, 29), ROM(37, 2), RAM(39, 9)},
    {RAM(0, 34), RAM(34, 14)},
    {RAM(0, 14), ROM(14, 20), RAM(34, 14)},
    {RAM(0, 20)},
    {RAM(0, 34), RAM(38, 10)} }

OneTwo == {1, 2}
OneTwoThree == {1, 2, 3}
=============================================================================
