------------------------------- MODULE MCProc -------------------------------
(* Frames of two bytes, nine of them, user space from frame 2; a tiny, an  *)
(* ordinary and a large binary, and files cut short in the header, in the  *)
(* text and in the data; a table with room for one segment, for three and  *)
(* for the four that an exec for a running process needs.                  *)
EXTENDS Proc

Bin(t, d, b, n) == [text |-> t, data |-> d, bss |-> b, size |-> n]
MCBinaries == { Bin(1, 0, 0, 2), Bin(2, 3, 1, 6), Bin(2, 1, 4, 4),
                Bin(1, 1, 1, 0), Bin(3, 1, 0, 3), Bin(1, 2, 0, 3) }
MCFrame == 0 .. 8
MCSizes == {5, 7, 8}
MCMaps == {{}, {5}}
=============================================================================
