------------------------------ MODULE MCSerial ------------------------------
(* Instances of Serial: a ring of three slots, a UART that holds two bytes *)
(* and more bytes in all than the ring can take.                           *)
EXTENDS Serial

CONSTANTS serial, kb, b1, b2, none

BothIrqs   == {serial, kb}
TwoBytes   == {b1, b2}
OneByte    == {b1}
ReadCounts == {1, 3}
=============================================================================
