------------------------------- MODULE MCBoot -------------------------------
(* The lines of the four devices the kernel knows; the BIOS leaves the     *)
(* timer and the keyboard unmasked, or everything masked.                  *)
EXTENDS Boot

MCPorts == {"com1", "com2"}
MCIrqs == MCPorts \cup {"timer", "kb"}
MCMasks == {MCPorts, MCIrqs}
=============================================================================
