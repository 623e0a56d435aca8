------------------------------ MODULE MCQe6502 ------------------------------
(* Qe6502Core with the control store of the source. *)
EXTENDS MCInstances, Qe6502Core, ControlFlow

=============================================================================
