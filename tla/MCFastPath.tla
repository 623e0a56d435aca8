----------------------------- MODULE MCFastPath -----------------------------
(* FastPath with the control store of the source. *)
EXTENDS MCInstances, FastPath, ControlFlow

=============================================================================
