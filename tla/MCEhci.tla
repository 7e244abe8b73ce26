------------------------------- MODULE MCEhci -------------------------------
(* Instances for TLC: one bulk endpoint of a storage device. *)
EXTENDS Ehci
OneEndp == {"in"}
=============================================================================
