------------------------------ MODULE MCDrives ------------------------------
(* An instance for TLC: three names, two of which compare equal. *)
EXTENDS Drives, TLC

CONSTANTS n1, n2, n3, k1, k2
AddressBytes == [n \in Names |-> IF n = n1 THEN k1 ELSE k2]
LaReset == -10

(* The two names that compare equal can be exchanged. *)
EqualNames == Permutations({n2, n3})
=============================================================================
