----------------------------- MODULE MCServices -----------------------------
(* The console and the logical drives in one run.  They share no state and  *)
(* neither calls the other, so nothing is gained by interleaving them: a    *)
(* behaviour uses the one or the other.                                     *)
EXTENDS MCConsole, MCDrives

Init == ConsoleInit /\ DrivesInit

Next ==
  \/ DrivesInit /\ ConsoleNext /\ UNCHANGED drives
  \/ asked = Empty /\ DrivesNext /\ UNCHANGED console

Spec == Init /\ [][Next]_<<console, drives>>
=============================================================================
