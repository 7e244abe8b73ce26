------------------------------- MODULE MCBoot -------------------------------
(* The scan of the bus and the heap in one run.  The scan allocates nothing *)
(* in Pci, so nothing is gained by interleaving the two: callers use the    *)
(* heap when the scan has come to its end, and on a bus with nothing on it. *)
EXTENDS MCTlsf, MCPci

BootInit == BusInit /\ Init

Scanned == pc = "done" /\ \A f \in Ids : machine[f] = Absent
BootNext ==
  \/ BusNext /\ UNCHANGED vars
  \/ Scanned /\ Next /\ UNCHANGED busVars

BootSpec == BootInit /\ [][BootNext]_<<vars, busVars>> /\ WF_busVars(Scan \/ InitEhci)

(* The class that malloc searches from is good for the request: its blocks  *)
(* are long enough, and none that would do is passed over for long          *)
(* (tlsf.c:317-349).  The classes depend on no state, so they are looked at *)
(* when nothing is allocated.                                               *)
Unused == Scanned /\ DOMAIN live = {}
GoodFit == Unused => \A n \in MCSizes : \A s \in BlockSizes : Kernel!GoodClass(n, s)
=============================================================================
