---------------------------- MODULE MCUsbTopology ----------------------------
(* An instance for TLC: a hub and a disk, and root ports whose numbers the  *)
(* ports of the hub share.                                                  *)
EXTENDS UsbTopology

CONSTANTS h, root
AllSockets == {<<root, 0>>, <<root, 1>>, <<h, 0>>, <<h, 1>>}
=============================================================================
