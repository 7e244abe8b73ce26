-------------------------------- MODULE Pci ---------------------------------
(***************************************************************************)
(* The scan of the PCI bus (PCI.cpp) and, for each EHCI controller found,  *)
(* its initialisation up to the probe of its ports (usb/ehci.cpp, lines    *)
(* 671-862): the base address registers, the reset, the hand-off from the  *)
(* firmware and the start.                                                 *)
(*                                                                         *)
(* One bus.  Configuration space is accessed through an address and a data *)
(* register that no interrupt handler uses, so an access is one step.      *)
(* Every read of a register that the controller or the firmware changes is *)
(* a step of its own.                                                      *)
(***************************************************************************)
EXTENDS Integers, Sequences, FiniteSets, SequencesExt

CONSTANTS
  Slots,      \* devices on the bus are numbered 0 .. Slots - 1
  Functions,  \* and their functions 0 .. Functions - 1
  Machines    \* what may be found there

ASSUME ScanAssumption == Slots \in Nat \ {0} /\ Functions \in Nat \ {0}

Ids == (0 .. Slots - 1) \X (0 .. Functions - 1)
Absent == [class |-> "absent", multi |-> TRUE, bars |-> <<>>, legacy |-> "none"]
Ones == [kind |-> "memory", value |-> "ones"]

VARIABLES
  machine,     \* external: class, header type, and legacy support of every function
  bar,         \* external: base address registers
  owner,       \* external: the semaphores of legacy support
  run,         \* external: usbCmd, as far as reset and run go, and who set it
  halted,      \* external: STS_HCHALTED
  lists,       \* external: whose schedule the list registers point to
  pc, slot, func, funcCount,
  index, address,   \* PciGetBar: the register being sized, and what was read
  iddd,             \* the AHCI controller seen last
  controllers,      \* g_usbControllerList
  probed            \* the address given to ahci_probe_port

fixed == <<machine>>
hardware == <<bar, owner, run, halted, lists>>
scan == <<slot, func, funcCount, iddd, controllers, probed>>
busVars == <<machine, hardware, pc, scan, index, address>>

Here == <<slot, func>>
None == "none"

(* "none": without legacy support; the others say who owns the controller. *)
ASSUME MachinesAssumption ==
  \A m \in Machines : \A f \in Ids : m[f].legacy \in {"none", "free", "firmware"}

(* A function that answers has six base address registers. *)
ASSUME BarsAssumption ==
  \A m \in Machines : \A f \in Ids :
    m[f].class # "absent" => m[f].bars = [i \in 0 .. 5 |-> m[f].bars[i]]

BusInit ==
  /\ machine \in Machines
  /\ bar = [f \in Ids |-> machine[f].bars]
  /\ owner = [f \in Ids |-> machine[f].legacy]
  /\ run \in [Ids -> {"off", "firmware"}]
  /\ \A f \in Ids : run[f] = "firmware" => owner[f] = "firmware"
  /\ halted = [f \in Ids |-> run[f] = "off"]
  /\ lists = [f \in Ids |-> IF run[f] = "off" THEN None ELSE "firmware"]
  /\ pc = "slot" /\ slot = 0 /\ func = 0 /\ funcCount = 0
  /\ index = 0 /\ address = Ones
  /\ iddd = <<0, 0>> /\ controllers = <<>> /\ probed = None

(* PciInit: the header type of function 0, of which an absent device reads *)
(* every bit as one.                                                       *)
FuncCount == IF machine[<<slot, 0>>].multi THEN Functions ELSE 1
ReadHeader ==
  /\ pc = "slot" /\ slot < Slots
  /\ funcCount' = FuncCount /\ func' = 0 /\ pc' = "visit"
  /\ UNCHANGED <<fixed, hardware, slot, iddd, controllers, probed, index, address>>

(* PciVisit.  For an IDE controller it means to set the interrupt line,    *)
(* but calls outportd with port and value the wrong way round: what it     *)
(* writes goes to the register read last, the class, which is read-only.   *)
Visit ==
  /\ pc = "visit" /\ func < funcCount
  /\ iddd' = IF machine[Here].class = "ahci" THEN Here ELSE iddd
  /\ IF machine[Here].class = "ehci"
     THEN pc' = "address" /\ index' = 0 /\ UNCHANGED func
     ELSE func' = func + 1 /\ UNCHANGED <<pc, index>>
  /\ UNCHANGED <<fixed, hardware, slot, funcCount, controllers, probed, address>>

NextSlot ==
  /\ pc = "visit" /\ func = funcCount
  /\ slot' = slot + 1 /\ pc' = "slot"
  /\ UNCHANGED <<fixed, hardware, func, funcCount, iddd, controllers, probed, index, address>>

(* PciReadBar: reads the register and writes ones to learn its size. *)
SizeBar ==
  /\ pc = "address"
  /\ address' = bar[Here][index]
  /\ bar' = [bar EXCEPT ![Here][index] = Ones]
  /\ pc' = "restore"
  /\ UNCHANGED <<fixed, owner, run, halted, lists, scan, index>>

(* A faulty form puts a register of 64 bits back into its first half. *)
RestoreFirst(f, i) == [bar EXCEPT ![f][0] = address]
Restored(f, i) == [bar EXCEPT ![f][i] = address]

(* PciReadBar puts the address back; a register of 64 bits has another     *)
(* half.  _ehci_init gives up on i/o ports.                                *)
RestoreBar ==
  /\ pc = "restore"
  /\ bar' = Restored(Here, index)
  /\ CASE index = 0 /\ address.kind = "wide" ->
            index' = 1 /\ pc' = "address" /\ UNCHANGED func
       [] index = 0 /\ address.kind = "io" ->
            func' = func + 1 /\ pc' = "visit" /\ UNCHANGED index
       [] OTHER -> pc' = "reset" /\ UNCHANGED <<index, func>>
  /\ UNCHANGED <<fixed, owner, run, halted, lists, slot, funcCount, iddd, controllers, probed,
                 address>>

(* reset_hc, without a limit to its waits. *)
Reset ==
  /\ pc = "reset"
  /\ run' = [run EXCEPT ![Here] = "reset"]
  /\ pc' = "seeReset"
  /\ UNCHANGED <<fixed, bar, owner, halted, lists, scan, index, address>>
SeeReset ==
  /\ pc = "seeReset" /\ run[Here] # "reset"
  /\ pc' = "seeHalted"
  /\ UNCHANGED <<fixed, hardware, scan, index, address>>
SeeHalted ==
  /\ pc = "seeHalted" /\ halted[Here]
  /\ pc' = "owner"
  /\ UNCHANGED <<fixed, hardware, scan, index, address>>

(* The hand-off: only if the firmware owns the controller is its own       *)
(* semaphore set and the other one waited for.                             *)
ReadOwner ==
  /\ pc = "owner"
  /\ IF owner[Here] = "firmware"
     THEN owner' = [owner EXCEPT ![Here] = "asked"] /\ pc' = "handoff"
     ELSE pc' = "lists" /\ UNCHANGED owner
  /\ UNCHANGED <<fixed, bar, run, halted, lists, scan, index, address>>

(* Faulty forms: one of the two bits is enough; both are expected to be 0. *)
HandedOverEarly(o) == o \in {"asked", "kernel"}
HandedOverNever(o) == o = "free"
HandedOver(o) == o = "kernel"
SeeHandedOver ==
  /\ pc = "handoff" /\ HandedOver(owner[Here])
  /\ pc' = "lists"
  /\ UNCHANGED <<fixed, hardware, scan, index, address>>

SetLists ==
  /\ pc = "lists"
  /\ lists' = [lists EXCEPT ![Here] = "kernel"]
  /\ pc' = "start"
  /\ UNCHANGED <<fixed, bar, owner, run, halted, scan, index, address>>
Start ==
  /\ pc = "start"
  /\ run' = [run EXCEPT ![Here] = "kernel"]
  /\ pc' = "seeRunning"
  /\ UNCHANGED <<fixed, bar, owner, halted, lists, scan, index, address>>

(* The ports are probed here (UsbTopology); then the controller is linked  *)
(* in front of the others.                                                 *)
Register ==
  /\ pc = "seeRunning" /\ ~halted[Here]
  /\ controllers' = <<Here>> \o controllers
  /\ func' = func + 1 /\ pc' = "visit"
  /\ UNCHANGED <<fixed, hardware, slot, funcCount, iddd, probed, index, address>>

(* The end of PciInit: register 0x24 of iddd, which is the first function  *)
(* of all if no AHCI controller was seen.                                  *)
ProbeAhci ==
  /\ pc = "slot" /\ slot = Slots
  /\ probed' = IF machine[iddd].class = "absent" THEN Ones.value ELSE bar[iddd][5].value
  /\ pc' = "done"
  /\ UNCHANGED <<fixed, hardware, slot, func, funcCount, iddd, controllers, index, address>>

Scan == ReadHeader \/ Visit \/ NextSlot \/ SizeBar \/ RestoreBar \/ ProbeAhci
InitEhci == Reset \/ SeeReset \/ SeeHalted \/ ReadOwner \/ SeeHandedOver \/ SetLists \/ Start \/ Register
-----------------------------------------------------------------------------
(* External: the controllers. *)
software == <<fixed, pc, scan, index, address>>
Ehcis == {f \in Ids : machine[f].class = "ehci"}

HcResets(f) ==
  /\ run[f] = "reset"
  /\ run' = [run EXCEPT ![f] = "off"]
  /\ halted' = [halted EXCEPT ![f] = TRUE]
  /\ lists' = [lists EXCEPT ![f] = None]
  /\ UNCHANGED <<software, bar, owner>>
HcFollows(f) ==
  /\ run[f] # "reset" /\ halted[f] # (run[f] = "off")
  /\ halted' = [halted EXCEPT ![f] = ~@]
  /\ UNCHANGED <<software, bar, owner, run, lists>>

(* External: firmware that uses a controller, for a keyboard, say, as long *)
(* as it owns it, and stops it when it gives it away.                      *)
FirmwareRuns(f) ==
  /\ owner[f] \in {"firmware", "asked"} /\ run[f] = "off"
  /\ run' = [run EXCEPT ![f] = "firmware"]
  /\ lists' = [lists EXCEPT ![f] = "firmware"]
  /\ UNCHANGED <<software, bar, owner, halted>>
FirmwareReleases(f) ==
  /\ owner[f] = "asked"
  /\ owner' = [owner EXCEPT ![f] = "kernel"]
  /\ run' = [run EXCEPT ![f] = IF @ = "reset" THEN @ ELSE "off"]
  /\ UNCHANGED <<software, bar, halted, lists>>

External == \E f \in Ehcis : HcResets(f) \/ HcFollows(f) \/ FirmwareRuns(f) \/ FirmwareReleases(f)

BusNext == Scan \/ InitEhci \/ External
BusSpec == BusInit /\ [][BusNext]_busVars /\ WF_busVars(Scan \/ InitEhci)
-----------------------------------------------------------------------------
(* Types, and where the loops stand when a controller is being started. *)
Starting == {"address", "restore", "reset", "seeReset", "seeHalted", "owner", "handoff",
             "lists", "start", "seeRunning"}
BusTypeOK ==
  /\ owner \in [Ids -> {"none", "free", "firmware", "asked", "kernel"}]
  /\ run \in [Ids -> {"off", "firmware", "reset", "kernel"}]
  /\ lists \in [Ids -> {None, "firmware", "kernel"}]
  /\ controllers \in Seq(Ids)
  /\ slot \in Nat /\ func \in Nat /\ funcCount \in 0 .. Functions
  /\ pc \in {"slot", "visit", "done"} \cup Starting
  /\ pc \notin {"slot", "done"} => slot < Slots /\ func <= funcCount
  /\ pc \in Starting => func < funcCount

(* A controller that was started runs the schedule of the kernel, and the  *)
(* firmware has given it away (ehci.cpp:806-835).                          *)
StartedIsOurs ==
  \A f \in Ids :
    f \in ToSet(controllers) \/ (f = Here /\ pc = "seeRunning") =>
      /\ run[f] = "kernel" /\ lists[f] = "kernel"
      /\ owner[f] \notin {"firmware", "asked"}

(* At the end the list has every EHCI controller with registers in memory, *)
(* those on other functions than the first included, the AHCI probe gets   *)
(* the last AHCI controller, and sizing has left every address as it was   *)
(* (PCI.cpp:168-181, 419-438).                                             *)
Visible(f) == f[2] = 0 \/ machine[<<f[1], 0>>].multi
Seen(class) == {f \in Ids : machine[f].class = class /\ Visible(f)}
NotBefore(f, g) == f[1] > g[1] \/ (f[1] = g[1] /\ f[2] >= g[2])
AllFound ==
  pc = "done" =>
    /\ ToSet(controllers) = {f \in Seen("ehci") : machine[f].bars[0].kind # "io"}
    /\ Cardinality(ToSet(controllers)) = Len(controllers)
    /\ \A f \in Seen("ahci") :
         (\A g \in Seen("ahci") : NotBefore(f, g)) => probed = machine[f].bars[5].value
    /\ bar = [f \in Ids |-> machine[f].bars]

(* The scan comes to its end, unless the hardware or the firmware never    *)
(* shows what one of the waits without a limit is for (ehci.cpp:684, 690,  *)
(* 810, 838).                                                              *)
Awaited ==
  \/ pc = "seeReset" /\ run[Here] = "reset"
  \/ pc = "seeHalted" /\ ~halted[Here]
  \/ pc = "handoff" /\ owner[Here] = "asked"
  \/ pc = "seeRunning" /\ halted[Here]
EndsUnlessAwaited == []<>Awaited \/ <>(pc = "done")
=============================================================================
