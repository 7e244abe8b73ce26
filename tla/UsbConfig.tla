----------------------------- MODULE UsbConfig ------------------------------
(***************************************************************************)
(* UsbDevInit (usb/usbd.cpp, lines 133-324) for one device: the requests   *)
(* it makes, the parser that turns configuration descriptors into the      *)
(* lists of interfaces and endpoints, and the choice of a driver.          *)
(* UsbTopology has the same function as a few steps among the other work   *)
(* of enumeration; this module has what it builds.                         *)
(*                                                                         *)
(* One action per request and per descriptor parsed.  The device decides   *)
(* what the descriptors say and which requests fail.  "undefined" is where *)
(* the code goes on from a pointer that is null or was never set, or       *)
(* writes past a buffer.                                                   *)
(***************************************************************************)
EXTENDS Integers, Sequences, FiniteSets, SequencesExt

CONSTANTS
  Devices,     \* what devices say: [confs, strlen, packet], see device
  StringMax,   \* USB_STRING_SIZE
  MaxFails,    \* bound: requests that fail
  MaxNodes     \* descriptors the heap has room for

(* What descriptors hold ("hid" stands for the classes without a driver    *)
(* here), what a device is, and how much the heap has room for: as many    *)
(* descriptors in each configuration as in the longest.  USB_STRING_SIZE   *)
(* is 127 (usbd.h:260).                                                     *)
Classes == {"hub", "storage", "hid"}
Descriptor ==
  [type : {"intf"}, len : Nat, class : Classes]
    \cup [type : {"endp"}, len : Nat, isin : BOOLEAN, attributes : Nat]
    \cup [type : {"other"}, len : Nat]
Device ==
  [confs : Seq([value : Nat, fits : BOOLEAN, descs : Seq(Descriptor)]),
   strlen : 0 .. 255, packet : Nat]
HasRoom(d, n) ==
  /\ \A i \in 1 .. Len(d.confs) : Len(d.confs[i].descs) <= n
  /\ Len(d.confs) * n <= MaxNodes
ASSUME ParametersAssumption ==
  /\ MaxFails \in Nat /\ MaxNodes \in Nat /\ StringMax \in Nat /\ StringMax >= 127
  /\ \A d \in Devices : d \in Device /\ \E n \in 0 .. MaxNodes : HasRoom(d, n)

VARIABLES
  device,   \* external: its configurations, each [value, fits, descs], the
            \* length byte of its string descriptors, its maxPacketSize
  fails,    \* ghost: requests that failed
  pc,
  conf,     \* confIndex
  data,     \* the descriptors not parsed yet
  picked,   \* pickedConfValue
  intfs,    \* interfaces from dev->intfDesc on: [class, endpoints]
  endps,    \* endpoints in the order they came: [isin, attributes, next]
  drivers   \* drivers started for the device

vars == <<device, fails, pc, conf, data, picked, intfs, endps, drivers>>

Ended == {"true", "false", "undefined"}

(* The last of each is pickedIntfDesc and pickedEndpDesc; 0 is NULL. *)
PickedIntf == Len(intfs)
PickedEndp == Len(endps)

(* The endpoints reached from e along next. *)
ChainFrom(e) ==
  LET c[k \in 0 .. Len(endps)] ==
        IF k = 0 THEN IF e = 0 THEN <<>> ELSE <<e>>
        ELSE LET s == c[k - 1]
             IN IF s = <<>> \/ endps[Last(s)].next = 0 THEN s ELSE Append(s, endps[Last(s)].next)
  IN c[Len(endps)]

Init ==
  /\ device \in Devices
  /\ fails = 0 /\ pc = "first" /\ conf = 1 /\ data = <<>> /\ picked = 0
  /\ intfs = <<>> /\ endps = <<>> /\ drivers = {}

(* UsbDevRequest succeeds or fails.  One that moves data after dev has its  *)
(* maxPacketSize fails if that is 0: it takes descriptors until none is     *)
(* left (ehci.cpp:411).                                                     *)
Dataless == pc = "addr" \/ (pc = "conf" /\ conf > Len(device.confs))
Starves == device.packet = 0 /\ pc # "first" /\ ~Dataless
Request(ok) ==
  IF ok THEN ~Starves /\ UNCHANGED fails
  ELSE IF Starves THEN UNCHANGED fails
  ELSE fails < MaxFails /\ fails' = fails + 1

(* The first eight bytes, the address and the whole device descriptor: a   *)
(* failure of one ends the initialisation.                                 *)
AfterIdentify == [first |-> "addr", addr |-> "whole", whole |-> "strings"]
Identify(ok) ==
  /\ pc \in DOMAIN AfterIdentify
  /\ Request(ok)
  /\ pc' = IF ok THEN AfterIdentify[pc] ELSE "false"
  /\ UNCHANGED <<device, conf, data, picked, intfs, endps, drivers>>

(* UsbDevGetLangs and UsbDevGetString: len is a byte, (len - 2) / 2 rounds *)
(* to zero, and the loops compare with it as an unsigned number.  Their    *)
(* failures are ignored.                                                   *)
Characters(len) == IF len = 0 THEN -1 ELSE IF len = 1 THEN 0 ELSE (len - 2) \div 2
Strings(ok) ==
  /\ pc = "strings"
  /\ Request(ok)
  /\ pc' = IF ok /\ Characters(device.strlen) \notin 0 .. StringMax - 1
           THEN "undefined" ELSE "conf"
  /\ UNCHANGED <<device, conf, data, picked, intfs, endps, drivers>>

(* Faulty form: the value is taken before the configuration was read. *)
ReadConfEarlyPick(ok) ==
  /\ pc = "conf" /\ conf <= Len(device.confs)
  /\ Request(ok)
  /\ picked' = IF picked = 0 THEN device.confs[conf].value ELSE picked
  /\ IF ok /\ device.confs[conf].fits
     THEN /\ data' = device.confs[conf].descs
          /\ pc' = "parse"
          /\ UNCHANGED conf
     ELSE conf' = conf + 1 /\ UNCHANGED <<data, pc>>
  /\ UNCHANGED <<device, intfs, endps, drivers>>

(* The two requests for configuration conf; one that fails, or does not    *)
(* fit configBuf, is passed over.                                          *)
ReadConf(ok) ==
  /\ pc = "conf" /\ conf <= Len(device.confs)
  /\ Request(ok)
  /\ IF ok /\ device.confs[conf].fits
     THEN /\ picked' = IF picked = 0 THEN device.confs[conf].value ELSE picked
          /\ data' = device.confs[conf].descs
          /\ pc' = "parse"
          /\ UNCHANGED conf
     ELSE /\ conf' = conf + 1
          /\ UNCHANGED <<picked, data, pc>>
  /\ UNCHANGED <<device, intfs, endps, drivers>>

(* data += len: a descriptor of length 0 is parsed again. *)
Advance == data' = IF Head(data).len = 0 THEN data ELSE Tail(data)

(* An interface goes to the end of the list. *)
ParseIntf ==
  /\ pc = "parse" /\ data # <<>> /\ Head(data).type = "intf"
  /\ IF Len(intfs) + Len(endps) = MaxNodes
     THEN pc' = "undefined" /\ UNCHANGED <<intfs, data>>
     ELSE /\ intfs' = Append(intfs, [class |-> Head(data).class, endpoints |-> 0])
          /\ Advance
          /\ UNCHANGED pc
  /\ UNCHANGED <<device, fails, conf, picked, endps, drivers>>

(* Faulty form: the last endpoint is not linked to the new one. *)
ParseEndpUnlinked ==
  /\ pc = "parse" /\ data # <<>> /\ Head(data).type = "endp"
  /\ IF PickedIntf = 0 \/ Len(intfs) + Len(endps) = MaxNodes
     THEN pc' = "false" /\ UNCHANGED <<endps, intfs, data>>
     ELSE /\ endps' = Append(endps, [isin |-> Head(data).isin,
                                     attributes |-> Head(data).attributes, next |-> 0])
          /\ intfs' = [intfs EXCEPT ![PickedIntf].endpoints = IF @ = 0 THEN Len(endps) + 1 ELSE @]
          /\ Advance
          /\ UNCHANGED pc
  /\ UNCHANGED <<device, fails, conf, picked, drivers>>

(* An endpoint goes behind the last endpoint, whichever interface that     *)
(* belongs to; the first one of all is hung from the last interface.       *)
ParseEndp ==
  /\ pc = "parse" /\ data # <<>> /\ Head(data).type = "endp"
  /\ LET new == [isin |-> Head(data).isin, attributes |-> Head(data).attributes, next |-> 0]
     IN IF Len(intfs) + Len(endps) = MaxNodes
        THEN pc' = "undefined" /\ UNCHANGED <<endps, intfs, data>>
        ELSE IF PickedIntf = 0
        THEN pc' = "false" /\ UNCHANGED <<endps, intfs, data>>
        ELSE /\ IF PickedEndp = 0
                THEN /\ intfs' = [intfs EXCEPT ![PickedIntf].endpoints = 1]
                     /\ endps' = <<new>>
                ELSE /\ endps' = Append([endps EXCEPT ![PickedEndp].next = PickedEndp + 1], new)
                     /\ UNCHANGED intfs
             /\ Advance
             /\ UNCHANGED pc
  /\ UNCHANGED <<device, fails, conf, picked, drivers>>

ParseOther ==
  /\ pc = "parse" /\ data # <<>> /\ Head(data).type = "other"
  /\ Advance
  /\ UNCHANGED <<device, fails, pc, conf, picked, intfs, endps, drivers>>

(* Faulty form: the same configuration is read again. *)
ParseEndAgain ==
  /\ pc = "parse" /\ data = <<>>
  /\ pc' = "conf"
  /\ UNCHANGED <<device, fails, conf, data, picked, intfs, endps, drivers>>

ParseEnd ==
  /\ pc = "parse" /\ data = <<>>
  /\ pc' = "conf" /\ conf' = conf + 1
  /\ UNCHANGED <<device, fails, data, picked, intfs, endps, drivers>>

(* SET_CONFIGURATION, when a configuration was picked, and the walk over   *)
(* the list: dev->intfDesc was never set when no interface was parsed.     *)
SetConf(ok) ==
  /\ pc = "conf" /\ conf > Len(device.confs)
  /\ IF picked = 0 THEN pc' = "true" /\ UNCHANGED fails
     ELSE /\ Request(ok)
          /\ pc' = IF ~ok THEN "false" ELSE IF intfs = <<>> THEN "undefined" ELSE "drivers"
  /\ UNCHANGED <<device, conf, data, picked, intfs, endps, drivers>>

(* usb_hub_init looks at the first interface, the test for a disk at the   *)
(* last interface and the last endpoint, and usb_storage_init takes its    *)
(* endpoints from the first interface again.                               *)
StartDrivers ==
  /\ pc = "drivers"
  /\ LET disk == Last(intfs).class = "storage"
         first == ChainFrom(intfs[1].endpoints)
         wanted == disk /\ endps # <<>> /\ Last(endps).attributes # 0
     IN /\ pc' = IF (disk /\ endps = <<>>) \/ (wanted /\ Len(first) < 2)
                 THEN "undefined" ELSE "true"
        /\ drivers' = (IF intfs[1].class = "hub" THEN {"hub"} ELSE {})
                        \cup (IF wanted THEN {"storage"} ELSE {})
  /\ UNCHANGED <<device, fails, conf, data, picked, intfs, endps>>

Parse == ParseIntf \/ ParseEndp \/ ParseOther \/ ParseEnd

Next ==
  \/ \E ok \in BOOLEAN :
       Identify(ok) \/ Strings(ok) \/ ReadConf(ok) \/ SetConf(ok)
  \/ Parse
  \/ StartDrivers

Spec == Init /\ [][Next]_vars /\ WF_vars(Next)
-----------------------------------------------------------------------------
(* The descriptors of configuration i, those of type t among its first n,  *)
(* and what a device must keep to.                                         *)
Descs(i) == device.confs[i].descs
Among(i, t) ==
  LET kept[n \in 0 .. Len(Descs(i))] ==
        IF n = 0 THEN <<>>
        ELSE IF Descs(i)[n].type = t THEN Append(kept[n - 1], Descs(i)[n])
        ELSE kept[n - 1]
  IN kept
OfType(i, t) == Among(i, t)[Len(Descs(i))]
NoEmptyDescriptor ==
  \A i \in 1 .. Len(device.confs) : \A j \in 1 .. Len(Descs(i)) : Descs(i)[j].len > 0
Begins(i, a, b, c) ==
  /\ a < b /\ b < c
  /\ \A j \in 1 .. a - 1 : Descs(i)[j].type = "other"
  /\ \A j \in a + 1 .. c : Descs(i)[j].type # "intf"
  /\ Descs(i)[a].type = "intf" /\ Descs(i)[b].type = "endp" /\ Descs(i)[c].type = "endp"
EndpointsBehindInterface(i) == \E a, b, c \in 1 .. Len(Descs(i)) : Begins(i, a, b, c)
Sound ==
  /\ NoEmptyDescriptor /\ device.strlen > 0 /\ device.packet > 0
  /\ \A i \in 1 .. Len(device.confs) : EndpointsBehindInterface(i)

(* A device whose descriptors have a length, and whose configurations each  *)
(* begin with an interface of two endpoints, is initialised without a use   *)
(* of a pointer that was not set (lines 302, 318, 319), whichever requests  *)
(* fail.                                                                    *)
SoundDevicesSafe == Sound => pc # "undefined"

(* A device of one configuration with one interface gets, when no request   *)
(* fails, the driver of its class and no other, and its interface has its   *)
(* endpoints, in their order.                                               *)
Ordinary ==
  /\ Sound /\ Len(device.confs) = 1
  /\ device.confs[1].value # 0 /\ device.confs[1].fits
  /\ Len(OfType(1, "intf")) = 1 /\ Last(OfType(1, "endp")).attributes # 0
OrdinaryDeviceServed ==
  Ordinary /\ pc \in Ended /\ fails = 0 =>
    /\ pc = "true"
    /\ drivers = {"hub", "storage"} \cap {OfType(1, "intf")[1].class}
    /\ LET own == ChainFrom(intfs[1].endpoints)
       IN [i \in 1 .. Len(own) |-> endps[own[i]].isin]
            = [i \in 1 .. Len(OfType(1, "endp")) |-> OfType(1, "endp")[i].isin]

(* The initialisation ends, whatever fails, unless a descriptor has length  *)
(* 0 (line 289); a maximum packet size of 0 ends it too.                    *)
InitEnds == NoEmptyDescriptor => <>(pc \in Ended)
=============================================================================
