------------------------------ MODULE UsbTopology ------------------------------
(***************************************************************************)
(* The list of USB devices: enumeration of root ports and of hubs, and the *)
(* endless UsbPoll that follows plugging and unplugging (usb/usbd.cpp,     *)
(* usb/hub.cpp, the port functions of usb/ehci.cpp).                       *)
(*                                                                         *)
(* The kernel is one thread; every access to a port register and every     *)
(* request to a device is a step, and the outside world may plug and       *)
(* unplug between any two.  A probe of a hub runs inside the               *)
(* initialisation of the hub's device, so the thread is a stack of port    *)
(* loops.  Devices are external: a device answers at the address it was    *)
(* given since the last reset of its port, and hubs report and acknowledge *)
(* changes of their ports.  Hubs are plugged into root ports only.         *)
(***************************************************************************)
EXTENDS Integers, Sequences, SequencesExt, FiniteSets

CONSTANTS
  Hubs, Functions,       \* devices: hubs, and mass storage devices
  Root,                  \* the controller, as the owner of the root ports
  RootCount, HubCount,   \* numbers of ports
  Sockets,               \* the ports into which something may be plugged
  Cells,                 \* addresses that malloc returns for a UsbDevice
  Null, Wild,            \* the null pointer; a pointer to anything else
  AddrMod,               \* the values of the address field of a queue head: 128
  MaxEvents, MaxFaults   \* bounds: plugs and unplugs; requests lost by the bus

Devs == Hubs \cup Functions
Ports(k) == 0 .. (IF k = Root THEN RootCount ELSE HubCount) - 1
Locs == UNION {{k} \X Ports(k) : k \in {Root} \cup Hubs}

ASSUME TopologyAssumption ==
  /\ RootCount \in Nat \ {0} /\ HubCount \in Nat \ {0}
  /\ Sockets \subseteq Locs /\ IsFiniteSet(Cells) /\ Cells \subseteq Nat
  /\ MaxEvents \in Nat /\ MaxFaults \in Nat /\ AddrMod \in Nat \ {0}
  /\ Hubs \cap Functions = {} /\ Null \notin Devs \cup Cells \cup {Root, Wild}
  /\ Root \notin Devs \cup Cells /\ Wild \notin Cells

VARIABLES
  at, change, enabled,    \* external: the device at a port, and the port's status bits
  devAddr,                \* external: the address a device answers at
  events, faults,         \* counters for the bounds; faults also counts failures of malloc
  fresh,                  \* ghost: something happened since the driver looked at the port
  lost,                   \* ghost: ports where something happened that the driver cannot see
  used,                   \* ghost: ports into which something was plugged
  head, live, next, cell, \* the list of devices: g_usbDeviceList, allocated cells, their fields
  nextAddr,               \* s_nextUsbAddr
  stack,                  \* the port loops that are running
  main, cursor            \* UsbPoll: the part that is running, and the device it has come to

world == <<at, events, used>>
ports == <<change, enabled, devAddr>>
list == <<head, live, next>>
poll == <<main, cursor>>
vars == <<world, ports, faults, fresh, lost, list, cell, nextAddr, stack, poll>>

-----------------------------------------------------------------------------
(* The running port loop: the device whose ports it visits, whether it      *)
(* polls or probes, the port, the step, and the entry being initialised.    *)
Loop(k, polls) ==
  [dev |-> k, polls |-> polls, port |-> 0, st |-> IF polls THEN "look" ELSE "reset", new |-> Null]
Running == stack # <<>>
Top == Last(stack)
Goto(st) == stack' = [stack EXCEPT ![Len(stack)].st = st]
AfterPort == [stack EXCEPT ![Len(stack)] = [Loop(Top.dev, Top.polls) EXCEPT !.port = Top.port + 1]]
NextPort == stack' = AfterPort
InPort(st) == Running /\ Top.st = st /\ Top.port \in Ports(Top.dev)

(* The driver's address is an unsigned int.  ehci_init_qh ORs it into a word *)
(* in which it has seven bits, and SET_ADDRESS has seven bits for it too:   *)
(* the field holds the rest modulo 128, and the bits above it fall into the *)
(* I bit and the endpoint number, which the controller may not follow.      *)
Field(a) == a % AddrMod
Wide(a) == a >= AddrMod

(* External: who answers a request of the driver to address a, and the port *)
(* that a request to the hub whose ports are visited arrives at.            *)
Plugged(d) == \E l \in Locs : at[l] = d
Answers(a) == {d \in Devs : devAddr[d] = Field(a) /\ \E l \in Locs : at[l] = d /\ enabled[l]}
PortSeen == IF Top.dev = Root THEN {<<Root, Top.port>>}
            ELSE {<<h, Top.port>> : h \in Answers(cell[Top.dev].addr) \cap Hubs}
Powered(k) == k = Root \/ \E q \in Ports(Root) : at[<<Root, q>>] = k /\ enabled[<<Root, q>>]

Empty == [port |-> 0, addr |-> 0, hub |-> FALSE, from |-> Null]

(* Anything may be plugged in when the machine starts. *)
Init ==
  /\ at \in [Locs -> Devs \cup {Null}]
  /\ \A l \in Locs : at[l] # Null =>
       /\ l \in Sockets /\ (at[l] \in Hubs => l[1] = Root)
       /\ \A k \in Locs \ {l} : at[k] # at[l]
  /\ change = [l \in Locs |-> l[1] = Root /\ at[l] # Null]
  /\ enabled = [l \in Locs |-> FALSE]
  /\ devAddr = [d \in Devs |-> 0]
  /\ events = 0 /\ faults = 0
  /\ fresh = [l \in Locs |-> FALSE] /\ lost = {} /\ used = {l \in Locs : at[l] # Null}
  /\ head = Null /\ live = {} /\ nextAddr = 0
  /\ next = [c \in Cells |-> Null] /\ cell = [c \in Cells |-> Empty]
  /\ stack = <<Loop(Root, FALSE)>>
  /\ main = "boot" /\ cursor = Null

-----------------------------------------------------------------------------
(* External: plugging and unplugging.  A hub without power reports nothing; *)
(* it takes the power from its ports when it goes.  The driver cannot see   *)
(* an event that falls between its looks at another one of the same port,   *)
(* an arrival during the reset of a root port, or what was below a hub.     *)
Disturbed(l) == /\ events < MaxEvents /\ main # "wild" /\ events' = events + 1
                /\ fresh' = [fresh EXCEPT ![l] = TRUE]
Overlaps(l) == fresh[l] \/ (InPort("enable") /\ l \in PortSeen)

Plug(d, l) ==
  /\ Disturbed(l) /\ ~Plugged(d) /\ at[l] = Null /\ (d \in Hubs => l[1] = Root)
  /\ at' = [at EXCEPT ![l] = d] /\ used' = used \cup {l}
  /\ change' = [change EXCEPT ![l] = Powered(l[1])]
  /\ lost' = IF Overlaps(l) THEN lost \cup {l} ELSE lost
  /\ UNCHANGED <<enabled, devAddr, faults, list, cell, nextAddr, stack, poll>>

Unplug(l) ==
  /\ Disturbed(l) /\ at[l] # Null
  /\ at' = [at EXCEPT ![l] = Null] /\ UNCHANGED used
  /\ change' = [k \in Locs |-> IF k = l THEN Powered(l[1]) ELSE change[k] /\ k[1] # at[l]]
  /\ enabled' = [k \in Locs |-> enabled[k] /\ k # l /\ k[1] # at[l]]
  /\ lost' = lost \cup {k \in Locs : k[1] = at[l] \/ (k = l /\ Overlaps(l))}
  /\ UNCHANGED <<devAddr, faults, list, cell, nextAddr, stack, poll>>

World == (\E l \in Sockets : Unplug(l) \/ \E d \in Devs : Plug(d, l))

-----------------------------------------------------------------------------
(* Resetting a port: the device behind it answers at address 0, and a hub   *)
(* starts with its own ports off and reports what is plugged into them.     *)
PortReset(l) ==
  /\ enabled' = [k \in Locs |-> IF k = l THEN at[l] # Null ELSE enabled[k] /\ k[1] # at[l]]
  /\ change' = [k \in Locs |-> IF k[1] = at[l] THEN at[k] # Null ELSE change[k]]
  /\ devAddr' = [d \in Devs |-> IF d = at[l] THEN 0 ELSE devAddr[d]]

(* A request fails if the bus loses it, or if it cannot succeed.            *)
Fault == faults < MaxFaults /\ faults' = faults + 1
FailsIf(hopeless) == Fault \/ (hopeless /\ UNCHANGED faults)

(* A request about a port of a hub fails, and the loop goes on to the next. *)
PortRequestFails ==
  /\ Running /\ Top.dev # Root /\ Top.port \in Ports(Top.dev)
  /\ Top.st \in {"look", "gone", "came", "check", "reset", "ack", "final"}
  /\ FailsIf(PortSeen = {} \/ Wide(cell[Top.dev].addr))
  /\ NextPort
  /\ UNCHANGED <<world, ports, fresh, lost, list, cell, nextAddr, poll>>

(* A faulty form: the change bits are masked out before the write.          *)
RootResetKeeps ==
  /\ InPort("reset") /\ Top.dev = Root /\ Goto("enable")
  /\ UNCHANGED <<world, ports, faults, fresh, lost, list, cell, nextAddr, poll>>

(* ehci_reset_port: setting PORT_POWER and PORT_RESET writes the register   *)
(* back as it was read, and the change bits are cleared by writing ones.    *)
RootReset ==
  /\ InPort("reset") /\ Top.dev = Root
  /\ change' = [change EXCEPT ![<<Root, Top.port>>] = FALSE]
  /\ Goto("enable")
  /\ UNCHANGED <<world, enabled, devAddr, faults, fresh, lost, list, cell, nextAddr, poll>>

(* The end of the reset signal enables the port.                            *)
RootEnable ==
  /\ InPort("enable") /\ PortReset(<<Root, Top.port>>) /\ Goto("final")
  /\ UNCHANGED <<world, faults, fresh, lost, list, cell, nextAddr, poll>>

(* UsbHubResetPort: reset, read the status, acknowledge a change.  The code *)
(* reads up to twice and acknowledges up to three times; once stands for it *)
(* here, as only the last status counts.                                    *)
HubReset ==
  /\ InPort("reset") /\ Top.dev # Root
  /\ \E l \in PortSeen : PortReset(l)
  /\ Goto("ack")
  /\ UNCHANGED <<world, faults, fresh, lost, list, cell, nextAddr, poll>>

HubAck ==
  /\ InPort("ack")
  /\ \E l \in PortSeen : Goto(IF change[l] THEN "clear" ELSE "final")
  /\ UNCHANGED <<world, ports, faults, fresh, lost, list, cell, nextAddr, poll>>

(* Acknowledging the arrival of a device without resetting it hides it.     *)
Clear(l) ==
  /\ change' = [change EXCEPT ![l] = FALSE]
  /\ fresh' = [fresh EXCEPT ![l] = FALSE]
Acknowledge(l) ==
  /\ Clear(l)
  /\ lost' = IF at[l] # Null /\ ~enabled[l] THEN lost \cup {l} ELSE lost

HubClear ==
  /\ InPort("clear") /\ Goto("final")
  /\ \/ \E l \in PortSeen : Acknowledge(l) /\ UNCHANGED faults
     \/ /\ FailsIf(PortSeen = {} \/ Wide(cell[Top.dev].addr))
        /\ UNCHANGED <<change, fresh, lost>>
  /\ UNCHANGED <<world, enabled, devAddr, list, cell, nextAddr, poll>>

(* malloc: any free cell; those that nothing points to are all alike.       *)
Held(c) == c = cursor \/ \E i \in DOMAIN stack : stack[i].dev = c
Malloc == {c \in Cells \ live : Held(c) \/ \A d \in Cells \ live : Held(d) \/ c <= d}

(* The last status read decides whether there is a device: UsbDevCreate     *)
(* puts it at the head of the list.                                         *)
Create(c, l) ==
  /\ live' = live \cup {c} /\ head' = c /\ next' = [next EXCEPT ![c] = head]
  /\ cell' = [cell EXCEPT ![c] = [Empty EXCEPT !.port = Top.port, !.from = l]]
  /\ stack' = [stack EXCEPT ![Len(stack)].st = "desc", ![Len(stack)].new = c]
  /\ UNCHANGED <<lost, faults>>

(* Without memory the device is left as it is, at address 0.                *)
NoMemory(l) ==
  /\ Cells \subseteq live /\ NextPort /\ lost' = lost \cup {l} /\ faults' = faults + 1
  /\ UNCHANGED <<list, cell>>

FinalStatus ==
  /\ InPort("final")
  /\ \E l \in PortSeen :
       /\ fresh' = [fresh EXCEPT ![l] = @ /\ change[l]]
       /\ \/ ~enabled[l] /\ NextPort /\ UNCHANGED <<list, cell, lost, faults>>
          \/ enabled[l] /\ \E c \in Malloc : Create(c, l)
          \/ enabled[l] /\ NoMemory(l)
  /\ UNCHANGED <<world, ports, nextAddr, poll>>

-----------------------------------------------------------------------------
(* UsbDevInit: the first descriptor and the new address are requests to     *)
(* address 0, the rest go to the new address.  If one fails the entry       *)
(* stays in the list as it is.                                              *)
GetDescriptor ==
  /\ InPort("desc") /\ Answers(0) # {} /\ Goto("addr")
  /\ UNCHANGED <<world, ports, faults, fresh, lost, list, cell, nextAddr, poll>>

(* A faulty form: an address is taken from the next device.                 *)
SetAddressAgain ==
  /\ InPort("addr") /\ Answers(0) # {}
  /\ nextAddr' = IF Top.dev = Root THEN nextAddr + 1 ELSE nextAddr
  /\ devAddr' = [d \in Devs |-> IF d \in Answers(0) THEN Field(nextAddr') ELSE devAddr[d]]
  /\ cell' = [cell EXCEPT ![Top.new].addr = nextAddr']
  /\ Goto("conf")
  /\ UNCHANGED <<world, change, enabled, faults, fresh, lost, list, poll>>

SetAddress ==
  /\ InPort("addr") /\ Answers(0) # {}
  /\ nextAddr' = nextAddr + 1
  /\ devAddr' = [d \in Devs |-> IF d \in Answers(0) THEN Field(nextAddr') ELSE devAddr[d]]
  /\ cell' = [cell EXCEPT ![Top.new].addr = nextAddr']
  /\ Goto("conf")
  /\ UNCHANGED <<world, change, enabled, faults, fresh, lost, list, poll>>

(* The configuration is set and a driver takes the device: a hub is probed  *)
(* at once.                                                                 *)
StartHub ==
  /\ InPort("conf") /\ Answers(cell[Top.new].addr) \cap Hubs # {}
  /\ cell' = [cell EXCEPT ![Top.new].hub = TRUE]
  /\ stack' = Append(AfterPort, Loop(Top.new, FALSE))
  /\ UNCHANGED <<world, ports, faults, fresh, lost, list, nextAddr, poll>>

StartOther ==
  /\ InPort("conf") /\ Answers(cell[Top.new].addr) \cap Functions # {}
  /\ NextPort
  /\ UNCHANGED <<world, ports, faults, fresh, lost, list, cell, nextAddr, poll>>

(* The address is spent, and may have been taken, even if the request fails. *)
(* A device may refuse an address that its field does not hold.             *)
Unanswered(a) == Answers(a) = {} \/ Wide(a)

InitFails ==
  /\ \/ InPort("desc") /\ FailsIf(Unanswered(0)) /\ UNCHANGED <<nextAddr, devAddr>>
     \/ InPort("conf") /\ FailsIf(Unanswered(cell[Top.new].addr)) /\ UNCHANGED <<nextAddr, devAddr>>
     \/ /\ InPort("addr") /\ nextAddr' = nextAddr + 1
        /\ FailsIf(Unanswered(0) \/ Wide(nextAddr'))
        /\ \E taken \in {{}, Answers(0)} :
             devAddr' = [d \in Devs |-> IF d \in taken THEN Field(nextAddr') ELSE devAddr[d]]
  /\ NextPort
  /\ UNCHANGED <<world, change, enabled, fresh, lost, list, cell, poll>>

-----------------------------------------------------------------------------
(* Polling a port: ehci_controller_poll, UsbHubPoll.                        *)
Look ==
  /\ InPort("look")
  /\ \E l \in PortSeen :
       /\ fresh' = [fresh EXCEPT ![l] = FALSE]
       /\ \/ change[l] /\ at[l] = Null /\ Goto("gone")
          \/ change[l] /\ at[l] # Null /\ Goto("came")
          \/ ~change[l] /\ NextPort
  /\ UNCHANGED <<world, ports, faults, lost, list, cell, nextAddr, poll>>

(* The list as the sequence of what the pointers lead to. *)
Walk[n \in 0 .. Cardinality(Cells)] ==
  IF n = 0 THEN head ELSE IF Walk[n-1] \in Cells THEN next[Walk[n-1]] ELSE Walk[n-1]
Listed == {Walk[n] : n \in 0 .. Cardinality(Cells)} \cap Cells

(* The entry that a disconnect removes: the first with this port number.    *)
Places(p) == {n \in DOMAIN Walk : Walk[n] \in Cells /\ cell[Walk[n]].port = p}
FirstPlace(p) == CHOOSE n \in Places(p) : \A m \in Places(p) : n <= m

(* free lets the links of free blocks overlay the first two words of the    *)
(* cell, parent and next, unless the block is merged into the one before.   *)
(* What is left in a cell that the kernel does not point to is forgotten.   *)
Freed(c) ==
  /\ live' = live \ {c}
  /\ cell' = IF Held(c) THEN cell ELSE [cell EXCEPT ![c] = Empty]
After(c) == IF Held(c) THEN {next[c], Null, Wild} ELSE {Null}

(* A faulty form: the list is cut at the entry that goes.                   *)
UnlinkCuts(n) ==
  /\ Freed(Walk[n])
  /\ head' = IF n = 0 THEN next[Walk[n]] ELSE head
  /\ next' = [d \in Cells |-> IF d = Walk[n] \/ (n > 0 /\ d = Walk[n-1]) THEN Null ELSE next[d]]

Unlink(n) ==
  /\ Freed(Walk[n])
  /\ head' = IF n = 0 THEN next[Walk[n]] ELSE head
  /\ \E after \in After(Walk[n]) :
       next' = [d \in Cells |-> IF d = Walk[n] THEN after
                                ELSE IF n > 0 /\ d = Walk[n-1] THEN next[Walk[n]] ELSE next[d]]

Disconnect ==
  IF Places(Top.port) = {} THEN UNCHANGED <<list, cell>> ELSE Unlink(FirstPlace(Top.port))

(* ehci_port_clear_bit writes a zero to the change bit, which leaves it set. *)
RootGone ==
  /\ InPort("gone") /\ Top.dev = Root
  /\ Disconnect /\ NextPort
  /\ UNCHANGED <<world, ports, faults, fresh, lost, nextAddr, poll>>

HubGone ==
  /\ InPort("gone") /\ Top.dev # Root
  /\ \E l \in PortSeen : Acknowledge(l)
  /\ Disconnect
  /\ NextPort
  /\ UNCHANGED <<world, enabled, devAddr, faults, nextAddr, poll>>

RootCame ==
  /\ InPort("came") /\ Top.dev = Root /\ Goto("reset")
  /\ UNCHANGED <<world, ports, faults, fresh, lost, list, cell, nextAddr, poll>>

(* A hub's port is powered, acknowledged and read again before the reset.   *)
HubCame ==
  /\ InPort("came") /\ Top.dev # Root /\ Goto("check")
  /\ \E l \in PortSeen : Clear(l)
  /\ UNCHANGED <<world, enabled, devAddr, faults, lost, list, cell, nextAddr, poll>>

HubCheck ==
  /\ InPort("check")
  /\ \E l \in PortSeen : IF change[l] THEN NextPort ELSE Goto("reset")
  /\ UNCHANGED <<world, ports, faults, fresh, lost, list, cell, nextAddr, poll>>

-----------------------------------------------------------------------------
(* UsbPoll: the root ports, then the devices in the list, for ever.  The    *)
(* next device is read from the entry after its poll routine has returned.  *)
NewRound ==
  /\ ~Running /\ main = "devices" /\ cursor = Null
  /\ main' = "ports" /\ stack' = <<Loop(Root, TRUE)>>
  /\ UNCHANGED <<world, ports, faults, fresh, lost, list, cell, nextAddr, cursor>>

Follow(c) == /\ cursor' = c
             /\ main' = IF c = Wild THEN "wild" ELSE "devices"

LoopEnds ==
  /\ Running /\ Top.port \notin Ports(Top.dev)
  /\ stack' = Front(stack)
  /\ IF Len(stack) > 1 THEN UNCHANGED poll
     ELSE Follow(CASE main = "boot" -> Null [] main = "ports" -> head [] OTHER -> next[cursor])
  /\ UNCHANGED <<world, ports, faults, fresh, lost, list, cell, nextAddr>>

(* A faulty form: only the device inserted last is polled.                  *)
VisitHead ==
  /\ ~Running /\ main = "devices" /\ cursor \in Cells
  /\ IF cell[cursor].hub /\ cursor = head
     THEN stack' = <<Loop(cursor, TRUE)>> /\ UNCHANGED poll
     ELSE Follow(next[cursor]) /\ UNCHANGED stack
  /\ UNCHANGED <<world, ports, faults, fresh, lost, list, cell, nextAddr>>

Visit ==
  /\ ~Running /\ main = "devices" /\ cursor \in Cells
  /\ IF cell[cursor].hub
     THEN stack' = <<Loop(cursor, TRUE)>> /\ UNCHANGED poll
     ELSE Follow(next[cursor]) /\ UNCHANGED stack
  /\ UNCHANGED <<world, ports, faults, fresh, lost, list, cell, nextAddr>>

UsbDevInit == GetDescriptor \/ SetAddress \/ StartHub \/ StartOther \/ InitFails
ResetPort == RootReset \/ RootEnable \/ HubReset \/ HubAck \/ HubClear \/ FinalStatus
PollPort == Look \/ RootGone \/ HubGone \/ RootCame \/ HubCame \/ HubCheck
Kernel == UsbDevInit \/ ResetPort \/ PollPort \/ PortRequestFails \/ NewRound \/ LoopEnds \/ Visit
Next == Kernel \/ World
Spec == Init /\ [][Next]_vars /\ WF_vars(Kernel)

-----------------------------------------------------------------------------
(* Types: the kernel's and the devices' state has the form meant, and an    *)
(* entry that is not allocated is reached by no pointer of the list.        *)
TypeOK ==
  /\ at \in [Locs -> Devs \cup {Null}] /\ change \in [Locs -> BOOLEAN]
  /\ enabled \in [Locs -> BOOLEAN] /\ fresh \in [Locs -> BOOLEAN] /\ lost \subseteq Locs
  /\ devAddr \in [Devs -> 0 .. nextAddr] /\ nextAddr \in Nat
  /\ live \subseteq Cells /\ head \in live \cup {Null}
  /\ next \in [Cells -> Cells \cup {Null, Wild}]
  /\ \A c \in Cells : cell[c].port \in Nat /\ cell[c].addr \in 0 .. nextAddr
  /\ \A i \in DOMAIN stack : stack[i].dev \in Cells \cup {Root} /\ stack[i].new \in Cells \cup {Null}
  /\ main \in {"boot", "ports", "devices", "wild"} /\ cursor \in Cells \cup {Null, Wild}

(* Every allocated entry, and nothing else, is reached from g_usbDeviceList, *)
(* each once, and the list ends: removals and nested insertions, in hub.cpp  *)
(* and ehci.cpp, keep the list whole even when they pick the wrong entry.    *)
ListIntact ==
  /\ TypeOK
  /\ Listed = live
  /\ \A m, n \in DOMAIN Walk : Walk[m] = Walk[n] /\ Walk[m] \in Cells => m = n
  /\ Walk[Cardinality(Cells)] = Null

(* What the driver counts on: no request is lost, memory lasts, and no more *)
(* devices were started than the address field has values for.              *)
Smooth == faults = 0 /\ ~Wide(nextAddr)

(* Every device in the list has an address that the address field of a      *)
(* queue head holds (ehci.h:225): of 7 bits, whatever was plugged before.   *)
AddressesFit == \A c \in live : ~Wide(cell[c].addr)

(* Two devices never answer at the same address, 0 included, from the first *)
(* enumeration to the last one whose address fits the field, as long as no  *)
(* request is lost and memory lasts: a port is reset only after the device  *)
(* reset before it got its own address, in nested probes too, and addresses *)
(* are not given twice (usbd.cpp:146).                                      *)
AddressesDistinct == Smooth => \A a \in 0 .. nextAddr : Cardinality(Answers(a)) <= 1

(* The ports that the driver had a chance to follow, all the way up.         *)
Followed(l) == ~fresh[l] /\ l \notin lost
Reported(l) == \/ l[1] = Root
               \/ \E q \in Ports(Root) : at[<<Root, q>>] = l[1] /\ Followed(<<Root, q>>)
Entries(l) == {c \in live : cell[c].from = l}
Agrees(l) == Cardinality(Entries(l)) = IF at[l] = Null THEN 0 ELSE 1

(* At the end of a round of UsbPoll the list shows what is plugged in: one   *)
(* entry for a port that has a device, none for one that has not.  Ports are *)
(* left out where a wrong entry may have gone (ehci.cpp:643): those that     *)
(* share their number with another port in use.                              *)
Alone(l) == \A k \in used : k[2] = l[2] => k = l
PortsAgree ==
  main = "devices" /\ ~Running /\ cursor = Null /\ Smooth =>
    \A l \in Sockets : Followed(l) /\ Reported(l) /\ Alone(l) => Agrees(l)

(* Whatever happens at a root port, or at a port of a hub that is in the     *)
(* list, is looked at in the end, unless the hub goes first: UsbPoll never   *)
(* stops and never skips a port, whatever it inserts and removes on its way  *)
(* (usbd.cpp:343), as long as the walk is not led astray by a freed entry    *)
(* and the hub's address fits the field.                                     *)
Polled(k) ==
  k = Root \/ \E c \in live : cell[c].hub /\ ~Wide(cell[c].addr) /\ k \in Answers(cell[c].addr)
SeenInTheEnd ==
  \A l \in Sockets : fresh[l] /\ Polled(l[1]) ~> ~fresh[l] \/ ~Polled(l[1]) \/ main = "wild"
=============================================================================
