---------------------------------- MODULE Msd ----------------------------------
(***************************************************************************)
(* USB mass storage over the bulk-only transport (storage/msd.cpp): the    *)
(* initialisation of a device, then reads and writes of its blocks.        *)
(*                                                                         *)
(* The driver is one thread.  Each call of hcIntr or UsbDevRequest it      *)
(* makes is an action here; what such a call can do to the transfer, the   *)
(* endpoints and the schedule is what module Ehci shows: it succeeds, it   *)
(* is halted, or it is given up and stays on the schedule, to be completed *)
(* later.  The device is external: it follows the bulk-only transport, may *)
(* be not ready, and may refuse a command that needs its medium.           *)
(*                                                                         *)
(* Data is abstracted to packets.  The tag of a command is left out: the   *)
(* driver never compares it with the tag of a status.                      *)
(***************************************************************************)
EXTENDS Integers, Sequences, SequencesExt

CONSTANTS
  Luns,        \* logical units, lunCnt + 1
  BlockLen,    \* packets in one block of the medium
  Garbage,     \* what malloc may leave in bytesPerBlock, in packets
  Counts,      \* numbers of blocks asked for by callers
  CountMod,    \* values of the count in a command: 256, for its low byte
  MaxStuck,    \* queue heads of the pool left for transfers given up
  MaxFaults,   \* bound: faults of the bus, and commands the device refuses
  MaxCalls     \* bound: calls of read and write after the initialisation

ASSUME MsdAssumption ==
  /\ Luns \in Nat \ {0} /\ BlockLen \in Nat \ {0} /\ MaxStuck \in Nat \ {0}
  /\ Garbage \subseteq Nat /\ Garbage # {} /\ Counts \subseteq Nat \ {0}
  /\ CountMod \in Nat \ {0, 1}
  /\ MaxFaults \in Nat /\ MaxCalls \in Nat

VARIABLES
  rt, st,          \* the routine, and the transfer it makes next
  lun, todo,       \* counters of the loops over units and data packets
  count,           \* the argument of read and write
  cbw,             \* the buffer that holds commands and statuses
  bytesPerBlock,   \* in packets
  toggle,          \* UsbEndpoint.toggle of both endpoints
  success,         \* t->success of the last transfer
  result,          \* what the last read or write returned
  stuck,           \* transfers given up that the controller still runs
  dev,             \* external: the device
  faults, calls,   \* counters for the bounds
  smooth,          \* ghost: every transfer succeeded and the device was ready
  moved, answered  \* ghost: data packets moved, and status sent, since the last command

routine == <<rt, st, lun, todo, count>>
outcome == <<bytesPerBlock, result, calls>>
bus == <<toggle, success, stuck, dev, faults>>
ghosts == <<smooth, moved, answered>>
vars == <<routine, outcome, bus, cbw, ghosts>>

-----------------------------------------------------------------------------
(* Commands and packets.  A status has 13 bytes.                            *)
CswLen == 13
PacketLen(op) == CASE op = "inquiry" -> 36 [] op = "sense" -> 18 [] op = "capacity" -> 8
                   [] OTHER -> 512

(* The packets that a command asks the host to move, by its own arguments. *)
Wanted(c) == CASE c.op \in {"inquiry", "sense", "capacity"} -> 1
               [] c.op \in {"read", "write"} -> c.count * BlockLen
               [] OTHER -> 0

(* A faulty form: the length of a block is forgotten.                       *)
TransfersBlocks(r, n) == CASE r \in {"inquiry", "sense", "capacity"} -> 1
                           [] r \in {"read", "write"} -> n
                           [] OTHER -> 0

(* The packets that a routine moves after its command.                      *)
Transfers(r, n) == CASE r \in {"inquiry", "sense", "capacity"} -> 1
                     [] r \in {"read", "write"} -> n * bytesPerBlock
                     [] OTHER -> 0

(* A faulty form: read and write do not write the signature.                *)
CommandKeepsSig(r, n) ==
  IF r = "ready"
  THEN [cbw EXCEPT !.sig = "cbw", !.flags = 0, !.xfer = 0]
  ELSE [sig |-> IF r \in {"read", "write"} THEN cbw.sig ELSE "cbw", op |-> r, count |-> n % CountMod,
        flags |-> 0, xfer |-> Transfers(r, n)]

(* The command that a routine builds.  All but test_unit_ready clear the    *)
(* buffer first; flags is the byte where a status has its result.  The      *)
(* count that the device sees has one byte; the length of the transfer, and *)
(* the packets the driver moves, come from all of it.                       *)
Command(r, n) ==
  IF r = "ready"
  THEN [cbw EXCEPT !.sig = "cbw", !.flags = 0, !.xfer = 0]
  ELSE [sig |-> "cbw", op |-> r, count |-> n % CountMod,
        flags |-> IF r = "write" THEN 0 ELSE 1, xfer |-> Transfers(r, n)]

(* What a packet of len bytes leaves in the buffer. *)
Fill(d) ==
  IF d.phase = "status" THEN [cbw EXCEPT !.sig = "csw", !.flags = d.status]
  ELSE IF PacketLen(d.op) < CswLen THEN [cbw EXCEPT !.sig = "data"]
  ELSE [sig |-> "data", op |-> "data", count |-> 0, flags |-> 0, xfer |-> 0]

-----------------------------------------------------------------------------
(* External: the device.                                                   *)
Sends(d) == ~d.haltIn /\ d.phase \in {"in", "status"}
Takes(d) == ~d.haltOut /\ d.phase \in {"command", "out"}
Size(d) == IF d.phase = "status" THEN CswLen ELSE PacketLen(d.op)

(* The device after it has sent a packet. *)
Sent(d) ==
  IF d.phase = "status"
  THEN [d EXCEPT !.phase = "command", !.in = 1 - @]
  ELSE [d EXCEPT !.phase = IF d.left = 1 THEN "status" ELSE "in",
                 !.left = @ - 1, !.in = 1 - @, !.haltIn = d.left = 1 /\ d.short]

(* The device after it has taken a packet it expected: data, or command c.  *)
(* It may be not ready; what it cannot make sense of, it answers by halting *)
(* both endpoints.                                                          *)
TakenData(d) == [d EXCEPT !.phase = IF d.left = 1 THEN "status" ELSE "out",
                          !.left = @ - 1, !.out = 1 - @]
TakenCommand(d, c, status) ==
  IF c.sig # "cbw"
  THEN [d EXCEPT !.out = 1 - @, !.haltIn = TRUE, !.haltOut = TRUE]
  ELSE LET n == IF Wanted(c) < c.xfer THEN Wanted(c) ELSE c.xfer
       IN  [d EXCEPT !.op = c.op, !.left = n, !.short = Wanted(c) < c.xfer, !.out = 1 - @,
                     !.phase = IF n = 0 THEN "status" ELSE IF c.op = "write" THEN "out" ELSE "in",
                     !.status = IF Wanted(c) = c.xfer /\ c.op # "data" THEN status ELSE 1]
Refused(d, c) ==
  [d EXCEPT !.op = c.op, !.left = 0, !.out = 1 - @, !.phase = "status", !.status = 1,
            !.haltIn = c.op # "write", !.haltOut = c.op = "write"]

(* The device d after a packet with toggle t, whose buffer holds c (a       *)
(* command where the device expects one): a set of possibilities.           *)
Received(d, t, c) ==
  IF d.out # t THEN {d}
  ELSE IF d.phase = "out" THEN {TakenData(d)}
  ELSE {TakenCommand(d, c, s) : s \in IF c.op = "start" THEN {0, 1} ELSE {0}}

-----------------------------------------------------------------------------
(* hcIntr.                                                                 *)
Fault == faults < MaxFaults /\ faults' = faults + 1
GiveUp(ep, t, b, len) ==
  stuck' = Append(stuck, [ep |-> ep, toggle |-> t, buf |-> b, len |-> len])

(* A packet from buffer b, which now holds c. *)
HcOut(b, c) ==
  \/ /\ Takes(dev)
     /\ dev' \in Received(dev, toggle.out, c)
     /\ success' = TRUE
     /\ toggle' = [toggle EXCEPT !.out = 1 - @]
     /\ UNCHANGED <<stuck, faults>>
  \/ /\ Takes(dev) /\ dev.phase = "command" /\ dev.out = toggle.out
     /\ c.sig = "cbw" /\ c.op \in {"capacity", "read", "write"}
     /\ Fault
     /\ dev' = Refused(dev, c)
     /\ success' = TRUE
     /\ toggle' = [toggle EXCEPT !.out = 1 - @]
     /\ UNCHANGED stuck
  \/ /\ dev.haltOut
     /\ success' = FALSE
     /\ UNCHANGED <<dev, toggle, stuck, faults>>
  \/ /\ ~dev.haltOut /\ ~Takes(dev)
     /\ success' = FALSE
     /\ GiveUp("out", toggle.out, b, 0)
     /\ UNCHANGED <<dev, toggle, faults>>
  \/ /\ Takes(dev)
     /\ Fault
     /\ dev' \in {dev} \cup Received(dev, toggle.out, c)
     /\ success' = FALSE
     /\ toggle' \in {toggle, [toggle EXCEPT !.out = 1 - @]}
     /\ toggle' # toggle => dev' # dev
     /\ UNCHANGED stuck

(* A packet of at most len bytes into buffer b.  A packet with the other    *)
(* toggle is acknowledged and dropped, and the next one asked for.          *)
HcIn(b, len) ==
  LET d == IF Sends(dev) /\ dev.in # toggle.in THEN Sent(dev) ELSE dev
  IN
  \/ /\ Sends(d) /\ Size(d) <= len
     /\ dev' = Sent(d)
     /\ cbw' = IF b = "cbw" THEN Fill(d) ELSE cbw
     /\ toggle' = [toggle EXCEPT !.in = 1 - @]
     /\ \/ success' = TRUE /\ UNCHANGED faults
        \/ success' = FALSE /\ Fault
     /\ UNCHANGED stuck
  \/ /\ d.haltIn \/ (Sends(d) /\ Size(d) > len)
     /\ dev' = d
     /\ success' = FALSE
     /\ UNCHANGED <<cbw, toggle, stuck, faults>>
  \/ /\ ~d.haltIn /\ ~Sends(d)
     /\ dev' = d
     /\ success' = FALSE
     /\ GiveUp("in", toggle.in, b, len)
     /\ UNCHANGED <<cbw, toggle, faults>>
  \/ /\ Sends(d)
     /\ Fault
     /\ dev' \in {d, Sent(d)}
     /\ success' = FALSE
     /\ UNCHANGED <<cbw, toggle, stuck>>

(* The controller completes a transfer that was given up, as soon as the    *)
(* device lets it.  Nobody looks at the outcome.                            *)
NoCommand == [sig |-> "data", op |-> "data", count |-> 0, flags |-> 0, xfer |-> 0]
Answers == answered \/ (dev.phase \in {"in", "status"} /\ dev'.phase = "command")

LateOut(x) ==
  /\ dev.haltOut \/ Takes(dev)
  /\ dev' \in IF dev.haltOut THEN {dev}
              ELSE Received(dev, x.toggle, IF x.buf = "cbw" THEN cbw ELSE NoCommand)
  /\ UNCHANGED cbw
LateIn(x) ==
  LET d == IF Sends(dev) /\ dev.in # x.toggle THEN Sent(dev) ELSE dev
      fits == Sends(d) /\ Size(d) <= x.len
  IN  /\ Sends(d) \/ d.haltIn
      /\ dev' = IF fits THEN Sent(d) ELSE d
      /\ cbw' = IF fits /\ x.buf = "cbw" THEN Fill(d) ELSE cbw
Late ==
  /\ \E i \in DOMAIN stuck :
       /\ stuck' = RemoveAt(stuck, i)
       /\ \/ stuck[i].ep = "out" /\ LateOut(stuck[i])
          \/ stuck[i].ep = "in" /\ LateIn(stuck[i])
  /\ answered' = Answers
  /\ UNCHANGED <<routine, outcome, toggle, success, faults, smooth, moved>>

-----------------------------------------------------------------------------
(* The driver.  Enter starts a routine, Return(v) goes on in                *)
(* usb_storage_init after a routine that returned v.                        *)
Enter(r, n) ==
  /\ rt' = r
  /\ st' = CASE r = "inquiry" -> "clear" [] r = "idle" -> "none" [] OTHER -> "command"
  /\ count' = n
  /\ todo' = 0

(* Faulty forms: readiness is not asked for; a failed question is repeated. *)
NextAfterUnasked(v) ==
  CASE rt = "inquiry" -> "start"
    [] rt \in {"start", "ready"} -> "capacity"
    [] rt = "sense" -> "ready"
    [] rt = "capacity" -> IF lun < Luns THEN "inquiry" ELSE "read"
    [] OTHER -> "idle"
NextAfterAgain(v) ==
  CASE rt = "inquiry" -> "start"
    [] rt \in {"start", "sense"} -> "ready"
    [] rt = "ready" -> IF v # 0 \/ ~success THEN "sense" ELSE "capacity"
    [] rt = "capacity" -> IF lun < Luns THEN "inquiry" ELSE "read"
    [] OTHER -> "idle"

NextAfter(v) ==
  CASE rt = "inquiry" -> "start"
    [] rt \in {"start", "sense"} -> "ready"
    [] rt = "ready" -> IF v # 0 THEN "sense" ELSE "capacity"
    [] rt = "capacity" -> IF lun < Luns THEN "inquiry" ELSE "read"
    [] OTHER -> "idle"

Return(v) ==
  /\ Enter(NextAfter(v), IF rt = "capacity" /\ lun = Luns THEN 2 ELSE count)
  /\ lun' = IF rt = "capacity" /\ lun < Luns THEN lun + 1 ELSE lun

Stay(s, n) ==
  /\ st' = s /\ todo' = n
  /\ UNCHANGED <<rt, lun, count>>

(* Routines that look at t->success after each transfer. *)
Checks == rt \notin {"inquiry", "read", "write"}

(* msd_reset and the request for the number of units.                       *)
Reset ==
  /\ rt = "reset"
  /\ \/ Enter("inquiry", 0) /\ UNCHANGED faults
     \/ Fault /\ rt' = "gone" /\ st' = "none" /\ UNCHANGED <<count, todo>>
  /\ UNCHANGED <<lun, outcome, toggle, success, stuck, dev, cbw, ghosts>>

(* clear_endpoint_halt: the device starts again at toggle 0.  For           *)
(* inquiry_request it comes first, for the others it is the way out.        *)
ClearHalt ==
  /\ st = "clear" /\ Len(stuck) < MaxStuck
  /\ LET cleared == [dev EXCEPT !.haltOut = FALSE, !.out = 0]
     IN  \/ /\ dev' = cleared
            /\ IF rt = "inquiry" THEN Stay("command", 0) ELSE Return(0)
            /\ UNCHANGED <<faults, smooth>>
         \/ /\ Fault
            /\ dev' \in {dev, cleared}
            /\ smooth' = FALSE
            /\ Return(0)
  /\ UNCHANGED <<outcome, toggle, success, stuck, cbw, moved, answered>>

SendCommand ==
  /\ st = "command" /\ Len(stuck) < MaxStuck
  /\ cbw' = Command(rt, count)
  /\ HcOut("cbw", cbw')
  /\ IF Checks /\ ~success' THEN Stay("clear", 0)
     ELSE IF cbw'.xfer = 0 THEN Stay("status", 0) ELSE Stay("data", cbw'.xfer)
  /\ smooth' = (smooth /\ success')
  /\ moved' = 0 /\ answered' = FALSE
  /\ UNCHANGED outcome

LastPacket == todo = 1

MoveData ==
  /\ st = "data" /\ Len(stuck) < MaxStuck
  /\ IF rt = "write" THEN HcOut("data", NoCommand) /\ UNCHANGED cbw
     ELSE HcIn(IF rt = "inquiry" THEN "cbw" ELSE "data", PacketLen(rt))
  /\ IF rt = "sense" \/ (Checks /\ ~success') THEN Stay("clear", 0)
     ELSE Stay(IF LastPacket THEN "status" ELSE "data", todo - 1)
  /\ smooth' = (smooth /\ success')
  /\ moved' = IF success' THEN moved + 1 ELSE moved
  /\ answered' = Answers
  /\ UNCHANGED outcome

ReadStatus ==
  /\ st = "status" /\ Len(stuck) < MaxStuck
  /\ HcIn("cbw", CswLen)
  /\ IF rt \in {"start", "capacity"} /\ ~success' THEN Stay("clear", 0)
     ELSE Return(cbw'.flags)
  /\ result' = IF rt \in {"read", "write"} THEN (IF cbw'.sig = "csw" THEN 1 ELSE 0) ELSE result
  /\ bytesPerBlock' = IF rt = "capacity" /\ success' THEN BlockLen ELSE bytesPerBlock
  /\ smooth' = (smooth /\ success' /\ rt' # "sense")
  /\ answered' = Answers
  /\ UNCHANGED <<calls, moved>>

(* Every queue head of the pool holds a transfer given up: see module Ehci. *)
NoQueueHead ==
  /\ st # "none" /\ Len(stuck) = MaxStuck
  /\ rt' = "wild" /\ st' = "none"
  /\ UNCHANGED <<lun, todo, count, outcome, bus, cbw, ghosts>>

(* A caller of read or write. *)
Call ==
  /\ rt = "idle" /\ calls < MaxCalls
  /\ \E r \in {"read", "write"}, n \in Counts : Enter(r, n)
  /\ calls' = calls + 1
  /\ UNCHANGED <<lun, bytesPerBlock, result, bus, cbw, ghosts>>

-----------------------------------------------------------------------------
NewDevice ==
  [phase |-> "command", op |-> "none", left |-> 0, short |-> FALSE, status |-> 0,
   out |-> 0, in |-> 0, haltIn |-> FALSE, haltOut |-> FALSE]

Init ==
  /\ rt = "reset" /\ st = "none" /\ lun = 1 /\ todo = 0 /\ count = 0
  /\ cbw = NoCommand
  /\ bytesPerBlock \in Garbage /\ result = 0 /\ calls = 0
  /\ toggle = [out |-> 0, in |-> 0] /\ success = FALSE /\ stuck = <<>>
  /\ dev = NewDevice /\ faults = 0
  /\ smooth = TRUE /\ moved = 0 /\ answered = FALSE

Driver == Reset \/ ClearHalt \/ SendCommand \/ MoveData \/ ReadStatus \/ NoQueueHead

Next == Driver \/ Call \/ Late

(* Every transfer comes to an end (module Ehci, CallsReturn); no caller has *)
(* to call.                                                                 *)
Spec == Init /\ [][Next]_vars /\ WF_vars(Driver)

-----------------------------------------------------------------------------
Routines == {"reset", "inquiry", "start", "ready", "sense", "capacity", "read", "write",
             "idle", "gone", "wild"}
Ops == {"none", "data", "inquiry", "start", "sense", "capacity", "read", "write"}
AllCounts == Counts \cup {0, 2}

TypeOK ==
  /\ rt \in Routines /\ st \in {"none", "clear", "command", "data", "status"}
  /\ lun \in 1 .. Luns /\ todo \in Nat /\ count \in AllCounts
  /\ cbw \in [sig : {"cbw", "csw", "data"}, op : Ops, count : Nat, flags : {0, 1},
              xfer : Nat]
  /\ bytesPerBlock \in Garbage \cup {BlockLen} /\ result \in {0, 1} /\ calls \in 0 .. MaxCalls
  /\ toggle \in [out : {0, 1}, in : {0, 1}] /\ success \in BOOLEAN
  /\ stuck \in Seq([ep : {"in", "out"}, toggle : {0, 1}, buf : {"cbw", "data"}, len : Nat])
  /\ Len(stuck) <= MaxStuck
  /\ dev \in [phase : {"command", "in", "out", "status"}, op : Ops, left : Nat,
              short : BOOLEAN, status : {0, 1}, out : {0, 1}, in : {0, 1},
              haltIn : BOOLEAN, haltOut : BOOLEAN]
  /\ faults \in 0 .. MaxFaults
  /\ smooth \in BOOLEAN /\ moved \in Nat /\ answered \in BOOLEAN

(* As long as every transfer succeeded and the device was ready, a command  *)
(* finds the device waiting for one, with the toggle the driver has, and    *)
(* nothing of the past on the schedule.  inquiry_request resets the toggle  *)
(* of the device and not the driver's, for every unit (msd.cpp:40-47, 249): *)
(* this goes well because a unit takes an even number of commands.          *)
InStep ==
  /\ TypeOK
  /\ smooth /\ st = "command" =>
       /\ dev.phase = "command" /\ ~dev.haltIn /\ ~dev.haltOut
       /\ dev.out = toggle.out /\ dev.in = toggle.in
       /\ stuck = <<>>

(* A read or write on such a device moves the blocks it was asked for and   *)
(* returns true (msd.cpp:329-466).  If it was asked for more than the byte  *)
(* of the command can say, a transfer of it fails, and it is not smooth.    *)
SmoothCallsComplete ==
  smooth /\ rt = "idle" => result = 1 /\ answered /\ moved = count * BlockLen

(* read and write return true only if the device sent a status after their  *)
(* command, whatever failed on the way: the signature they look for is not  *)
(* one an earlier command left in the buffer (msd.cpp:379-383, 460-464).    *)
TrueMeansStatus == rt = "idle" /\ result = 1 => answered

(* On a bus without faults the wait for the first unit to be ready comes to *)
(* an end, although its loop has no bound and the device may never be       *)
(* ready (msd.cpp:525-529).                                                 *)
WaitEnds == [](faults = 0) => ((rt = "ready" /\ lun = 1) ~> rt = "capacity")
=============================================================================
