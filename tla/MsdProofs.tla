----------------------------- MODULE MsdProofs ------------------------------
(***************************************************************************)
(* Proofs about the mass storage driver, for any number of units, blocks   *)
(* of any length, any number of queue heads, and any number of faults and  *)
(* calls.                                                                  *)
(***************************************************************************)
EXTENDS Msd, TLAPS

Commands == [sig : {"cbw", "csw", "data"}, op : Ops, count : Nat, flags : {0, 1}, xfer : Nat]
Devices == [phase : {"command", "in", "out", "status"}, op : Ops, left : Nat,
            short : BOOLEAN, status : {0, 1}, out : {0, 1}, in : {0, 1},
            haltIn : BOOLEAN, haltOut : BOOLEAN]
Abandoned == [ep : {"in", "out"}, toggle : {0, 1}, buf : {"cbw", "data"}, len : Nat]

(* What is left to move is never zero on the way. *)
Moving(d) == d.phase \in {"in", "out"} => d.left # 0

(* Only routines that look at the outcome of a transfer, and the first step *)
(* of inquiry_request, clear a halt.                                        *)
Places ==
  /\ st = "none" <=> rt \in {"reset", "idle", "gone", "wild"}
  /\ st = "clear" => rt \notin {"read", "write"}
  /\ st = "data" => todo # 0
  /\ Moving(dev)

(* A signature of a status in the buffer of a read or write came from the   *)
(* device after the command.                                                *)
Signed ==
  /\ rt \in {"read", "write"} /\ st \in {"data", "status"} /\ cbw.sig = "csw" => answered
  /\ TrueMeansStatus

(* The device and the driver are at the same point of the same command. *)
InPhase(p) ==
  /\ dev.phase = p /\ ~dev.haltIn /\ ~dev.haltOut
  /\ dev.out = toggle.out /\ dev.in = toggle.in

(* The device refused the command: it will halt the next transfer. *)
Refusal == dev.phase = "status" /\ (IF rt = "write" THEN dev.haltOut ELSE dev.haltIn)

Total == IF rt \in {"read", "write"} THEN count * BlockLen ELSE 1

(* A unit takes four commands, so that every unit starts at toggle 0. *)
Parity ==
  LET sent == IF st \in {"data", "status"} THEN 1 ELSE 0
  IN  /\ rt \in {"reset", "inquiry", "ready"} => toggle.out = sent
      /\ rt \in {"start", "capacity"} => toggle.out = 1 - sent

(* A command whose count was cut asks for less than the driver moves: one   *)
(* of the packets to come will not be taken, or not be sent.                *)
Short ==
  /\ rt \in {"read", "write"} /\ dev.out = toggle.out /\ dev.in = toggle.in
  /\ \/ /\ InPhase(IF rt = "write" THEN "out" ELSE "in")
        /\ dev.short /\ dev.left < todo
     \/ dev.phase = "status" /\ (rt = "read" => todo > 1)
     \/ dev.phase = "command" /\ rt = "read"

MidData ==
  /\ rt \in {"inquiry", "capacity", "read", "write"}
  /\ \/ Refusal
     \/ Short
     \/ /\ InPhase(IF rt = "write" THEN "out" ELSE "in")
        /\ dev.left = todo /\ ~dev.short /\ dev.op = rt
        /\ moved + todo = Total

Going ==
  /\ stuck = <<>> /\ rt # "sense" /\ Parity
  /\ rt \in {"read", "write", "idle"} => bytesPerBlock = BlockLen /\ count # 0
  /\ st \in {"none", "clear", "command"} => InPhase("command")
  /\ st = "clear" => rt = "inquiry"
  /\ (rt = "start" /\ st = "status") \/ (rt = "ready" /\ st = "command") => cbw.op = "start"
  /\ st = "data" => MidData
  /\ st = "status" => InPhase("status") /\ (rt \in {"read", "write"} => moved = Total)
  /\ rt = "idle" => result = 1 /\ answered /\ moved = count * BlockLen

OnTrack == smooth /\ rt \notin {"gone", "wild"} => Going

MsdInv == TypeOK /\ Places /\ Signed /\ OnTrack

-----------------------------------------------------------------------------
(* Products of positive numbers are positive. *)
LEMMA Lengths ==
  /\ BlockLen \in Nat \ {0} /\ Luns \in Nat \ {0} /\ MaxStuck \in Nat \ {0}
  /\ AllCounts \subseteq Nat /\ Garbage \subseteq Nat
  /\ \A n \in Nat, m \in Nat : n * m \in Nat
  /\ \A n \in Nat \ {0} : n * BlockLen \in Nat \ {0}
  <1>1. \A n \in Nat, m \in Nat : n * m \in Nat
    OBVIOUS
  <1>2. \A n \in Nat \ {0}, m \in Nat \ {0} : n * m \in Nat \ {0}
    OBVIOUS
  <1> QED BY <1>1, <1>2, MsdAssumption DEF AllCounts

(* The packets a command stands for are a number. *)
LEMMA WantedIsNat ==
  ASSUME NEW c \in Commands
  PROVE  Wanted(c) \in Nat
  BY Lengths DEF Wanted, Commands

LEMMA TransfersIsNat ==
  ASSUME TypeOK, NEW r
  PROVE  Transfers(r, count) \in Nat
  <1>1. count \in Nat /\ bytesPerBlock \in Nat
    BY Lengths DEF TypeOK
  <1> QED BY <1>1, Lengths DEF Transfers

(* The count in a command is cut, and then the command asks for less.  *)
LEMMA CountCut ==
  ASSUME NEW n \in Nat
  PROVE  /\ n % CountMod \in Nat
         /\ n < CountMod => n % CountMod = n
         /\ n >= CountMod => (n % CountMod) * BlockLen < n * BlockLen /\ n * BlockLen > 1
  <1>1. CountMod \in Nat /\ CountMod > 1 /\ BlockLen \in Nat /\ BlockLen >= 1
    BY MsdAssumption
  <1>2. n % CountMod \in Nat /\ n % CountMod < CountMod
    BY ONLY <1>1, n \in Nat
  <1>3. n < CountMod => n % CountMod = n
    BY ONLY <1>1, n \in Nat
  <1>4. \A a \in Nat, j \in Nat : (a + j) * BlockLen = a * BlockLen + j * BlockLen
    BY ONLY <1>1
  <1>5. \A j \in Nat : j >= 1 => j * BlockLen >= j
    BY ONLY <1>1
  <1>6. ASSUME n >= CountMod
        PROVE  (n % CountMod) * BlockLen < n * BlockLen /\ n * BlockLen > 1
    <2> DEFINE a == n % CountMod
               j == n - a
    <2>1. a \in Nat /\ j \in Nat /\ j >= 1 /\ n = a + j
      BY ONLY <1>1, <1>2, <1>6, n \in Nat
    <2> HIDE DEF a, j
    <2>2. n * BlockLen = a * BlockLen + j * BlockLen /\ j * BlockLen >= 1
      <3>1. (a + j) * BlockLen = a * BlockLen + j * BlockLen
        BY ONLY <1>4, <2>1
      <3>2. j * BlockLen >= j /\ j * BlockLen \in Nat
        BY ONLY <1>1, <1>5, <2>1
      <3>3. n * BlockLen = (a + j) * BlockLen
        BY ONLY <2>1
      <3>4. j * BlockLen >= 1
        BY ONLY <2>1, <3>2
      <3> QED BY ONLY <3>1, <3>3, <3>4
    <2>3. a * BlockLen \in Nat /\ n * BlockLen >= n
      BY ONLY <1>1, <1>5, <1>6, <2>1, n \in Nat
    <2>4. n > 1
      BY ONLY <1>1, <1>6, n \in Nat
    <2>5. a * BlockLen < n * BlockLen
      BY ONLY <1>1, <2>1, <2>2, <2>3
    <2> QED BY <1>1, <2>3, <2>4, <2>5 DEF a
  <1> QED BY <1>2, <1>3, <1>6

(* Toggles alternate. *)
LEMMA Flips ==
  ASSUME NEW b \in {0, 1}
  PROVE  1 - b \in {0, 1} /\ 1 - b # b /\ 1 - (1 - b) = b
  OBVIOUS

(* What the device and the buffer are after a packet. *)
LEMMA SentFits ==
  ASSUME NEW d \in Devices, Moving(d), Sends(d)
  PROVE  /\ Sent(d) \in Devices /\ Moving(Sent(d))
         /\ d.phase = "status" => Sent(d).phase = "command"
         /\ Sent(d).in = 1 - d.in /\ Sent(d).out = d.out /\ Sent(d).haltOut = d.haltOut
         /\ d.phase = "in" => Sent(d).phase # "command"
  <1> DEFINE i == 1 - d.in
             p == IF d.left = 1 THEN "status" ELSE "in"
             h == d.left = 1 /\ d.short
             n == d.left - 1
  <1>1. d.in \in {0, 1} /\ d.phase \in {"in", "status"}
    BY Zenon DEF Devices, Sends
  <1>2. i \in {0, 1}
    BY <1>1
  <1>3. CASE d.phase = "status"
    <2>1. Sent(d) = [d EXCEPT !.phase = "command", !.in = i]
      BY <1>3 DEF Sent
    <2> HIDE DEF i
    <2>2. Sent(d) \in Devices /\ Sent(d).phase = "command"
      BY <2>1, <1>2, Zenon DEF Devices
    <2>3. Sent(d).in = i /\ Sent(d).out = d.out /\ Sent(d).haltOut = d.haltOut
      BY <2>1, Zenon DEF Devices
    <2> QED BY <2>2, <2>3, <1>3 DEF Moving, i
  <1>4. CASE d.phase = "in"
    <2>1. d.left \in Nat \ {0}
      BY <1>4 DEF Moving, Devices
    <2>2. n \in Nat /\ (d.left # 1 => n # 0) /\ p \in {"in", "status"} /\ h \in BOOLEAN
      BY <2>1
    <2>3. Sent(d) = [d EXCEPT !.phase = p, !.left = n, !.in = i, !.haltIn = h]
      BY <1>4 DEF Sent
    <2>4. p = "in" => d.left # 1
      OBVIOUS
    <2> HIDE DEF i, n, p, h
    <2>5. Sent(d) \in Devices
      BY <2>2, <2>3, <1>2, Zenon DEF Devices
    <2>6. Sent(d).phase = p /\ Sent(d).left = n /\ Sent(d).in = i /\ Sent(d).out = d.out
      BY <2>3, Zenon DEF Devices
    <2>7. Sent(d).haltOut = d.haltOut
      BY <2>3, Zenon DEF Devices
    <2> QED BY <2>2, <2>4, <2>5, <2>6, <2>7, <1>4 DEF Moving, i
  <1> QED BY <1>1, <1>3, <1>4

LEMMA FillFits ==
  ASSUME cbw \in Commands, NEW d \in Devices
  PROVE  /\ Fill(d) \in Commands
         /\ Fill(d).sig = "csw" <=> d.phase = "status"
  <1>1. CASE d.phase = "status"
    <2>1. Fill(d) = [cbw EXCEPT !.sig = "csw", !.flags = d.status]
      BY <1>1 DEF Fill
    <2>2. d.status \in {0, 1}
      BY DEF Devices
    <2> QED BY <1>1, <2>1, <2>2 DEF Commands
  <1>2. CASE d.phase # "status"
    <2>1. \/ Fill(d) = [cbw EXCEPT !.sig = "data"]
          \/ Fill(d) = [sig |-> "data", op |-> "data", count |-> 0, flags |-> 0, xfer |-> 0]
      BY <1>2 DEF Fill
    <2> QED BY <1>2, <2>1 DEF Commands, Ops, AllCounts
  <1> QED BY <1>1, <1>2

(* A device that takes a packet keeps its other toggle. *)
LEMMA ReceivedFits ==
  ASSUME NEW d \in Devices, Moving(d), Takes(d), NEW t \in {0, 1}, NEW c \in Commands,
         NEW x \in Received(d, t, c)
  PROVE  /\ x \in Devices /\ Moving(x) /\ x.in = d.in
         /\ d.out = t => x.out = 1 - t
  <1> DEFINE o == 1 - d.out
  <1>0. d.out \in {0, 1} /\ o \in {0, 1} /\ d.phase \in {"command", "out"}
    <2>1. d.out \in {0, 1} /\ d.phase \in {"command", "out"}
      BY Zenon DEF Devices, Takes
    <2> QED BY <2>1
  <1>1. CASE d.out # t
    BY <1>1 DEF Received
  <1>2. CASE d.out = t /\ d.phase = "out"
    <2> DEFINE p == IF d.left = 1 THEN "status" ELSE "out"
               n == d.left - 1
    <2>1. d.left \in Nat \ {0} /\ x = TakenData(d)
      BY <1>2 DEF Received, Devices, Moving
    <2>2. n \in Nat /\ (p = "out" => n # 0) /\ p \in {"status", "out"}
      BY <2>1
    <2>3. x = [d EXCEPT !.phase = p, !.left = n, !.out = o]
      BY <2>1 DEF TakenData
    <2> HIDE DEF p, n, o
    <2>4. x \in Devices
      BY <2>2, <2>3, <1>0, Zenon DEF Devices
    <2>5. x.phase = p /\ x.left = n /\ x.in = d.in /\ x.out = o
      BY <2>3, Zenon DEF Devices
    <2> QED BY <2>2, <2>4, <2>5, <1>2 DEF Moving, o
  <1>3. CASE d.out = t /\ d.phase = "command"
    <2>2. PICK s \in {0, 1} : x = TakenCommand(d, c, s)
      BY <1>3 DEF Received
    <2>3. CASE c.sig # "cbw"
      <3>1. x = [d EXCEPT !.out = o, !.haltIn = TRUE, !.haltOut = TRUE]
        BY <2>2, <2>3 DEF TakenCommand
      <3> HIDE DEF o
      <3>2. x \in Devices
        BY <3>1, <1>0, Zenon DEF Devices
      <3>3. x.phase = d.phase /\ x.in = d.in /\ x.out = o
        BY <3>1, Zenon DEF Devices
      <3> QED BY <3>2, <3>3, <1>3 DEF Moving, o
    <2>4. CASE c.sig = "cbw"
      <3> DEFINE n == IF Wanted(c) < c.xfer THEN Wanted(c) ELSE c.xfer
                 p == IF n = 0 THEN "status" ELSE IF c.op = "write" THEN "out" ELSE "in"
                 v == IF Wanted(c) = c.xfer /\ c.op # "data" THEN s ELSE 1
                 w == Wanted(c) < c.xfer
      <3>1. n \in Nat /\ c.op \in Ops
        BY WantedIsNat DEF Commands
      <3>2. x = [d EXCEPT !.op = c.op, !.left = n, !.short = w, !.out = o, !.phase = p, !.status = v]
        BY <2>2, <2>4 DEF TakenCommand
      <3>3. p \in {"command", "in", "out", "status"} /\ v \in {0, 1} /\ (p \in {"in", "out"} => n # 0)
        OBVIOUS
      <3>4. w \in BOOLEAN
        OBVIOUS
      <3> HIDE DEF n, p, v, w, o
      <3>5. x \in Devices
        BY <3>1, <3>2, <3>3, <3>4, <1>0, Zenon DEF Devices
      <3>6. x.phase = p /\ x.left = n /\ x.in = d.in /\ x.out = o
        BY <3>2, Zenon DEF Devices
      <3> QED BY <3>3, <3>5, <3>6, <1>3 DEF Moving, o
    <2> QED BY <2>3, <2>4
  <1> QED BY <1>0, <1>1, <1>2, <1>3

LEMMA RefusedFits ==
  ASSUME NEW d \in Devices, NEW c \in Commands
  PROVE  /\ Refused(d, c) \in Devices /\ Moving(Refused(d, c))
         /\ Refused(d, c).phase = "status"
         /\ IF c.op = "write" THEN Refused(d, c).haltOut ELSE Refused(d, c).haltIn
  <1> DEFINE o == 1 - d.out
             hi == c.op # "write"
             ho == c.op = "write"
             x == Refused(d, c)
  <1>1. o \in {0, 1} /\ hi \in BOOLEAN /\ ho \in BOOLEAN /\ c.op \in Ops
    BY DEF Devices, Commands
  <1>2. x = [d EXCEPT !.op = c.op, !.left = 0, !.out = o, !.phase = "status", !.status = 1,
                      !.haltIn = hi, !.haltOut = ho]
    BY DEF Refused
  <1>3. 0 \in Nat
    OBVIOUS
  <1> HIDE DEF o, hi, ho, x
  <1>4. x \in Devices
    BY <1>1, <1>2, <1>3, Zenon DEF Devices
  <1>5. x.phase = "status" /\ x.haltIn = hi /\ x.haltOut = ho
    BY <1>2, Zenon DEF Devices
  <1> QED BY <1>4, <1>5 DEF x, hi, ho, Moving

LEMMA ClearedFits ==
  ASSUME NEW d \in Devices, Moving(d)
  PROVE  LET x == [d EXCEPT !.haltOut = FALSE, !.out = 0]
         IN  x \in Devices /\ Moving(x) /\ x.phase = d.phase /\ x.in = d.in /\ x.out = 0
             /\ x.haltIn = d.haltIn /\ x.haltOut = FALSE
  <1> DEFINE x == [d EXCEPT !.haltOut = FALSE, !.out = 0]
  <1>1. 0 \in {0, 1}
    OBVIOUS
  <1>2. x \in Devices
    BY <1>1, Zenon DEF Devices
  <1>3. /\ x.phase = d.phase /\ x.in = d.in /\ x.out = 0
        /\ x.haltIn = d.haltIn /\ x.haltOut = FALSE /\ x.left = d.left
    BY Zenon DEF Devices
  <1> QED BY <1>2, <1>3, Zenon DEF Moving

LEMMA Typed ==
  ASSUME TypeOK
  PROVE  /\ cbw \in Commands /\ dev \in Devices /\ stuck \in Seq(Abandoned)
         /\ toggle.out \in {0, 1} /\ toggle.in \in {0, 1}
         /\ count \in Nat /\ bytesPerBlock \in Nat
  <1>1. cbw \in Commands /\ dev \in Devices /\ stuck \in Seq(Abandoned)
    BY Zenon DEF TypeOK, Commands, Devices, Abandoned
  <1> QED BY <1>1, Lengths DEF TypeOK

(* The parts of the state that a transfer or the device changes. *)
BusOK ==
  /\ dev \in Devices /\ Moving(dev)
  /\ toggle \in [out : {0, 1}, in : {0, 1}] /\ success \in BOOLEAN
  /\ stuck \in Seq(Abandoned) /\ Len(stuck) <= MaxStuck /\ faults \in 0 .. MaxFaults

LEMMA GivenUp ==
  ASSUME TypeOK, Len(stuck) < MaxStuck, NEW ep \in {"in", "out"}, NEW t \in {0, 1},
         NEW b \in {"cbw", "data"}, NEW len \in Nat, GiveUp(ep, t, b, len)
  PROVE  stuck' \in Seq(Abandoned) /\ Len(stuck') <= MaxStuck
  <1> DEFINE x == [ep |-> ep, toggle |-> t, buf |-> b, len |-> len]
  <1>1. x \in Abandoned
    BY DEF Abandoned
  <1>2. stuck' = Append(stuck, x)
    BY DEF GiveUp
  <1> HIDE DEF x
  <1> QED BY <1>1, <1>2, Typed, Lengths

LEMMA Faulty ==
  ASSUME TypeOK, Fault
  PROVE  faults' \in 0 .. MaxFaults
  BY MsdAssumption DEF TypeOK, Fault

LEMMA Toggled ==
  ASSUME TypeOK
  PROVE  /\ [toggle EXCEPT !.out = 1 - @] \in [out : {0, 1}, in : {0, 1}]
         /\ [toggle EXCEPT !.in = 1 - @] \in [out : {0, 1}, in : {0, 1}]
         /\ [toggle EXCEPT !.out = 1 - @].out = 1 - toggle.out
         /\ [toggle EXCEPT !.out = 1 - @].in = toggle.in
         /\ [toggle EXCEPT !.in = 1 - @].in = 1 - toggle.in
         /\ [toggle EXCEPT !.in = 1 - @].out = toggle.out
  BY DEF TypeOK

(* Whatever becomes of a packet to the device, the bus stays well formed.   *)
LEMMA HcOutFits ==
  ASSUME TypeOK, Moving(dev), Len(stuck) < MaxStuck,
         NEW b \in {"cbw", "data"}, NEW c \in Commands, HcOut(b, c)
  PROVE  BusOK'
  <1> USE Typed
  <1>0. BusOK
    BY DEF BusOK, TypeOK
  <1>1. CASE /\ Takes(dev)
             /\ dev' \in Received(dev, toggle.out, c)
             /\ success' = TRUE
             /\ toggle' = [toggle EXCEPT !.out = 1 - @]
             /\ UNCHANGED <<stuck, faults>>
    <2>1. dev' \in Devices /\ Moving(dev')
      BY <1>1, ReceivedFits
    <2>2. toggle' \in [out : {0, 1}, in : {0, 1}]
      BY <1>1, Toggled
    <2> QED BY <1>0, <1>1, <2>1, <2>2 DEF BusOK, Moving
  <1>2. CASE /\ Fault
             /\ dev' = Refused(dev, c)
             /\ success' = TRUE
             /\ toggle' = [toggle EXCEPT !.out = 1 - @]
             /\ UNCHANGED stuck
    <2>1. dev' \in Devices /\ Moving(dev')
      BY <1>2, RefusedFits
    <2>2. toggle' \in [out : {0, 1}, in : {0, 1}]
      BY <1>2, Toggled
    <2> QED BY <1>0, <1>2, <2>1, <2>2, Faulty DEF BusOK, Moving
  <1>3. CASE /\ success' = FALSE
             /\ UNCHANGED <<dev, toggle, stuck, faults>>
    BY <1>0, <1>3 DEF BusOK, Moving
  <1>4. CASE /\ success' = FALSE
             /\ GiveUp("out", toggle.out, b, 0)
             /\ UNCHANGED <<dev, toggle, faults>>
    <2>1. 0 \in Nat /\ "out" \in {"in", "out"}
      OBVIOUS
    <2>2. stuck' \in Seq(Abandoned) /\ Len(stuck') <= MaxStuck
      BY <1>4, <2>1, GivenUp
    <2> QED BY <1>0, <1>4, <2>2 DEF BusOK, Moving
  <1>5. CASE /\ Takes(dev)
             /\ Fault
             /\ dev' \in {dev} \cup Received(dev, toggle.out, c)
             /\ success' = FALSE
             /\ toggle' \in {toggle, [toggle EXCEPT !.out = 1 - @]}
             /\ UNCHANGED stuck
    <2>1. dev' \in Devices /\ Moving(dev')
      BY <1>5, ReceivedFits
    <2>2. toggle' \in [out : {0, 1}, in : {0, 1}]
      BY <1>5, <1>0, Toggled DEF BusOK
    <2> QED BY <1>0, <1>5, <2>1, <2>2, Faulty DEF BusOK, Moving
  <1> QED BY <1>1, <1>2, <1>3, <1>4, <1>5 DEF HcOut

(* The same for a packet from the device.  The buffer gets the signature of *)
(* a status only when the device ends its command.                          *)
LEMMA HcInFits ==
  ASSUME TypeOK, Moving(dev), Len(stuck) < MaxStuck,
         NEW b \in {"cbw", "data"}, NEW len \in Nat, HcIn(b, len)
  PROVE  /\ BusOK' /\ cbw' \in Commands
         /\ \/ cbw' = cbw
            \/ /\ b = "cbw"
               /\ cbw'.sig = "csw" => dev.phase \in {"in", "status"} /\ dev'.phase = "command"
  <1> DEFINE d == IF Sends(dev) /\ dev.in # toggle.in THEN Sent(dev) ELSE dev
  <1> USE Typed
  <1>0. BusOK
    BY DEF BusOK, TypeOK
  <1>1. d \in Devices /\ Moving(d)
    BY SentFits
  <1>2. Sends(d) => dev.phase \in {"in", "status"}
    BY DEF Sends
  <1>3. Sends(d) => /\ Sent(d) \in Devices /\ Moving(Sent(d))
                    /\ d.phase = "status" => Sent(d).phase = "command"
    BY <1>1, SentFits
  <1>4. Fill(d) \in Commands /\ (Fill(d).sig = "csw" <=> d.phase = "status")
    BY <1>1, FillFits
  <1> HIDE DEF d
  <1>5. CASE /\ Sends(d)
             /\ dev' = Sent(d)
             /\ cbw' = IF b = "cbw" THEN Fill(d) ELSE cbw
             /\ toggle' = [toggle EXCEPT !.in = 1 - @]
             /\ \/ success' = TRUE /\ UNCHANGED faults
                \/ success' = FALSE /\ Fault
             /\ UNCHANGED stuck
    <2>1. toggle' \in [out : {0, 1}, in : {0, 1}]
      BY <1>5, Toggled
    <2>2. BusOK'
      BY <1>0, <1>3, <1>5, <2>1, Faulty DEF BusOK, Moving
    <2> QED BY <1>2, <1>3, <1>4, <1>5, <2>2
  <1>6. CASE /\ dev' = d
             /\ success' = FALSE
             /\ UNCHANGED <<cbw, toggle, stuck, faults>>
    <2>1. BusOK'
      BY <1>0, <1>1, <1>6 DEF BusOK, Moving
    <2> QED BY <1>6, <2>1
  <1>7. CASE /\ dev' = d
             /\ success' = FALSE
             /\ GiveUp("in", toggle.in, b, len)
             /\ UNCHANGED <<cbw, toggle, faults>>
    <2>1. stuck' \in Seq(Abandoned) /\ Len(stuck') <= MaxStuck
      BY <1>7, GivenUp
    <2>2. BusOK'
      BY <1>0, <1>1, <1>7, <2>1 DEF BusOK, Moving
    <2> QED BY <1>7, <2>2
  <1>8. CASE /\ Sends(d)
             /\ Fault
             /\ dev' \in {d, Sent(d)}
             /\ success' = FALSE
             /\ UNCHANGED <<cbw, toggle, stuck>>
    <2>1. BusOK'
      BY <1>0, <1>1, <1>3, <1>8, Faulty DEF BusOK, Moving
    <2> QED BY <1>8, <2>1
  <1> QED BY <1>5, <1>6, <1>7, <1>8 DEF HcIn, d

-----------------------------------------------------------------------------
(* Type correctness, the places of the routines, and the signature, which   *)
(* hold whatever fails.                                                     *)
RoutineOK ==
  /\ rt \in Routines /\ st \in {"none", "clear", "command", "data", "status"}
  /\ lun \in 1 .. Luns /\ todo \in Nat /\ count \in AllCounts
  /\ st = "none" <=> rt \in {"reset", "idle", "gone", "wild"}
  /\ st = "clear" => rt \notin {"read", "write"}
  /\ st = "data" => todo # 0

RestOK ==
  /\ bytesPerBlock \in Garbage \cup {BlockLen} /\ result \in {0, 1} /\ calls \in 0 .. MaxCalls
  /\ smooth \in BOOLEAN /\ moved \in Nat /\ answered \in BOOLEAN

LEMMA Parts ==
  TypeOK /\ Places <=> RoutineOK /\ RestOK /\ BusOK /\ cbw \in Commands
  BY Zenon DEF TypeOK, Places, RoutineOK, RestOK, BusOK, Commands, Devices, Abandoned

LEMMA PartsNext ==
  (RoutineOK /\ RestOK /\ BusOK /\ cbw \in Commands)' => (TypeOK /\ Places)'
  BY Parts, PTL

(* A routine that returns is followed by one of the initialisation or by    *)
(* the wait for a caller.                                                   *)
LEMMA ReturnFits ==
  ASSUME RoutineOK, NEW v, st # "none", Return(v)
  PROVE  /\ RoutineOK'
         /\ rt' \in {"inquiry", "start", "ready", "sense", "capacity", "read", "idle"}
         /\ st' \notin {"data", "status"}
         /\ rt' = "idle" => rt \in {"read", "write"}
  <1>1. rt \in {"inquiry", "start", "ready", "sense", "capacity", "read", "write"}
    BY DEF RoutineOK, Routines
  <1>2. /\ rt' = NextAfter(v) /\ todo' = 0
        /\ st' = CASE rt' = "inquiry" -> "clear" [] rt' = "idle" -> "none" [] OTHER -> "command"
    BY DEF Return, Enter
  <1>3. /\ rt' \in {"inquiry", "start", "ready", "sense", "capacity", "read", "idle"}
        /\ rt' = "idle" => rt \in {"read", "write"}
    BY <1>1, <1>2 DEF NextAfter
  <1>4. st' = IF rt' = "inquiry" THEN "clear" ELSE IF rt' = "idle" THEN "none" ELSE "command"
    BY <1>2, <1>3
  <1>5. count' \in AllCounts
    BY DEF Return, Enter, RoutineOK, AllCounts
  <1>6. lun' \in 1 .. Luns
    BY MsdAssumption DEF Return, RoutineOK
  <1> QED BY <1>2, <1>3, <1>4, <1>5, <1>6 DEF RoutineOK, Routines

LEMMA StayFits ==
  ASSUME RoutineOK, NEW s \in {"clear", "command", "data", "status"}, NEW n \in Nat,
         rt \notin {"reset", "idle", "gone", "wild"}, Stay(s, n),
         s = "clear" => rt \notin {"read", "write"}, s = "data" => n # 0
  PROVE  RoutineOK'
  BY DEF RoutineOK, Stay

(* The command that is built. *)
LEMMA CommandFits ==
  ASSUME TypeOK, Places, st = "command"
  PROVE  Command(rt, count) \in Commands /\ Command(rt, count).sig = "cbw"
  <1>1. rt \in Ops \cup {"ready"}
    BY DEF TypeOK, Places, Routines, Ops
  <1>2. Transfers(rt, count) \in Nat
    BY TransfersIsNat
  <1>3. CASE rt = "ready"
    BY <1>3, Typed, <1>2 DEF Command, Commands
  <1>4. CASE rt # "ready"
    <2>1. count % CountMod \in Nat
      BY Lengths, CountCut DEF TypeOK
    <2> QED BY <1>1, <1>2, <1>4, <2>1 DEF Command, Commands, TypeOK
  <1> QED BY <1>3, <1>4

LEMMA AnswersGrow ==
  ASSUME answered \in BOOLEAN
  PROVE  (Answers \in BOOLEAN) /\ (answered => Answers)
  BY DEF Answers

Safe == TypeOK /\ Places /\ Signed

LEMMA ResetSafe ==
  ASSUME Safe, Reset
  PROVE  Safe'
  <1>1. RoutineOK /\ RestOK /\ BusOK /\ cbw \in Commands
    BY Parts DEF Safe
  <1>2. /\ UNCHANGED <<bytesPerBlock, result, calls, toggle, success, stuck, dev, cbw, smooth, moved, answered>>
        /\ rt' \in {"inquiry", "gone"} /\ st' = IF rt' = "inquiry" THEN "clear" ELSE "none"
        /\ faults' \in 0 .. MaxFaults /\ count' \in AllCounts /\ todo' \in Nat /\ lun' = lun
    BY <1>1, Faulty DEF Reset, Enter, outcome, ghosts, RoutineOK, BusOK, AllCounts, Safe
  <1>3. RoutineOK' /\ RestOK' /\ cbw' \in Commands
    BY <1>1, <1>2 DEF RoutineOK, RestOK, Routines
  <1>4. BusOK'
    BY <1>1, <1>2 DEF BusOK, Moving
  <1>5. (TypeOK /\ Places)'
    BY <1>3, <1>4, PartsNext
  <1>6. Signed'
    BY <1>2 DEF Signed, TrueMeansStatus
  <1> QED BY <1>5, <1>6 DEF Safe

LEMMA ClearSafe ==
  ASSUME Safe, ClearHalt
  PROVE  Safe'
  <1> DEFINE cleared == [dev EXCEPT !.haltOut = FALSE, !.out = 0]
  <1>1. RoutineOK /\ RestOK /\ BusOK /\ cbw \in Commands
    BY Parts DEF Safe
  <1>2. cleared \in Devices /\ Moving(cleared)
    BY <1>1, ClearedFits DEF BusOK
  <1>3. /\ UNCHANGED <<bytesPerBlock, result, calls, toggle, success, stuck, cbw, moved, answered>>
        /\ smooth' \in BOOLEAN /\ faults' \in 0 .. MaxFaults /\ dev' \in {dev, cleared}
        /\ st = "clear"
        /\ Return(0) \/ (rt = "inquiry" /\ Stay("command", 0))
    BY <1>1, Faulty DEF ClearHalt, outcome, RestOK, BusOK, Safe
  <1> HIDE DEF cleared
  <1>4. RestOK' /\ cbw' \in Commands
    BY <1>1, <1>3 DEF RestOK
  <1>5. BusOK'
    BY <1>1, <1>2, <1>3 DEF BusOK, Moving
  <1>6. rt \notin {"read", "write"}
    BY <1>1, <1>3 DEF RoutineOK
  <1>7. RoutineOK' /\ rt' # "idle" /\ st' \notin {"data", "status"}
    <2>1. CASE Return(0)
      BY <1>1, <1>3, <1>6, <2>1, ReturnFits
    <2>2. CASE rt = "inquiry" /\ Stay("command", 0)
      BY <1>1, <2>2 DEF RoutineOK, Stay
    <2> QED BY <1>3, <2>1, <2>2
  <1>8. (TypeOK /\ Places)'
    BY <1>4, <1>5, <1>7, PartsNext
  <1>9. Signed'
    BY <1>7 DEF Signed, TrueMeansStatus
  <1> QED BY <1>8, <1>9 DEF Safe

LEMMA SendSafe ==
  ASSUME Safe, SendCommand
  PROVE  Safe'
  <1>1. RoutineOK /\ RestOK /\ BusOK /\ cbw \in Commands
    BY Parts DEF Safe
  <1>2. cbw' \in Commands /\ cbw'.sig = "cbw"
    BY CommandFits DEF Safe, SendCommand
  <1>3. BusOK'
    BY <1>1, <1>2, HcOutFits DEF Safe, Places, SendCommand
  <1>4. /\ UNCHANGED <<bytesPerBlock, result, calls>>
        /\ smooth' \in BOOLEAN /\ moved' = 0 /\ answered' = FALSE
    BY <1>1, <1>3 DEF SendCommand, outcome, RestOK, BusOK
  <1>5. RestOK'
    BY <1>1, <1>4 DEF RestOK
  <1>6. RoutineOK' /\ rt' = rt /\ rt # "idle"
    <2>1. st = "command" /\ rt \notin {"reset", "idle", "gone", "wild"} /\ cbw'.xfer \in Nat
      BY <1>1, <1>2 DEF SendCommand, RoutineOK, Commands
    <2>2. \/ Stay("clear", 0) /\ Checks
          \/ Stay("status", 0)
          \/ Stay("data", cbw'.xfer) /\ cbw'.xfer # 0
      BY DEF SendCommand
    <2>3. CASE Stay("clear", 0) /\ Checks
      BY <1>1, <2>1, <2>3 DEF RoutineOK, Stay, Checks
    <2>4. CASE Stay("status", 0)
      BY <1>1, <2>1, <2>4 DEF RoutineOK, Stay
    <2>5. CASE Stay("data", cbw'.xfer) /\ cbw'.xfer # 0
      BY <1>1, <2>1, <2>5 DEF RoutineOK, Stay
    <2> QED BY <2>1, <2>2, <2>3, <2>4, <2>5 DEF Stay
  <1>7. (TypeOK /\ Places)'
    BY <1>2, <1>3, <1>5, <1>6, PartsNext
  <1>8. Signed'
    BY <1>2, <1>6 DEF Signed, TrueMeansStatus
  <1> QED BY <1>7, <1>8 DEF Safe

LEMMA MoveSafe ==
  ASSUME Safe, MoveData
  PROVE  Safe'
  <1>1. RoutineOK /\ RestOK /\ BusOK /\ cbw \in Commands
    BY Parts DEF Safe
  <1>2. st = "data" /\ Len(stuck) < MaxStuck /\ TypeOK /\ Moving(dev)
    BY DEF MoveData, Safe, Places
  <1>3. NoCommand \in Commands /\ PacketLen(rt) \in Nat
    BY DEF NoCommand, Commands, Ops, AllCounts, PacketLen
  <1>4. BusOK' /\ cbw' \in Commands /\ (rt \in {"read", "write"} => cbw' = cbw)
    <2>1. CASE rt = "write"
      <3>1. HcOut("data", NoCommand) /\ cbw' = cbw
        BY <2>1 DEF MoveData
      <3> QED BY <1>1, <1>2, <1>3, <3>1, HcOutFits
    <2>2. CASE rt # "write"
      <3> DEFINE b == IF rt = "inquiry" THEN "cbw" ELSE "data"
      <3>1. HcIn(b, PacketLen(rt)) /\ b \in {"cbw", "data"} /\ (rt = "read" => b # "cbw")
        BY <2>2 DEF MoveData
      <3> HIDE DEF b
      <3> QED BY <1>2, <1>3, <2>2, <3>1, HcInFits
    <2> QED BY <2>1, <2>2
  <1>5. /\ UNCHANGED <<bytesPerBlock, result, calls>>
        /\ smooth' \in BOOLEAN /\ moved' \in Nat /\ answered' \in BOOLEAN
        /\ answered => answered'
    BY <1>1, <1>4, AnswersGrow DEF MoveData, outcome, RestOK, BusOK
  <1>6. RestOK'
    BY <1>1, <1>5 DEF RestOK
  <1>7. RoutineOK' /\ rt' = rt /\ rt # "idle"
    <2>1. rt \notin {"reset", "idle", "gone", "wild"} /\ todo \in Nat \ {0}
      BY <1>1, <1>2 DEF RoutineOK
    <2>2. \/ Stay("clear", 0) /\ rt \notin {"read", "write"}
          \/ Stay("status", todo - 1)
          \/ Stay("data", todo - 1) /\ todo # 1
      BY DEF MoveData, LastPacket, Checks
    <2>3. todo - 1 \in Nat /\ (todo # 1 => todo - 1 # 0)
      BY <2>1
    <2> QED BY <1>1, <2>1, <2>2, <2>3, StayFits DEF Stay
  <1>8. (TypeOK /\ Places)'
    BY <1>4, <1>6, <1>7, PartsNext
  <1>9. Signed'
    BY <1>2, <1>4, <1>5, <1>7 DEF Signed, TrueMeansStatus, Safe
  <1> QED BY <1>8, <1>9 DEF Safe

LEMMA ReadSafe ==
  ASSUME Safe, ReadStatus
  PROVE  Safe'
  <1>1. RoutineOK /\ RestOK /\ BusOK /\ cbw \in Commands
    BY Parts DEF Safe
  <1>2. st = "status" /\ Len(stuck) < MaxStuck /\ TypeOK /\ Moving(dev)
    BY DEF ReadStatus, Safe, Places
  <1>3. CswLen \in Nat /\ "cbw" \in {"cbw", "data"} /\ HcIn("cbw", CswLen)
    BY DEF CswLen, ReadStatus
  <1>4. /\ BusOK' /\ cbw' \in Commands
        /\ cbw' = cbw \/ (cbw'.sig = "csw" => dev.phase \in {"in", "status"} /\ dev'.phase = "command")
    BY <1>2, <1>3, HcInFits
  <1>5. /\ calls' = calls /\ moved' = moved /\ answered' = Answers
        /\ answered' \in BOOLEAN /\ (answered => answered')
        /\ smooth' \in BOOLEAN /\ result' \in {0, 1} /\ bytesPerBlock' \in {BlockLen, bytesPerBlock}
    BY <1>1, <1>4, AnswersGrow DEF ReadStatus, RestOK, BusOK
  <1>6. RestOK'
    BY <1>1, <1>5 DEF RestOK
  <1>7. /\ RoutineOK' /\ (rt' = "idle" => rt \in {"read", "write"})
        /\ st' \notin {"data", "status"}
    <2>1. Return(cbw'.flags) \/ (Stay("clear", 0) /\ rt \in {"start", "capacity"})
      BY DEF ReadStatus
    <2>2. CASE Return(cbw'.flags)
      BY <1>1, <1>2, <2>2, ReturnFits
    <2>3. CASE Stay("clear", 0) /\ rt \in {"start", "capacity"}
      BY <1>1, <2>3 DEF RoutineOK, Stay
    <2> QED BY <2>1, <2>2, <2>3
  <1>8. (TypeOK /\ Places)'
    BY <1>4, <1>6, <1>7, PartsNext
  <1>9. rt' = "idle" /\ result' = 1 => answered'
    <2> SUFFICES ASSUME rt' = "idle", result' = 1 PROVE answered'
      OBVIOUS
    <2>1. rt \in {"read", "write"} /\ cbw'.sig = "csw"
      BY <1>7 DEF ReadStatus
    <2>2. CASE cbw' = cbw
      BY <1>2, <1>5, <2>1, <2>2 DEF Signed, Safe
    <2>3. CASE dev.phase \in {"in", "status"} /\ dev'.phase = "command"
      BY <1>5, <2>3 DEF Answers
    <2> QED BY <1>4, <2>1, <2>2, <2>3
  <1>10. Signed'
    BY <1>7, <1>9 DEF Signed, TrueMeansStatus
  <1> QED BY <1>8, <1>10 DEF Safe

LEMMA NoQueueHeadSafe ==
  ASSUME Safe, NoQueueHead
  PROVE  Safe'
  <1>1. RoutineOK /\ RestOK /\ BusOK /\ cbw \in Commands
    BY Parts DEF Safe
  <1>2. rt' = "wild" /\ st' = "none" /\ UNCHANGED <<lun, todo, count>>
    BY DEF NoQueueHead
  <1>3. UNCHANGED <<bytesPerBlock, result, calls, smooth, moved, answered, cbw>>
    BY DEF NoQueueHead, outcome, ghosts
  <1>4. UNCHANGED <<toggle, success, stuck, dev, faults>>
    BY DEF NoQueueHead, bus
  <1>5. RoutineOK' /\ RestOK' /\ cbw' \in Commands
    BY <1>1, <1>2, <1>3 DEF RoutineOK, RestOK, Routines
  <1>6. BusOK'
    BY <1>1, <1>4 DEF BusOK, Moving
  <1> QED BY <1>2, <1>5, <1>6, PartsNext DEF Safe, Signed, TrueMeansStatus

LEMMA CallSafe ==
  ASSUME Safe, Call
  PROVE  Safe'
  <1>1. RoutineOK /\ RestOK /\ BusOK /\ cbw \in Commands
    BY Parts DEF Safe
  <1>2. rt' \in {"read", "write"} /\ st' = "command" /\ todo' = 0 /\ lun' = lun /\ count' \in AllCounts
    BY DEF Call, Enter, AllCounts
  <1>3. /\ UNCHANGED <<bytesPerBlock, result, smooth, moved, answered, cbw>>
        /\ calls' \in 0 .. MaxCalls
    BY <1>1, MsdAssumption DEF Call, ghosts, RestOK
  <1>4. UNCHANGED <<toggle, success, stuck, dev, faults>>
    BY DEF Call, bus
  <1>5. RoutineOK' /\ RestOK' /\ cbw' \in Commands
    BY <1>1, <1>2, <1>3 DEF RoutineOK, RestOK, Routines
  <1>6. BusOK'
    BY <1>1, <1>4 DEF BusOK, Moving
  <1> QED BY <1>2, <1>5, <1>6, PartsNext DEF Safe, Signed, TrueMeansStatus

(* A transfer that was given up and is completed later. *)
LEMMA LateSafe ==
  ASSUME Safe, Late
  PROVE  Safe'
  <1>1. RoutineOK /\ RestOK /\ BusOK /\ cbw \in Commands
    BY Parts DEF Safe
  <1>2. PICK i \in DOMAIN stuck :
          /\ stuck' = RemoveAt(stuck, i)
          /\ \/ stuck[i].ep = "out" /\ LateOut(stuck[i])
             \/ stuck[i].ep = "in" /\ LateIn(stuck[i])
    BY DEF Late
  <1> DEFINE x == stuck[i]
             d == IF Sends(dev) /\ dev.in # x.toggle THEN Sent(dev) ELSE dev
  <1>3. x \in Abandoned
    BY <1>1, <1>2 DEF BusOK
  <1>4. stuck' \in Seq(Abandoned) /\ Len(stuck') <= MaxStuck
    <2>1. i \in 1 .. Len(stuck) /\ stuck \in Seq(Abandoned) /\ Len(stuck) <= MaxStuck
      BY <1>1, <1>2 DEF BusOK
    <2>2. SubSeq(stuck, 1, i - 1) \in Seq(Abandoned) /\ Len(SubSeq(stuck, 1, i - 1)) = i - 1
      BY <2>1
    <2>3. /\ SubSeq(stuck, i + 1, Len(stuck)) \in Seq(Abandoned)
          /\ Len(SubSeq(stuck, i + 1, Len(stuck))) = Len(stuck) - i
      BY <2>1
    <2>4. stuck' = SubSeq(stuck, 1, i - 1) \o SubSeq(stuck, i + 1, Len(stuck))
      BY <1>2 DEF RemoveAt
    <2> QED BY <2>1, <2>2, <2>3, <2>4, Lengths
  <1>5. /\ dev' \in Devices /\ Moving(dev') /\ cbw' \in Commands
        /\ cbw' = cbw \/ (cbw'.sig = "csw" => dev.phase \in {"in", "status"} /\ dev'.phase = "command")
    <2>1. CASE LateOut(x)
      <3> DEFINE c == IF x.buf = "cbw" THEN cbw ELSE NoCommand
      <3>1. c \in Commands /\ x.toggle \in {0, 1}
        BY <1>1, <1>3 DEF NoCommand, Commands, Ops, AllCounts, Abandoned
      <3>2. cbw' = cbw /\ (dev' = dev \/ (Takes(dev) /\ dev' \in Received(dev, x.toggle, c)))
        BY <2>1 DEF LateOut
      <3> HIDE DEF c
      <3>3. dev' \in Devices /\ Moving(dev')
        BY <1>1, <3>1, <3>2, ReceivedFits DEF BusOK, Moving
      <3> QED BY <1>1, <3>2, <3>3
    <2>2. CASE LateIn(x)
      <3>1. d \in Devices /\ Moving(d)
        BY <1>1, SentFits DEF BusOK
      <3>2. Sends(d) => dev.phase \in {"in", "status"}
        BY DEF Sends
      <3>3. Sends(d) => /\ Sent(d) \in Devices /\ Moving(Sent(d))
                        /\ d.phase = "status" => Sent(d).phase = "command"
        BY <3>1, SentFits
      <3>4. Fill(d) \in Commands /\ (Fill(d).sig = "csw" <=> d.phase = "status")
        BY <1>1, <3>1, FillFits
      <3>5. \/ dev' = d /\ cbw' = cbw
            \/ Sends(d) /\ dev' = Sent(d) /\ (cbw' = cbw \/ cbw' = Fill(d))
        BY <2>2 DEF LateIn
      <3> HIDE DEF d
      <3>6. dev' \in Devices /\ Moving(dev')
        BY <3>1, <3>3, <3>5 DEF Moving
      <3> QED BY <1>1, <3>2, <3>3, <3>4, <3>5, <3>6
    <2> QED BY <1>2, <2>1, <2>2
  <1>6. UNCHANGED <<rt, st, lun, todo, count, bytesPerBlock, result, calls, toggle, success, faults, smooth, moved>>
    BY DEF Late, routine, outcome
  <1>7. answered' = Answers /\ answered' \in BOOLEAN /\ (answered => answered')
    BY <1>1, AnswersGrow DEF Late, RestOK
  <1>8. RoutineOK' /\ RestOK'
    BY <1>1, <1>6, <1>7 DEF RoutineOK, RestOK
  <1>9. BusOK'
    BY <1>1, <1>4, <1>5, <1>6 DEF BusOK
  <1>10. (TypeOK /\ Places)'
    BY <1>5, <1>8, <1>9, PartsNext
  <1>11. Signed'
    <2>1. cbw' = cbw \/ (cbw'.sig = "csw" => answered')
      BY <1>5, <1>7 DEF Answers
    <2> QED BY <1>6, <1>7, <2>1 DEF Signed, TrueMeansStatus, Safe
  <1> QED BY <1>10, <1>11 DEF Safe

-----------------------------------------------------------------------------
(* While nothing fails.  A command that asks for the packets it stands for  *)
(* puts a device in step in the phase that the driver goes on with.         *)
LEMMA CommandTaken ==
  ASSUME NEW d \in Devices, d.phase = "command", ~d.haltIn, ~d.haltOut,
         NEW c \in Commands, c.sig = "cbw", Wanted(c) = c.xfer,
         NEW x \in Received(d, d.out, c)
  PROVE  /\ x.phase = IF c.xfer = 0 THEN "status" ELSE IF c.op = "write" THEN "out" ELSE "in"
         /\ ~x.haltIn /\ ~x.haltOut /\ x.out = 1 - d.out /\ x.in = d.in
         /\ x.left = c.xfer /\ ~x.short /\ x.op = c.op
  <1> DEFINE o == 1 - d.out
             p == IF c.xfer = 0 THEN "status" ELSE IF c.op = "write" THEN "out" ELSE "in"
             w == c.xfer < c.xfer
  <1>1. PICK s \in {0, 1} : x = TakenCommand(d, c, s)
    BY DEF Received
  <1> DEFINE v == IF Wanted(c) = c.xfer /\ c.op # "data" THEN s ELSE 1
             k == c.xfer
  <1>2. ~ w /\ w \in BOOLEAN
    BY DEF Commands
  <1>3. x = [d EXCEPT !.op = c.op, !.left = k, !.short = w, !.out = o, !.phase = p, !.status = v]
    BY <1>1, <1>2 DEF TakenCommand
  <1> HIDE DEF o, p, v, w, k
  <1>4. /\ x.op = c.op /\ x.left = k /\ x.short = w /\ x.out = o /\ x.phase = p
        /\ x.in = d.in /\ x.haltIn = d.haltIn /\ x.haltOut = d.haltOut
    BY <1>3, Zenon DEF Devices
  <1> QED BY <1>2, <1>4 DEF o, p, k

(* A command that asks for less than the driver will move. *)
LEMMA ShortTaken ==
  ASSUME NEW d \in Devices, d.phase = "command", ~d.haltIn, ~d.haltOut,
         NEW c \in Commands, c.sig = "cbw", Wanted(c) < c.xfer,
         NEW x \in Received(d, d.out, c)
  PROVE  /\ x.phase = IF Wanted(c) = 0 THEN "status" ELSE IF c.op = "write" THEN "out" ELSE "in"
         /\ ~x.haltIn /\ ~x.haltOut /\ x.out = 1 - d.out /\ x.in = d.in
         /\ x.left = Wanted(c) /\ x.short
  <1> DEFINE o == 1 - d.out
             k == Wanted(c)
             p == IF k = 0 THEN "status" ELSE IF c.op = "write" THEN "out" ELSE "in"
             w == k < c.xfer
  <1>1. PICK s \in {0, 1} : x = TakenCommand(d, c, s)
    BY DEF Received
  <1> DEFINE v == IF Wanted(c) = c.xfer /\ c.op # "data" THEN s ELSE 1
  <1>2. w
    OBVIOUS
  <1>3. x = [d EXCEPT !.op = c.op, !.left = k, !.short = w, !.out = o, !.phase = p, !.status = v]
    BY <1>1, <1>2 DEF TakenCommand
  <1> HIDE DEF o, p, v, w, k
  <1>4. /\ x.left = k /\ x.short = w /\ x.out = o /\ x.phase = p
        /\ x.in = d.in /\ x.haltIn = d.haltIn /\ x.haltOut = d.haltOut
    BY <1>3, Zenon DEF Devices
  <1> QED BY <1>2, <1>4 DEF o, p, k

LEMMA DataTaken ==
  ASSUME NEW d \in Devices, d.phase = "out", NEW c, NEW x \in Received(d, d.out, c)
  PROVE  /\ x.phase = IF d.left = 1 THEN "status" ELSE "out"
         /\ x.haltIn = d.haltIn /\ x.haltOut = d.haltOut /\ x.out = 1 - d.out /\ x.in = d.in
         /\ x.left = d.left - 1 /\ x.short = d.short /\ x.op = d.op
  <1> DEFINE o == 1 - d.out
             p == IF d.left = 1 THEN "status" ELSE "out"
             n == d.left - 1
  <1>1. x = [d EXCEPT !.phase = p, !.left = n, !.out = o]
    BY DEF Received, TakenData
  <1> HIDE DEF o, p, n
  <1>2. /\ x.op = d.op /\ x.left = n /\ x.short = d.short /\ x.out = o /\ x.phase = p
        /\ x.in = d.in /\ x.haltIn = d.haltIn /\ x.haltOut = d.haltOut
    BY <1>1, Zenon DEF Devices
  <1> QED BY <1>2 DEF o, p, n

LEMMA DataSent ==
  ASSUME NEW d \in Devices, d.phase = "in", ~d.haltIn
  PROVE  LET x == Sent(d)
         IN  /\ x.phase = IF d.left = 1 THEN "status" ELSE "in"
             /\ x.haltIn = (d.left = 1 /\ d.short) /\ x.haltOut = d.haltOut
             /\ x.out = d.out /\ x.in = 1 - d.in
             /\ x.left = d.left - 1 /\ x.short = d.short /\ x.op = d.op
  <1> DEFINE i == 1 - d.in
             p == IF d.left = 1 THEN "status" ELSE "in"
             n == d.left - 1
             h == d.left = 1 /\ d.short
             x == Sent(d)
  <1>1. x = [d EXCEPT !.phase = p, !.left = n, !.in = i, !.haltIn = h]
    BY DEF Sent
  <1> HIDE DEF i, p, n, h, x
  <1>3. /\ x.op = d.op /\ x.left = n /\ x.short = d.short /\ x.out = d.out /\ x.phase = p
        /\ x.in = i /\ x.haltIn = h /\ x.haltOut = d.haltOut
    BY <1>1, Zenon DEF Devices
  <1> QED BY <1>3 DEF i, p, n, h, x

LEMMA StatusSent ==
  ASSUME NEW d \in Devices, d.phase = "status"
  PROVE  LET x == Sent(d)
         IN  /\ x.phase = "command" /\ x.in = 1 - d.in /\ x.out = d.out
             /\ x.haltIn = d.haltIn /\ x.haltOut = d.haltOut
  <1> DEFINE i == 1 - d.in
             x == Sent(d)
  <1>1. x = [d EXCEPT !.phase = "command", !.in = i]
    BY DEF Sent
  <1> HIDE DEF i, x
  <1>2. x.phase = "command" /\ x.in = i /\ x.out = d.out /\ x.haltIn = d.haltIn /\ x.haltOut = d.haltOut
    BY <1>1, Zenon DEF Devices
  <1> QED BY <1>2 DEF i, x

(* A packet the device took, without any failure. *)
LEMMA OutSucceeds ==
  ASSUME TypeOK, NEW b, NEW c, HcOut(b, c), success'
  PROVE  /\ Takes(dev) /\ stuck' = stuck
         /\ toggle'.out = 1 - toggle.out /\ toggle'.in = toggle.in
         /\ \/ dev' \in Received(dev, toggle.out, c)
            \/ dev.phase = "command" /\ c.op \in {"capacity", "read", "write"} /\ dev' = Refused(dev, c)
  BY Toggled DEF HcOut

(* A packet the device sent, with the toggle the driver expects. *)
LEMMA InSucceeds ==
  ASSUME TypeOK, NEW b, NEW len, HcIn(b, len), success', dev.in = toggle.in
  PROVE  /\ Sends(dev) /\ dev' = Sent(dev) /\ stuck' = stuck
         /\ cbw' = IF b = "cbw" THEN Fill(dev) ELSE cbw
         /\ toggle'.in = 1 - toggle.in /\ toggle'.out = toggle.out
  BY Toggled DEF HcIn

(* The packets a routine asks for are those its command stands for. *)
LEMMA CommandMeans ==
  ASSUME TypeOK, Places, st = "command", rt # "sense",
         rt \in {"read", "write"} => bytesPerBlock = BlockLen /\ count # 0,
         rt = "ready" => cbw.op = "start"
  PROVE  LET c == Command(rt, count)
         IN  /\ IF rt \in {"read", "write"} /\ count >= CountMod
                THEN Wanted(c) < c.xfer /\ Total > 1
                ELSE Wanted(c) = c.xfer
             /\ c.op = IF rt = "ready" THEN "start" ELSE rt
             /\ c.xfer = IF rt \in {"start", "ready"} THEN 0 ELSE Total
             /\ Total \in Nat \ {0} \/ rt \notin {"read", "write"}
  <1> DEFINE c == Command(rt, count)
  <1>1. rt \in {"inquiry", "start", "ready", "capacity", "read", "write"}
    BY DEF TypeOK, Places, Routines
  <1>2. count \in Nat /\ cbw \in Commands
    BY Typed
  <1>3. CASE rt = "ready"
    BY <1>2, <1>3 DEF Command, Commands, Wanted
  <1>4. CASE rt # "ready"
    <2>1. c = [sig |-> "cbw", op |-> rt, count |-> count % CountMod,
               flags |-> IF rt = "write" THEN 0 ELSE 1, xfer |-> Transfers(rt, count)]
      BY <1>4 DEF Command
    <2>2. c.op = rt /\ c.count = count % CountMod /\ c.xfer = Transfers(rt, count)
      BY <2>1
    <2>3. rt \in {"read", "write"} => Transfers(rt, count) = count * BlockLen
      BY DEF Transfers
    <2>4. rt \in {"read", "write"} =>
             Wanted(c) = (count % CountMod) * BlockLen /\ Total = count * BlockLen
      BY <2>2 DEF Wanted, Total
    <2>5. rt \in {"read", "write"} => count * BlockLen \in Nat \ {0}
      BY <1>2, Lengths
    <2>6. rt \in {"inquiry", "capacity"} => Transfers(rt, count) = 1 /\ Wanted(c) = 1 /\ Total = 1
      BY <2>2 DEF Transfers, Wanted, Total
    <2>7. rt = "start" => Transfers(rt, count) = 0 /\ Wanted(c) = 0
      BY <2>2 DEF Transfers, Wanted
    <2>8. CASE rt \in {"read", "write"} /\ count >= CountMod
      <3>1. (count % CountMod) * BlockLen < count * BlockLen /\ count * BlockLen > 1
        BY <1>2, <2>8, CountCut
      <3> QED BY <1>4, <2>2, <2>3, <2>4, <2>5, <2>8, <3>1
    <2>9. CASE rt \in {"read", "write"} /\ ~(count >= CountMod)
      <3>1. CountMod \in Nat
        BY MsdAssumption
      <3>2. count % CountMod = count
        BY <1>2, <2>9, <3>1, CountCut
      <3> QED BY <1>4, <2>2, <2>3, <2>4, <2>5, <2>9, <3>2
    <2> QED BY <1>1, <1>4, <2>2, <2>6, <2>7, <2>8, <2>9
  <1> QED BY <1>3, <1>4

LEMMA ResetOnTrack ==
  ASSUME MsdInv, Reset, smooth', rt' \notin {"gone", "wild"}
  PROVE  Going'
  <1>1. rt' = "inquiry" /\ st' = "clear"
    BY DEF Reset, Enter
  <1>2. UNCHANGED <<toggle, stuck, dev, smooth, cbw>>
    BY DEF Reset, ghosts
  <1>3. rt = "reset" /\ st = "none" /\ Going
    BY <1>2 DEF MsdInv, OnTrack, Reset, Places
  <1>4. InPhase("command")' /\ Parity' /\ stuck' = <<>>
    BY <1>1, <1>2, <1>3 DEF Going, InPhase, Parity
  <1> QED BY <1>1, <1>4 DEF Going

LEMMA ClearOnTrack ==
  ASSUME MsdInv, ClearHalt, smooth', rt' \notin {"gone", "wild"}
  PROVE  Going'
  <1>1. smooth /\ UNCHANGED <<toggle, stuck, cbw>>
    BY DEF ClearHalt
  <1>2. Going /\ rt = "inquiry" /\ st = "clear"
    BY <1>1, Zenon DEF MsdInv, OnTrack, ClearHalt, Places, Going
  <1>3. dev' = [dev EXCEPT !.haltOut = FALSE, !.out = 0] /\ Stay("command", 0)
    BY <1>2 DEF ClearHalt
  <1>4. rt' = "inquiry" /\ st' = "command"
    BY <1>2, <1>3 DEF Stay
  <1>5. toggle.out = 0 /\ InPhase("command")
    BY <1>2 DEF Going, Parity
  <1>6. InPhase("command")'
    <2>1. dev \in Devices /\ Moving(dev)
      BY Typed DEF MsdInv, Places
    <2>2. /\ dev'.phase = dev.phase /\ dev'.in = dev.in /\ dev'.out = 0
          /\ dev'.haltIn = dev.haltIn /\ dev'.haltOut = FALSE
      BY <1>3, <2>1, ClearedFits
    <2> QED BY <1>1, <1>5, <2>2 DEF InPhase
  <1>7. Parity' /\ stuck' = <<>>
    BY <1>1, <1>2, <1>4, <1>5 DEF Parity, Going
  <1> QED BY <1>4, <1>6, <1>7 DEF Going

LEMMA SendOnTrack ==
  ASSUME MsdInv, SendCommand, smooth', rt' \notin {"gone", "wild"}
  PROVE  Going'
  <1> DEFINE c == Command(rt, count)
  <1>1. smooth /\ success' /\ cbw' = c /\ st = "command" /\ HcOut("cbw", c) /\ moved' = 0
    BY DEF SendCommand
  <1>2. rt' = rt /\ count' = count /\ bytesPerBlock' = bytesPerBlock
    BY DEF SendCommand, Stay, outcome
  <1>3. Going /\ TypeOK /\ Places /\ InPhase("command")
    BY <1>1, <1>2 DEF MsdInv, OnTrack, Going
  <1>4. rt \in {"inquiry", "start", "ready", "capacity", "read", "write"}
    BY <1>1, <1>3 DEF TypeOK, Places, Routines, Going
  <1>5. /\ IF rt \in {"read", "write"} /\ count >= CountMod
           THEN Wanted(c) < c.xfer /\ Total > 1
           ELSE Wanted(c) = c.xfer
        /\ c.op = IF rt = "ready" THEN "start" ELSE rt
        /\ c.xfer = IF rt \in {"start", "ready"} THEN 0 ELSE Total
    BY <1>1, <1>3, CommandMeans DEF Going
  <1>6. Total \in Nat \ {0}
    BY <1>1, <1>3, <1>4, CommandMeans DEF Going, Total
  <1>7. c \in Commands /\ c.sig = "cbw" /\ dev \in Devices
    BY <1>1, <1>3, CommandFits, Typed
  <1>8. IF rt \in {"start", "ready"} THEN st' = "status" ELSE st' = "data" /\ todo' = Total
    BY <1>1, <1>5, <1>6 DEF SendCommand, Stay
  <1> HIDE DEF c
  <1>9. /\ stuck' = <<>> /\ toggle'.out = 1 - toggle.out /\ toggle'.in = toggle.in
        /\ \/ dev' \in Received(dev, toggle.out, c)
           \/ c.op \in {"capacity", "read", "write"} /\ dev' = Refused(dev, c)
    BY <1>1, <1>3, OutSucceeds DEF Going
  <1>10. /\ dev.phase = "command" /\ ~dev.haltIn /\ ~dev.haltOut
         /\ dev.out = toggle.out /\ dev.in = toggle.in
    BY <1>3 DEF InPhase
  <1>11. Parity'
    BY <1>1, <1>2, <1>3, <1>4, <1>8, <1>9 DEF Going, Parity
  <1>12. rt = "start" => c.op = "start"
    BY <1>5
  <1>13. CASE dev' \in Received(dev, dev.out, c) /\ Wanted(c) = c.xfer
    <2>1. /\ dev'.phase = IF c.xfer = 0 THEN "status" ELSE IF c.op = "write" THEN "out" ELSE "in"
          /\ ~dev'.haltIn /\ ~dev'.haltOut /\ dev'.out = 1 - dev.out /\ dev'.in = dev.in
          /\ dev'.left = c.xfer /\ ~dev'.short /\ dev'.op = c.op
      BY <1>5, <1>7, <1>10, <1>13, CommandTaken
    <2>2. CASE rt \in {"start", "ready"}
      <3>1. InPhase("status")'
        BY <1>5, <1>9, <1>10, <1>13, <2>1, <2>2 DEF InPhase
      <3> QED BY <1>1, <1>2, <1>8, <1>9, <1>11, <1>12, <2>2, <3>1 DEF Going
    <2>3. CASE rt \notin {"start", "ready"}
      <3>1. dev'.phase = IF rt = "write" THEN "out" ELSE "in"
        BY <1>5, <1>6, <1>13, <2>1, <2>3
      <3>2. InPhase(IF rt = "write" THEN "out" ELSE "in")'
        BY <1>2, <1>9, <1>10, <2>1, <3>1 DEF InPhase
      <3>3. dev'.left = todo' /\ ~dev'.short /\ dev'.op = rt'
        BY <1>2, <1>5, <1>8, <2>1, <2>3
      <3>4. moved' + todo' = Total'
        BY <1>1, <1>2, <1>6, <1>8, <2>3 DEF Total
      <3>5. MidData'
        BY <1>2, <1>4, <2>3, <3>2, <3>3, <3>4 DEF MidData
      <3> QED BY <1>2, <1>3, <1>4, <1>8, <1>9, <1>11, <2>3, <3>5 DEF Going
    <2> QED BY <2>2, <2>3
  <1>15. CASE dev' \in Received(dev, dev.out, c) /\ Wanted(c) # c.xfer
    <2>1. rt \in {"read", "write"} /\ Wanted(c) < c.xfer /\ Total > 1 /\ c.op = rt
      BY <1>5, <1>15
    <2>2. /\ dev'.phase = IF Wanted(c) = 0 THEN "status" ELSE IF c.op = "write" THEN "out" ELSE "in"
          /\ ~dev'.haltIn /\ ~dev'.haltOut /\ dev'.out = 1 - dev.out /\ dev'.in = dev.in
          /\ dev'.left = Wanted(c) /\ dev'.short
      BY <1>7, <1>10, <1>15, <2>1, ShortTaken
    <2>3. dev'.out = toggle'.out /\ dev'.in = toggle'.in
      BY <1>9, <1>10, <2>2
    <2>4. todo' = Total /\ c.xfer = Total /\ st' = "data"
      BY <1>5, <1>8, <2>1
    <2>5. CASE Wanted(c) = 0
      <3>1. Short'
        BY <1>2, <2>1, <2>2, <2>3, <2>4, <2>5 DEF Short
      <3> QED BY <1>2, <1>3, <1>9, <1>11, <2>1, <2>4, <3>1 DEF Going, MidData
    <2>6. CASE Wanted(c) # 0
      <3>1. InPhase(IF rt = "write" THEN "out" ELSE "in")'
        BY <1>2, <2>1, <2>2, <2>3, <2>6 DEF InPhase
      <3>2. Short'
        BY <1>2, <2>1, <2>2, <2>3, <2>4, <3>1 DEF Short
      <3> QED BY <1>2, <1>3, <1>9, <1>11, <2>1, <2>4, <3>2 DEF Going, MidData
    <2> QED BY <2>5, <2>6
  <1>14. CASE c.op \in {"capacity", "read", "write"} /\ dev' = Refused(dev, c)
    <2>1. rt \in {"capacity", "read", "write"} /\ c.op = rt
      BY <1>4, <1>5, <1>14
    <2>2. Refusal'
      BY <1>2, <1>7, <1>14, <2>1, RefusedFits DEF Refusal
    <2>3. MidData'
      BY <1>2, <2>1, <2>2 DEF MidData
    <2> QED BY <1>2, <1>3, <1>8, <1>9, <1>11, <2>1, <2>3 DEF Going
  <1> QED BY <1>9, <1>10, <1>13, <1>14, <1>15

(* On the way to the packet that will fail, nothing does. *)
LEMMA ShortMoves ==
  ASSUME MsdInv, MoveData, Going, Short, success', st = "data", todo \in Nat \ {0},
         rt' = rt /\ count' = count /\ bytesPerBlock' = bytesPerBlock
  PROVE  Going'
  <1>1. TypeOK /\ dev \in Devices /\ Moving(dev) /\ stuck = <<>>
    BY Typed DEF MsdInv, Places, Going
  <1>2. dev.left \in Nat /\ rt \in {"read", "write"}
    BY <1>1 DEF Devices, Short
  <1>3. /\ st' = IF todo = 1 THEN "status" ELSE "data"
        /\ todo' = todo - 1
    BY <1>2 DEF MoveData, Stay, LastPacket, Checks
  <1>4. CASE rt = "write"
    <2>1. HcOut("data", NoCommand)
      BY <1>4 DEF MoveData
    <2>2. /\ Takes(dev) /\ stuck' = stuck
          /\ toggle'.out = 1 - toggle.out /\ toggle'.in = toggle.in
          /\ \/ dev' \in Received(dev, toggle.out, NoCommand)
             \/ dev.phase = "command"
      BY <1>1, <2>1, OutSucceeds
    <2>3. /\ dev.phase = "out" /\ ~dev.haltIn /\ ~dev.haltOut /\ dev.short /\ dev.left < todo
          /\ dev.out = toggle.out /\ dev.in = toggle.in
      BY <1>4, <2>2 DEF Short, InPhase, Takes
    <2>4. /\ dev'.phase = IF dev.left = 1 THEN "status" ELSE "out"
          /\ dev'.haltIn = dev.haltIn /\ dev'.haltOut = dev.haltOut
          /\ dev'.out = 1 - dev.out /\ dev'.in = dev.in
          /\ dev'.left = dev.left - 1 /\ dev'.short = dev.short
      <3>1. dev' \in Received(dev, dev.out, NoCommand)
        BY <2>2, <2>3
      <3>2. dev \in Devices /\ dev.phase = "out"
        BY <1>1, <2>3
      <3> QED BY <3>1, <3>2, DataTaken
    <2>5. dev'.out = toggle'.out /\ dev'.in = toggle'.in /\ stuck' = <<>>
      BY <1>1, <2>2, <2>3, <2>4
    <2>6. todo # 1 /\ dev.left # 0
      BY <1>1, <1>2, <2>3 DEF Moving
    <2>7. Short'
      <3>1. CASE dev.left = 1
        BY <1>4, <2>4, <2>5, <3>1 DEF Short
      <3>2. CASE dev.left # 1
        <4>1. InPhase("out")'
          BY <2>3, <2>4, <2>5, <3>2 DEF InPhase
        <4>2. dev'.left < todo' /\ dev'.short
          BY <1>2, <1>3, <2>3, <2>4
        <4> QED BY <1>4, <2>5, <4>1, <4>2 DEF Short
      <3> QED BY <3>1, <3>2
    <2> QED BY <1>3, <1>4, <2>5, <2>6, <2>7 DEF Going, MidData, Parity
  <1>5. CASE rt = "read"
    <2>1. HcIn("data", PacketLen(rt))
      BY <1>5 DEF MoveData
    <2>2. dev.in = toggle.in /\ dev.out = toggle.out
      BY DEF Short
    <2>3. /\ Sends(dev) /\ dev' = Sent(dev) /\ stuck' = stuck
          /\ toggle'.in = 1 - toggle.in /\ toggle'.out = toggle.out
      BY <1>1, <2>1, <2>2, InSucceeds
    <2>4. CASE dev.phase = "in"
      <3>1. ~dev.haltIn /\ ~dev.haltOut /\ dev.short /\ dev.left < todo
        BY <1>5, <2>4 DEF Short, InPhase
      <3>2. /\ dev'.phase = IF dev.left = 1 THEN "status" ELSE "in"
            /\ dev'.haltIn = (dev.left = 1 /\ dev.short) /\ dev'.haltOut = dev.haltOut
            /\ dev'.out = dev.out /\ dev'.in = 1 - dev.in
            /\ dev'.left = dev.left - 1 /\ dev'.short = dev.short
        BY <1>1, <2>3, <2>4, <3>1, DataSent
      <3>3. dev'.out = toggle'.out /\ dev'.in = toggle'.in
        BY <2>2, <2>3, <3>2
      <3>4. todo # 1 /\ dev.left # 0
        BY <1>1, <1>2, <2>4, <3>1 DEF Moving
      <3>5. CASE dev.left = 1
        <4>1. Refusal'
          BY <1>5, <3>1, <3>2, <3>5 DEF Refusal
        <4> QED BY <1>1, <1>3, <1>5, <2>3, <3>4, <4>1 DEF Going, MidData, Parity
      <3>6. CASE dev.left # 1
        <4>1. InPhase("in")'
          BY <3>1, <3>2, <3>3, <3>6 DEF InPhase
        <4>2. dev'.left < todo' /\ dev'.short
          BY <1>2, <1>3, <3>1, <3>2
        <4>3. Short'
          BY <1>5, <3>3, <4>1, <4>2 DEF Short
        <4> QED BY <1>1, <1>3, <1>5, <2>3, <3>4, <4>3 DEF Going, MidData, Parity
      <3> QED BY <3>5, <3>6
    <2>5. CASE dev.phase # "in"
      <3>1. dev.phase = "status" /\ todo > 1
        BY <1>5, <2>3, <2>5 DEF Short, InPhase, Sends
      <3>2. dev'.phase = "command" /\ dev'.in = 1 - dev.in /\ dev'.out = dev.out
        BY <1>1, <2>3, <3>1, StatusSent
      <3>3. Short'
        BY <1>5, <2>2, <2>3, <3>2 DEF Short
      <3> QED BY <1>1, <1>3, <1>5, <2>3, <3>1, <3>3 DEF Going, MidData, Parity
    <2> QED BY <2>4, <2>5
  <1> QED BY <1>2, <1>4, <1>5

LEMMA MoveOnTrack ==
  ASSUME MsdInv, MoveData, smooth', rt' \notin {"gone", "wild"}
  PROVE  Going'
  <1>1. smooth /\ success' /\ st = "data" /\ moved' = moved + 1
    BY DEF MoveData
  <1>2. rt' = rt /\ count' = count /\ bytesPerBlock' = bytesPerBlock
    BY DEF MoveData, Stay, outcome
  <1>3. Going /\ TypeOK /\ MidData /\ dev \in Devices /\ todo \in Nat \ {0} /\ moved \in Nat
    BY <1>1, <1>2, Typed DEF MsdInv, OnTrack, Going, Places, TypeOK
  <1>4. rt \in {"inquiry", "capacity", "read", "write"}
    BY <1>3 DEF MidData
  <1>5. /\ st' = IF todo = 1 THEN "status" ELSE "data"
        /\ todo' = todo - 1
    BY <1>1, <1>4 DEF MoveData, Stay, LastPacket
  <1>6. Total' = Total
    BY <1>2 DEF Total
  <1>7. rt # "write" => HcIn(IF rt = "inquiry" THEN "cbw" ELSE "data", PacketLen(rt))
    BY DEF MoveData
  <1>8. ~Refusal
    <2>1. CASE rt = "write"
      <3>1. Takes(dev)
        BY <1>1, <1>3, <2>1, OutSucceeds DEF MoveData
      <3> QED BY <2>1, <3>1 DEF Refusal, Takes
    <2>2. CASE rt # "write"
      <3>1. dev.haltIn => ~success'
        BY <1>7, <2>2 DEF HcIn, Sends
      <3> QED BY <1>1, <2>2, <3>1 DEF Refusal
    <2> QED BY <2>1, <2>2
  <1>14. CASE Short
    BY <1>1, <1>2, <1>3, <1>7, <1>14, ShortMoves
  <1> SUFFICES ASSUME ~Short PROVE Going'
    BY <1>14
  <1>9. /\ InPhase(IF rt = "write" THEN "out" ELSE "in")
        /\ dev.left = todo /\ ~dev.short /\ dev.op = rt
        /\ moved + todo = Total
    BY <1>3, <1>8 DEF MidData
  <1>10. /\ dev'.phase = IF dev.left = 1 THEN "status" ELSE IF rt = "write" THEN "out" ELSE "in"
         /\ ~dev'.haltIn /\ ~dev'.haltOut
         /\ dev'.out = toggle'.out /\ dev'.in = toggle'.in
         /\ dev'.left = dev.left - 1 /\ ~dev'.short /\ dev'.op = rt
         /\ stuck' = stuck /\ (rt # "write" => toggle'.out = toggle.out)
    <2>1. CASE rt = "write"
      <3>1. /\ dev.phase = "out" /\ ~dev.haltIn /\ ~dev.haltOut
            /\ dev.out = toggle.out /\ dev.in = toggle.in
        BY <1>9, <2>1 DEF InPhase
      <3>2. HcOut("data", NoCommand)
        BY <2>1 DEF MoveData
      <3>3. /\ dev' \in Received(dev, dev.out, NoCommand) /\ stuck' = stuck
            /\ toggle'.out = 1 - toggle.out /\ toggle'.in = toggle.in
        BY <1>1, <1>3, <3>1, <3>2, OutSucceeds
      <3>4. /\ dev'.phase = IF dev.left = 1 THEN "status" ELSE "out"
            /\ dev'.haltIn = dev.haltIn /\ dev'.haltOut = dev.haltOut
            /\ dev'.out = 1 - dev.out /\ dev'.in = dev.in
            /\ dev'.left = dev.left - 1 /\ dev'.short = dev.short /\ dev'.op = dev.op
        BY <1>3, <3>1, <3>3, DataTaken
      <3> QED BY <1>9, <2>1, <3>1, <3>3, <3>4
    <2>2. CASE rt # "write"
      <3>1. /\ dev.phase = "in" /\ ~dev.haltIn /\ ~dev.haltOut
            /\ dev.out = toggle.out /\ dev.in = toggle.in
        BY <1>9, <2>2 DEF InPhase
      <3>2. /\ dev' = Sent(dev) /\ stuck' = stuck
            /\ toggle'.in = 1 - toggle.in /\ toggle'.out = toggle.out
        BY <1>1, <1>3, <1>7, <2>2, <3>1, InSucceeds
      <3>3. /\ dev'.phase = IF dev.left = 1 THEN "status" ELSE "in"
            /\ ~dev'.haltIn /\ dev'.haltOut = dev.haltOut
            /\ dev'.out = dev.out /\ dev'.in = 1 - dev.in
            /\ dev'.left = dev.left - 1 /\ dev'.short = dev.short /\ dev'.op = dev.op
        BY <1>3, <1>9, <3>1, <3>2, DataSent
      <3> QED BY <1>9, <2>2, <3>1, <3>2, <3>3
    <2> QED BY <2>1, <2>2
  <1>11. Parity' /\ stuck' = <<>>
    BY <1>1, <1>2, <1>3, <1>4, <1>5, <1>10 DEF Going, Parity
  <1>12. CASE todo = 1
    <2>1. InPhase("status")'
      BY <1>9, <1>10, <1>12 DEF InPhase
    <2>2. moved' = Total'
      BY <1>1, <1>3, <1>6, <1>9, <1>12
    <2> QED BY <1>2, <1>3, <1>4, <1>5, <1>11, <1>12, <2>1, <2>2 DEF Going
  <1>13. CASE todo # 1
    <2>1. InPhase(IF rt = "write" THEN "out" ELSE "in")'
      BY <1>2, <1>9, <1>10, <1>13 DEF InPhase
    <2>2. moved' + todo' = Total' /\ dev'.left = todo'
      BY <1>1, <1>3, <1>5, <1>6, <1>9, <1>10
    <2>3. MidData'
      BY <1>2, <1>4, <1>10, <2>1, <2>2 DEF MidData
    <2> QED BY <1>2, <1>3, <1>4, <1>5, <1>11, <1>13, <2>3 DEF Going
  <1> QED BY <1>12, <1>13

LEMMA ReadOnTrack ==
  ASSUME MsdInv, ReadStatus, smooth', rt' \notin {"gone", "wild"}
  PROVE  Going'
  <1>1. smooth /\ success' /\ st = "status" /\ moved' = moved /\ rt' # "sense" /\ HcIn("cbw", CswLen)
    BY DEF ReadStatus
  <1>2. TypeOK /\ Places /\ rt \notin {"gone", "wild"}
    BY <1>1 DEF MsdInv, Places
  <1>3. Going /\ dev \in Devices /\ cbw \in Commands /\ InPhase("status")
    BY <1>1, <1>2, Typed DEF MsdInv, OnTrack, Going
  <1>4. rt \in {"inquiry", "start", "ready", "capacity", "read", "write"}
    BY <1>1, <1>2, <1>3 DEF TypeOK, Places, Routines, Going
  <1>5. /\ dev.phase = "status" /\ ~dev.haltIn /\ ~dev.haltOut
        /\ dev.out = toggle.out /\ dev.in = toggle.in
    BY <1>3 DEF InPhase
  <1>6. /\ dev' = Sent(dev) /\ stuck' = stuck /\ cbw' = Fill(dev)
        /\ toggle'.in = 1 - toggle.in /\ toggle'.out = toggle.out
    BY <1>1, <1>2, <1>5, InSucceeds
  <1>7. /\ dev'.phase = "command" /\ dev'.in = 1 - dev.in /\ dev'.out = dev.out
        /\ dev'.haltIn = dev.haltIn /\ dev'.haltOut = dev.haltOut
    BY <1>3, <1>5, <1>6, StatusSent
  <1>8. InPhase("command")' /\ stuck' = <<>>
    BY <1>3, <1>5, <1>6, <1>7 DEF InPhase, Going
  <1>9. cbw'.sig = "csw" /\ cbw'.op = cbw.op
    BY <1>3, <1>5, <1>6 DEF Fill, Commands
  <1>10. Return(cbw'.flags)
    BY <1>1 DEF ReadStatus
  <1>11. /\ rt' = NextAfter(cbw'.flags)
         /\ count' = IF rt = "capacity" /\ lun = Luns THEN 2 ELSE count
         /\ lun \in 1 .. Luns
    BY <1>2, <1>10 DEF Return, Enter, TypeOK
  <1>12. \/ rt = "inquiry" /\ rt' = "start"
         \/ rt = "start" /\ rt' = "ready"
         \/ rt = "ready" /\ rt' = "capacity"
         \/ rt = "capacity" /\ lun < Luns /\ rt' = "inquiry"
         \/ rt = "capacity" /\ lun = Luns /\ rt' = "read"
         \/ rt \in {"read", "write"} /\ rt' = "idle"
    BY <1>1, <1>4, <1>11, MsdAssumption DEF NextAfter
  <1>13. st' = IF rt' = "inquiry" THEN "clear" ELSE IF rt' = "idle" THEN "none" ELSE "command"
    BY <1>10, <1>12 DEF Return, Enter
  <1>14. Parity'
    BY <1>1, <1>3, <1>6, <1>12, <1>13 DEF Parity, Going
  <1>15. rt' \in {"read", "idle"} => bytesPerBlock' = BlockLen /\ count' # 0
    BY <1>1, <1>3, <1>11, <1>12 DEF ReadStatus, Going
  <1>16. rt' = "ready" => cbw'.op = "start"
    BY <1>1, <1>3, <1>9, <1>12 DEF Going
  <1>17. rt' = "idle" => result' = 1 /\ answered' /\ moved' = count' * BlockLen
    <2> SUFFICES ASSUME rt' = "idle" PROVE result' = 1 /\ answered' /\ moved' = count' * BlockLen
      OBVIOUS
    <2>1. rt \in {"read", "write"} /\ count' = count
      BY <1>11, <1>12
    <2>2. result' = 1
      BY <1>9, <2>1 DEF ReadStatus
    <2>3. answered'
      BY <1>5, <1>7 DEF ReadStatus, Answers
    <2>4. moved' = count' * BlockLen
      BY <1>1, <1>3, <2>1 DEF Going, Total
    <2> QED BY <2>2, <2>3, <2>4
  <1> QED BY <1>8, <1>12, <1>13, <1>14, <1>15, <1>16, <1>17 DEF Going

LEMMA CallOnTrack ==
  ASSUME MsdInv, Call, smooth', rt' \notin {"gone", "wild"}
  PROVE  Going'
  <1>1. UNCHANGED <<bytesPerBlock, toggle, stuck, dev, cbw, smooth>>
    BY DEF Call, bus, ghosts
  <1>2. rt' \in {"read", "write"} /\ st' = "command" /\ count' \in Counts /\ rt = "idle"
    BY DEF Call, Enter
  <1>3. Going /\ InPhase("command")
    BY <1>1, <1>2 DEF MsdInv, OnTrack, Going, Places
  <1>4. InPhase("command")' /\ stuck' = <<>> /\ bytesPerBlock' = BlockLen /\ count' # 0
    BY <1>1, <1>2, <1>3, MsdAssumption DEF InPhase, Going
  <1>5. Parity'
    BY <1>2 DEF Parity
  <1> QED BY <1>2, <1>4, <1>5 DEF Going

-----------------------------------------------------------------------------
LEMMA Started ==
  ASSUME Init
  PROVE  MsdInv
  <1>1. dev = NewDevice /\ dev \in Devices
    <2>1. NewDevice \in Devices
      BY DEF NewDevice, Devices, Ops
    <2> QED BY <2>1 DEF Init
  <1>2. RoutineOK
    BY MsdAssumption DEF Init, RoutineOK, Routines, AllCounts
  <1>0. 0 \in 0 .. MaxCalls /\ 0 \in 0 .. MaxFaults /\ Len(<<>>) <= MaxStuck
    BY MsdAssumption
  <1>3. RestOK
    BY <1>0, MsdAssumption DEF Init, RestOK
  <1>4. BusOK
    <2>1. Moving(dev)
      <3>1. dev.phase = "command"
        BY <1>1, Zenon DEF NewDevice
      <3> QED BY <3>1 DEF Moving
    <2>4. success \in BOOLEAN /\ faults \in 0 .. MaxFaults
      BY <1>0 DEF Init
    <2>2. toggle \in [out : {0, 1}, in : {0, 1}]
      BY DEF Init
    <2>3. stuck \in Seq(Abandoned) /\ Len(stuck) <= MaxStuck
      BY <1>0 DEF Init
    <2> QED BY <1>1, <2>1, <2>2, <2>3, <2>4 DEF BusOK
  <1>5. cbw \in Commands
    BY DEF Init, NoCommand, Commands, Ops, AllCounts
  <1>6. TypeOK /\ Places
    BY <1>2, <1>3, <1>4, <1>5, Parts
  <1>7. Signed
    BY DEF Init, Signed, TrueMeansStatus
  <1>8. InPhase("command") /\ Parity
    BY <1>1 DEF Init, NewDevice, InPhase, Parity
  <1>9. OnTrack
    BY <1>8 DEF Init, OnTrack, Going
  <1> QED BY <1>6, <1>7, <1>9 DEF MsdInv

LEMMA Preserved ==
  ASSUME MsdInv, [Next]_vars
  PROVE  MsdInv'
  <1>0. Safe
    BY DEF MsdInv, Safe
  <1>1. CASE Reset
    BY <1>0, <1>1, ResetSafe, ResetOnTrack DEF MsdInv, Safe, OnTrack
  <1>2. CASE ClearHalt
    BY <1>0, <1>2, ClearSafe, ClearOnTrack DEF MsdInv, Safe, OnTrack
  <1>3. CASE SendCommand
    BY <1>0, <1>3, SendSafe, SendOnTrack DEF MsdInv, Safe, OnTrack
  <1>4. CASE MoveData
    BY <1>0, <1>4, MoveSafe, MoveOnTrack DEF MsdInv, Safe, OnTrack
  <1>5. CASE ReadStatus
    BY <1>0, <1>5, ReadSafe, ReadOnTrack DEF MsdInv, Safe, OnTrack
  <1>6. CASE NoQueueHead
    BY <1>0, <1>6, NoQueueHeadSafe DEF MsdInv, Safe, OnTrack, NoQueueHead
  <1>7. CASE Call
    BY <1>0, <1>7, CallSafe, CallOnTrack DEF MsdInv, Safe, OnTrack
  <1>8. CASE Late
    <2>1. rt' = rt /\ smooth' = smooth /\ stuck # <<>>
      BY <1>8 DEF Late, routine
    <2>2. OnTrack'
      BY <2>1 DEF OnTrack, Going, MsdInv
    <2> QED BY <1>0, <1>8, <2>2, LateSafe DEF MsdInv, Safe
  <1>9. CASE UNCHANGED vars
    <2>1. /\ UNCHANGED <<rt, st, lun, todo, count, bytesPerBlock, result, calls, toggle, success>>
          /\ UNCHANGED <<stuck, dev, faults, cbw, smooth, moved, answered>>
      BY <1>9 DEF vars, routine, outcome, bus, ghosts
    <2>2. TypeOK' /\ Places' /\ Signed'
      BY <2>1 DEF MsdInv, TypeOK, Places, Signed, TrueMeansStatus, Moving
    <2>3. OnTrack'
      BY <2>1 DEF MsdInv, OnTrack, Going, MidData, InPhase, Parity, Refusal, Short, Total
    <2> QED BY <2>2, <2>3 DEF MsdInv
  <1> QED BY <1>1, <1>2, <1>3, <1>4, <1>5, <1>6, <1>7, <1>8, <1>9 DEF Next, Driver

THEOREM MsdInvHolds == Spec => []MsdInv
  <1>1. Init => MsdInv
    BY Started
  <1>2. MsdInv /\ [Next]_vars => MsdInv'
    BY Preserved
  <1> QED BY <1>1, <1>2, PTL DEF Spec

(* While nothing has failed, the driver sends every command to a device     *)
(* that waits for one, with the toggle the device expects, and with nothing *)
(* of the past on the schedule (msd.cpp:40-47, 249), for any number of      *)
(* units: the invariant counts the commands of a unit, which are even, so   *)
(* that the driver's toggle is 0 whenever inquiry_request resets that of    *)
(* the device.                                                              *)
THEOREM InStepHolds == Spec => []InStep
  <1>1. MsdInv => InStep
    BY Zenon DEF MsdInv, OnTrack, Going, InPhase, Places, InStep
  <1> QED BY <1>1, MsdInvHolds, PTL

(* A read or write on such a device that no transfer failed in has moved    *)
(* all of its blocks and returns true, for any number of them (msd.cpp:     *)
(* 329-466); with more than the command's byte can say, one of its packets  *)
(* must fail (Short).                                                       *)
THEOREM SmoothCallsCompleteHolds == Spec => []SmoothCallsComplete
  <1>1. MsdInv => SmoothCallsComplete
    BY Zenon DEF MsdInv, OnTrack, Going, SmoothCallsComplete
  <1> QED BY <1>1, MsdInvHolds, PTL

(* read and write return true only if the device sent a status after their  *)
(* command, whatever fails and however often (msd.cpp:379-383, 460-464).    *)
THEOREM TrueMeansStatusHolds == Spec => []TrueMeansStatus
  <1>1. MsdInv => TrueMeansStatus
    BY DEF MsdInv, Signed
  <1> QED BY <1>1, MsdInvHolds, PTL
=============================================================================
